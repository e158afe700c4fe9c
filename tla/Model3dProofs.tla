-------------------------- MODULE Model3dProofs ----------------------------
(***************************************************************************)
(* Proofs about the way of a 3D model: the payload and its definition, the  *)
(* sheet and its views, and the ledger that the model is registered in.     *)
(*                                                                          *)
(* The ledger: its types, the slot and the manifest, the size that a hash   *)
(* vouches for, the end of the measurements, the versions of the takes and  *)
(* what a protected registration may replace.  Only the first two are       *)
(* inductive.  Each of the others gets the strengthening that its section   *)
(* begins with: what a run knows of the size (SizesKnown), how far the      *)
(* project has moved on since it wrote (AllAccounted), who gave a take its  *)
(* name (Lineage), and what a protected run may count on as long as the     *)
(* take it has read is there (AllGuarded).                                  *)
(*                                                                          *)
(* The sheet: ranks and the widest gaps, the ranges, the trimmed views, and *)
(* that what is staged comes from the sheet (StagedFromSheet).              *)
(*                                                                          *)
(* The payload: paths and documents, what one round of the normalisation    *)
(* leaves (Progress), what it accepts, and that the worker reads what was   *)
(* stored as it reads what was posted (Agreed).                             *)
(***************************************************************************)
EXTENDS EntityLedger, ThreeViewIntake, FiniteSetTheorems, SequenceTheorems, TLAPS

-----------------------------------------------------------------------------
(* Takes.                                                                   *)

(* A list that is not there counts as an empty one.                         *)
LEMMA PresentType ==
  ASSUME NEW list \in Seq(Take) \cup {None}
  PROVE  /\ Present(list) \in Seq(Take)
         /\ list # None => Present(list) = list
  BY DEF Present

LEMMA PresentList ==
  ASSUME NEW list \in Seq(Take)
  PROVE  Present(list) = list
  BY NoneAssumption DEF Present

(* Unset clears the flag of the takes it names and leaves all else alone.   *)
LEMMA UnsetType ==
  ASSUME NEW list \in Seq(Take), NEW I
  PROVE  /\ Unset(list, I) \in Seq(Take)
         /\ Len(Unset(list, I)) = Len(list)
         /\ DOMAIN Unset(list, I) = DOMAIN list
         /\ \A i \in DOMAIN list :
              /\ Unset(list, I)[i].version = list[i].version
              /\ Unset(list, I)[i].source = list[i].source
              /\ Unset(list, I)[i].authority = list[i].authority
              /\ IF i \in I THEN ~Unset(list, I)[i].current ELSE Unset(list, I)[i] = list[i]
<1> DEFINE new == Unset(list, I)
<1>1. /\ DOMAIN list = 1..Len(list) /\ Len(list) \in Nat
      /\ \A i \in DOMAIN list : list[i] \in Take
  OBVIOUS
<1>2. new = [i \in 1..Len(list) |->
               IF i \in I THEN [list[i] EXCEPT !.current = FALSE] ELSE list[i]]
  BY <1>1 DEF Unset
<1>3. ASSUME NEW i \in 1..Len(list)
      PROVE  /\ new[i] \in Take
             /\ new[i].version = list[i].version
             /\ new[i].source = list[i].source
             /\ new[i].authority = list[i].authority
             /\ IF i \in I THEN ~new[i].current ELSE new[i] = list[i]
  <2>1. list[i] \in Take
    BY <1>1
  <2>2. CASE i \in I
    <3>1. new[i] = [list[i] EXCEPT !.current = FALSE]
      BY <1>2, <2>2
    <3>2. new[i] = [version |-> list[i].version, supersedes |-> list[i].supersedes,
                    current |-> FALSE, source |-> list[i].source,
                    authority |-> list[i].authority]
      BY <2>1, <3>1 DEF Take
    <3> QED
      BY <2>1, <2>2, <3>2 DEF Take
  <2>3. CASE i \notin I
    BY <1>2, <2>1, <2>3
  <2> QED
    BY <2>2, <2>3
<1>4. new \in [1..Len(list) -> Take]
  BY <1>2, <1>3
<1>5. new \in Seq(Take) /\ Len(new) = Len(list)
  BY <1>1, <1>4
<1> QED
  BY <1>1, <1>2, <1>3, <1>5

(* A version names the take before it, or none.                             *)
LEMMA SupersedesType ==
  ASSUME NEW list \in Seq(Take)
  PROVE  Supersedes(list) \in Versions \cup {None}
<1>1. CASE list = <<>>
  BY <1>1 DEF Supersedes
<1>2. CASE list # <<>>
  <2>1. list[Len(list)] \in Take
    BY <1>2, EmptySeq
  <2>2. list[Len(list)].version \in Versions
    BY <2>1 DEF Take
  <2> QED
    BY <1>2, <2>2 DEF Supersedes, Last
<1> QED
  BY <1>1, <1>2

(* What a registration appends.                                             *)
LEMMA WorkerTakeType ==
  ASSUME NEW list \in Seq(Take), NEW g \in Registrars
  PROVE  /\ WorkerTake(list, g) \in Take
         /\ WorkerTake(list, g).version.suffix = Prefix[g]
         /\ WorkerTake(list, g).version \in Versions
         /\ WorkerTake(list, g).current
         /\ WorkerTake(list, g).source = "worker_generated"
         /\ WorkerTake(list, g).authority = "automatic"
<1>1. NextVersion(list, g) \in Versions /\ NextVersion(list, g).suffix = Prefix[g]
  BY DEF NextVersion, Version, Versions
<1> QED
  BY <1>1, SupersedesType DEF WorkerTake, Take

-----------------------------------------------------------------------------
(* Runs.                                                                    *)

(* What a run may change of its own record, and that nothing else changes.  *)
LEMMA RegistrarUpdates ==
  ASSUME NEW r \in Registrar, NEW step \in Location
  PROVE  /\ [r EXCEPT !.at = step] \in Registrar
         /\ [r EXCEPT !.at = step, !.again = TRUE] \in Registrar
         /\ [r EXCEPT !.resized = @ \/ step = "checked"] \in Registrar
         /\ \A b \in Sizes \cup {None} : [r EXCEPT !.at = step, !.built = b] \in Registrar
         /\ \A s \in Slot, p \in Previz :
              [r EXCEPT !.at = step, !.slot = s, !.previz = p] \in Registrar
         /\ \A list \in Seq(Take) \cup {None} :
              [r EXCEPT !.at = step, !.artifacts = list] \in Registrar
         /\ \A n \in Nat : [r EXCEPT !.at = step, !.revision = n] \in Registrar
  BY DEF Registrar

LEMMA AfreshType ==
  ASSUME NEW step \in Location, NEW n \in Nat, NEW v \in Versions
  PROVE  /\ Afresh(step) \in Registrar
         /\ [Afresh(step) EXCEPT !.own = n] \in Registrar
         /\ [Afresh(step) EXCEPT !.version = v, !.own = n] \in Registrar
  BY DEF Registrar, Afresh, Slot, Previz

-----------------------------------------------------------------------------
(* The type invariant.                                                      *)

LEMMA RevisionType ==
  ASSUME TypeOK
  PROVE  Revision \in Nat
<1> DEFINE W == {g \in Registrars : registrars[g].at \in Written}
           M == {g \in Registrars : registrars[g].at = "measured"}
<1>1. IsFiniteSet(W) /\ IsFiniteSet(M)
  BY LedgerAssumption, FS_Subset
<1>2. Cardinality(W) \in Nat /\ Cardinality(M) \in Nat
  BY <1>1, FS_CardinalityType
<1>3. edits \in Nat
  BY LedgerAssumption DEF TypeOK
<1> QED
  BY <1>2, <1>3 DEF Revision

LEMMA InitType == Init => TypeOK
<1> SUFFICES ASSUME Init PROVE TypeOK
  OBVIOUS
<1>1. Afresh("ready") \in Registrar
  BY DEF Registrar, Afresh, Slot, Previz, Location
<1>2. registrars \in [Registrars -> Registrar]
  BY <1>1 DEF Init
<1>3. artifacts \in Seq(Take) \cup {None}
  BY EmptySeq DEF Init
<1>4. previz \in Previz
  BY DEF Init, Previz
<1>5. /\ DOMAIN model3d \subseteq Places /\ Entity \in DOMAIN model3d
      /\ model3d \in [DOMAIN model3d -> Slot] /\ latest \in DOMAIN model3d \cup {None}
  BY DEF Init, Slot
<1> QED
  BY <1>2, <1>3, <1>4, <1>5, LedgerAssumption DEF Init, TypeOK

(* A run that ends keeps nothing but the revision of its own batch.         *)
LEMMA EndsType ==
  ASSUME TypeOK, NEW g \in Registrars, NEW step \in Location, Ends(g, step)
  PROVE  registrars' \in [Registrars -> Registrar]
<1>1. registrars[g].own \in Nat
  BY DEF TypeOK, Registrar
<1>2. [Afresh(step) EXCEPT !.own = registrars[g].own] \in Registrar
  BY <1>1 DEF Registrar, Afresh, Slot, Previz
<1> QED
  BY <1>2 DEF Ends, TypeOK

LEMMA FailsType == ASSUME TypeOK, Fails PROVE failures' \in 0..MaxFailures
  BY LedgerAssumption DEF TypeOK, Fails

LEMMA ReadSizeType ==
  ASSUME TypeOK, NEW read, ReadSize(read)
  PROVE  read \in Sizes \cup {None} /\ failures' \in 0..MaxFailures
  BY FailsType DEF TypeOK, ReadSize

LEMMA SubmitType ==
  ASSUME TypeOK, NEW g \in Registrars, Submit(g)
  PROVE  TypeOK'
<1>1. PICK read \in {size, None} :
        /\ IF Given[g] = None THEN ReadSize(read) ELSE read = size /\ UNCHANGED failures
        /\ registrars' = [registrars EXCEPT
             ![g].at = "modelled", ![g].built = IF Given[g] = None THEN read ELSE Given[g]]
  BY DEF Submit
<1> DEFINE b == IF Given[g] = None THEN read ELSE Given[g]
<1>2. b \in Sizes \cup {None}
  BY LedgerAssumption DEF TypeOK
<1>3. [registrars[g] EXCEPT !.at = "modelled", !.built = b] \in Registrar
  BY <1>2, RegistrarUpdates DEF TypeOK, Location
<1>4. registrars' = [registrars EXCEPT ![g] = [registrars[g] EXCEPT !.at = "modelled", !.built = b]]
  BY <1>1
<1>5. registrars' \in [Registrars -> Registrar]
  BY <1>3, <1>4 DEF TypeOK
<1>6. failures' \in 0..MaxFailures
  BY <1>1, ReadSizeType DEF TypeOK
<1> QED
  BY <1>5, <1>6 DEF Submit, TypeOK, files

LEMMA CheckSizeType ==
  ASSUME TypeOK, NEW g \in Registrars, CheckSize(g)
  PROVE  TypeOK'
<1>1. PICK read \in {size, None} :
        /\ ReadSize(read)
        /\ IF SameSize(read, Given[g]) THEN Goes(g, "checked") ELSE Ends(g, "failed")
  BY DEF CheckSize
<1>2. CASE Goes(g, "checked")
  <2>1. [registrars[g] EXCEPT !.at = "checked"] \in Registrar
    BY RegistrarUpdates DEF TypeOK, Location
  <2> QED
    BY <1>1, <1>2, <2>1, ReadSizeType DEF CheckSize, Goes, TypeOK, files
<1>3. CASE Ends(g, "failed")
  BY <1>1, <1>3, EndsType, ReadSizeType DEF CheckSize, TypeOK, files, Location
<1> QED
  BY <1>1, <1>2, <1>3

LEMMA ReadLedgerType ==
  ASSUME TypeOK, NEW g \in Registrars, ReadLedger(g)
  PROVE  TypeOK'
<1>1. CASE /\ registrars' = [registrars EXCEPT ![g].at = "ledgerRead",
                                                ![g].slot = SlotAt(PlaceOf[g]), ![g].previz = previz]
           /\ UNCHANGED failures
  <2>1. SlotAt(PlaceOf[g]) \in Slot
    BY DEF TypeOK, SlotAt, Slot
  <2>2. [registrars[g] EXCEPT !.at = "ledgerRead", !.slot = SlotAt(PlaceOf[g]), !.previz = previz]
          \in Registrar
    BY <2>1, RegistrarUpdates DEF TypeOK, Location
  <2> QED
    BY <1>1, <2>2 DEF ReadLedger, TypeOK, files
<1>2. CASE Ends(g, "failed") /\ Fails
  BY <1>2, EndsType, FailsType DEF ReadLedger, TypeOK, files, Location
<1> QED
  BY <1>1, <1>2 DEF ReadLedger

LEMMA ReadManifestType ==
  ASSUME TypeOK, NEW g \in Registrars, ReadManifest(g)
  PROVE  TypeOK'
<1>1. PICK read \in {artifacts, None} :
        /\ IF read = artifacts THEN UNCHANGED failures ELSE Fails
        /\ \/ Ends(g, "failed")
           \/ registrars' = [registrars EXCEPT ![g].at = "manifestRead", ![g].artifacts = read]
  BY DEF ReadManifest
<1>2. failures' \in 0..MaxFailures
  BY <1>1, FailsType DEF TypeOK
<1>3. CASE Ends(g, "failed")
  BY <1>2, <1>3, EndsType DEF ReadManifest, TypeOK, files, Location
<1>4. CASE registrars' = [registrars EXCEPT ![g].at = "manifestRead", ![g].artifacts = read]
  <2>1. [registrars[g] EXCEPT !.at = "manifestRead", !.artifacts = read] \in Registrar
    BY <1>1, RegistrarUpdates DEF TypeOK, Location
  <2> QED
    BY <1>2, <1>4, <2>1 DEF ReadManifest, TypeOK, files
<1> QED
  BY <1>1, <1>3, <1>4

(* The batch: the take it appends, and the manifest it leaves.              *)
LEMMA PatchedType ==
  ASSUME TypeOK, NEW g \in Registrars, Applicable(g), NEW take \in Take
  PROVE  PatchedManifest(g, take) \in Seq(Take)
<1>1. CASE registrars[g].artifacts = None
  BY <1>1 DEF PatchedManifest
<1>2. CASE registrars[g].artifacts # None
  <2>1. artifacts \in Seq(Take)
    BY <1>2 DEF Applicable, TypeOK
  <2>2. Unset(artifacts, CurrentOf(registrars[g].artifacts)) \in Seq(Take)
    BY <2>1, UnsetType
  <2> QED
    BY <1>2, <2>2, AppendProperties DEF PatchedManifest
<1> QED
  BY <1>1, <1>2

LEMMA ReadTakes ==
  ASSUME TypeOK, NEW g \in Registrars
  PROVE  Present(registrars[g].artifacts) \in Seq(Take)
  BY PresentType DEF TypeOK, Registrar

LEMMA WriteBatchType ==
  ASSUME TypeOK, NEW g \in Registrars, WriteBatch(g)
  PROVE  TypeOK'
<1>1. CASE Applicable(g) /\ Tested(g)
  <2> DEFINE take == WorkerTake(Present(registrars[g].artifacts), g)
  <2>1. take \in Take /\ take.version \in Versions
    BY ReadTakes, WorkerTakeType
  <2> HIDE DEF take
  <2>2. /\ artifacts' = PatchedManifest(g, take)
        /\ model3d' = PatchedSlots(g, take) /\ latest' = PlaceOf[g]
        /\ previz' = PatchedPreviz(g, take)
        /\ registrars' = [registrars EXCEPT ![g] =
             [Afresh("registered") EXCEPT !.version = take.version, !.own = Revision + 1]]
    BY <1>1 DEF WriteBatch, take
  <2>3. artifacts' \in Seq(Take)
    BY <1>1, <2>1, <2>2, PatchedType
  <2>4. /\ DOMAIN model3d' = DOMAIN model3d /\ model3d' \in [DOMAIN model3d -> Slot]
        /\ latest' \in DOMAIN model3d
    <3>1. WorkerSlot(take) \in Slot
      BY <2>1 DEF WorkerSlot, Filled, Slot
    <3> QED
      BY <1>1, <2>2, <3>1 DEF PatchedSlots, Applicable, TypeOK
  <2>5. previz' \in Previz
    BY <2>1, <2>2 DEF PatchedPreviz, Previz, TypeOK
  <2>6. [Afresh("registered") EXCEPT !.version = take.version, !.own = Revision + 1] \in Registrar
    <3>1. Revision + 1 \in Nat /\ "registered" \in Location
      BY RevisionType DEF Location, Written
    <3> QED
      BY <2>1, <3>1, AfreshType
  <2>7. registrars' \in [Registrars -> Registrar]
    BY <2>2, <2>6 DEF TypeOK
  <2> QED
    BY <2>3, <2>4, <2>5, <2>7 DEF WriteBatch, TypeOK
<1>2. CASE ~(Applicable(g) /\ Tested(g))
  <2>1. Ends(g, "failed") /\ UNCHANGED <<artifacts, model3d, previz, latest>>
    BY <1>2 DEF WriteBatch
  <2> QED
    BY <2>1, EndsType DEF WriteBatch, TypeOK, Location
<1> QED
  BY <1>1, <1>2

LEMMA WriteFailsType ==
  ASSUME TypeOK, NEW g \in Registrars, WriteFails(g)
  PROVE  TypeOK'
  BY EndsType, FailsType DEF WriteFails, TypeOK, files, Location

LEMMA ReadRevisionType ==
  ASSUME TypeOK, NEW g \in Registrars, ReadRevision(g)
  PROVE  TypeOK'
<1>1. [registrars[g] EXCEPT !.at = "measuring", !.revision = Revision] \in Registrar
  BY RevisionType, RegistrarUpdates DEF TypeOK, Location, Written
<1> QED
  BY <1>1 DEF ReadRevision, TypeOK, files

LEMMA MeasureType ==
  ASSUME TypeOK, NEW g \in Registrars, Measure(g)
  PROVE  TypeOK'
<1>1. CASE Ends(g, "measured") /\ anchors' = registrars[g].version
  <2>1. anchors' \in Versions \cup {None}
    BY <1>1 DEF TypeOK, Registrar
  <2> QED
    BY <1>1, <2>1, EndsType DEF Measure, TypeOK, Location, Written
<1>2. CASE Ends(g, "pending") /\ UNCHANGED anchors
  BY <1>2, EndsType DEF Measure, TypeOK, Location, Written
<1>3. CASE StartOver(g) /\ UNCHANGED anchors
  <2>1. [registrars[g] EXCEPT !.at = "registered", !.again = TRUE] \in Registrar
    BY RegistrarUpdates DEF TypeOK, Location, Written
  <2> QED
    BY <1>3, <2>1 DEF Measure, StartOver, TypeOK
<1> QED
  BY <1>1, <1>2, <1>3 DEF Measure

LEMMA MeasureFailsType ==
  ASSUME TypeOK, NEW g \in Registrars, MeasureFails(g)
  PROVE  TypeOK'
  BY EndsType, FailsType DEF MeasureFails, TypeOK, files, Location, Written

(* What a person appends.                                                   *)
HumanTake(list) ==
  [version |-> Version(Len(list) + 1, Person), supersedes |-> Supersedes(list),
   current |-> TRUE, source |-> "uploaded", authority |-> "human"]

LEMMA HumanTakeType ==
  ASSUME NEW list \in Seq(Take)
  PROVE  HumanTake(list) \in Take /\ HumanTake(list).version \in Versions
<1>1. Version(Len(list) + 1, Person) \in Versions
  BY DEF Version, Versions
<1> QED
  BY <1>1, SupersedesType DEF HumanTake, Take

(* A person writes the slot of a place that is there.                       *)
LEMMA SlotWritten ==
  ASSUME TypeOK, NEW source \in {"generated", "uploaded"}, NEW version \in Versions,
         WriteSlot(source, version)
  PROVE  /\ DOMAIN model3d' = DOMAIN model3d /\ model3d' \in [DOMAIN model3d -> Slot]
         /\ latest' \in DOMAIN model3d /\ latest' # None
         /\ model3d'[latest'] # None /\ model3d'[latest'].version = version
<1> DEFINE new == [source |-> source, version |-> version]
<1>1. PICK place \in DOMAIN model3d : model3d' = [model3d EXCEPT ![place] = new] /\ latest' = place
  BY DEF WriteSlot
<1>2. new \in Slot /\ new # None /\ new.version = version
  BY NoneAssumption DEF Filled, Slot
<1>3. place # None
  BY LedgerAssumption DEF TypeOK
<1> HIDE DEF new
<1> QED
  BY <1>1, <1>2, <1>3 DEF TypeOK

(* Upload and Pick, in the terms the proofs use.                            *)
LEMMA UploadStep ==
  ASSUME TypeOK, Upload
  PROVE  LET list == Present(artifacts)
         IN  /\ list \in Seq(Take)
             /\ Unset(list, DOMAIN list) \in Seq(Take)
             /\ HumanTake(list) \in Take
             /\ artifacts' = Append(Unset(list, DOMAIN list), HumanTake(list))
             /\ artifacts' \in Seq(Take)
             /\ WriteSlot("uploaded", HumanTake(list).version)
             /\ HumanTake(list).version \in Versions
<1> DEFINE list == Present(artifacts)
<1>1. list \in Seq(Take)
  BY PresentType DEF TypeOK
<1>2. HumanTake(list) \in Take /\ HumanTake(list).version \in Versions
  BY <1>1, HumanTakeType
<1>3. Unset(list, DOMAIN list) \in Seq(Take)
  BY <1>1, UnsetType
<1>4. /\ artifacts' = Append(Unset(list, DOMAIN list), HumanTake(list))
      /\ WriteSlot("uploaded", HumanTake(list).version)
  BY DEF Upload, HumanTake
<1>5. Append(Unset(list, DOMAIN list), HumanTake(list)) \in Seq(Take)
  BY <1>2, <1>3, AppendProperties
<1> QED
  BY <1>1, <1>2, <1>3, <1>4, <1>5

LEMMA PickStep ==
  ASSUME TypeOK, Pick
  PROVE  /\ artifacts \in Seq(Take)
         /\ artifacts' \in Seq(Take)
         /\ DOMAIN artifacts' = DOMAIN artifacts
         /\ \E i \in DOMAIN artifacts :
              /\ artifacts'[i].current /\ artifacts'[i].authority = "human"
              /\ \A k \in DOMAIN artifacts \ {i} : ~artifacts'[k].current
              /\ \A k \in DOMAIN artifacts : /\ artifacts'[k].version = artifacts[k].version
                                             /\ artifacts'[k].source = artifacts[k].source
              /\ artifacts[i].version \in Versions
              /\ WriteSlot(IF artifacts[i].source = "uploaded" THEN "uploaded" ELSE "generated",
                           artifacts[i].version)
<1>1. PICK i \in DOMAIN Present(artifacts) :
        /\ artifacts' = [Unset(artifacts, DOMAIN artifacts) EXCEPT
                           ![i].current = TRUE, ![i].authority = "human"]
        /\ WriteSlot(IF artifacts[i].source = "uploaded" THEN "uploaded" ELSE "generated",
                     artifacts[i].version)
  BY DEF Pick
<1>2. artifacts \in Seq(Take) /\ i \in DOMAIN artifacts
  <2>1. CASE artifacts = None
    BY <2>1, <1>1 DEF Present
  <2>2. CASE artifacts # None
    BY <2>2, <1>1 DEF Present, TypeOK
  <2> QED
    BY <2>1, <2>2
<1> DEFINE unset == Unset(artifacts, DOMAIN artifacts)
<1>3. /\ unset \in Seq(Take) /\ DOMAIN unset = DOMAIN artifacts
      /\ \A k \in DOMAIN artifacts :
           /\ unset[k].version = artifacts[k].version
           /\ unset[k].source = artifacts[k].source
           /\ ~unset[k].current
  BY <1>2, UnsetType
<1> DEFINE new == [unset[i] EXCEPT !.current = TRUE, !.authority = "human"]
<1>4. artifacts' = [unset EXCEPT ![i] = new]
  BY <1>1
<1> HIDE DEF unset
<1>5. unset[i] \in Take
  BY <1>2, <1>3
<1>6. /\ new \in Take /\ new.current /\ new.authority = "human"
      /\ new.version = unset[i].version /\ new.source = unset[i].source
  BY <1>5 DEF Take
<1> HIDE DEF new
<1>7. artifacts' \in Seq(Take) /\ DOMAIN artifacts' = DOMAIN artifacts
  BY <1>2, <1>3, <1>4, <1>6
<1>8. \A k \in DOMAIN artifacts : artifacts'[k] = IF k = i THEN new ELSE unset[k]
  BY <1>3, <1>4
<1>9. artifacts'[i].current /\ artifacts'[i].authority = "human"
  BY <1>2, <1>6, <1>8
<1>10. ASSUME NEW k \in DOMAIN artifacts
       PROVE  /\ artifacts'[k].version = artifacts[k].version
              /\ artifacts'[k].source = artifacts[k].source
              /\ k # i => ~artifacts'[k].current
  BY <1>3, <1>6, <1>8
<1>11. artifacts[i].version \in Versions
  <2>1. artifacts[i] \in Take
    BY <1>2
  <2> QED
    BY <2>1 DEF Take
<1> QED
  BY <1>1, <1>2, <1>7, <1>9, <1>10, <1>11

LEMMA EditsType ==
  ASSUME TypeOK, Edit
  PROVE  edits' \in 0..MaxEdits
  BY LedgerAssumption DEF TypeOK, Edit

LEMMA UploadType == ASSUME TypeOK, Upload PROVE TypeOK'
<1>1. /\ DOMAIN model3d' = DOMAIN model3d /\ model3d' \in [DOMAIN model3d -> Slot]
      /\ latest' \in DOMAIN model3d
  BY UploadStep, SlotWritten
<1> QED
  BY <1>1, UploadStep, EditsType DEF Upload, TypeOK

LEMMA PickType == ASSUME TypeOK, Pick PROVE TypeOK'
<1>1. PICK i \in DOMAIN artifacts :
        /\ artifacts[i].version \in Versions
        /\ WriteSlot(IF artifacts[i].source = "uploaded" THEN "uploaded" ELSE "generated",
                     artifacts[i].version)
  BY PickStep
<1>2. /\ DOMAIN model3d' = DOMAIN model3d /\ model3d' \in [DOMAIN model3d -> Slot]
      /\ latest' \in DOMAIN model3d
  BY <1>1, SlotWritten
<1> QED
  BY <1>2, PickStep, EditsType DEF Pick, TypeOK

LEMMA ChoosePrevizType == ASSUME TypeOK, ChoosePreviz PROVE TypeOK'
<1>1. previz' \in Previz
  <2>1. model3d[Entity] \in Slot
    BY DEF TypeOK
  <2> QED
    BY <2>1 DEF ChoosePreviz, Previz, Slot, Filled
<1> QED
  BY <1>1, EditsType DEF ChoosePreviz, TypeOK

LEMMA ResizeType == ASSUME TypeOK, Resize PROVE TypeOK'
<1>1. ASSUME NEW g \in Registrars
      PROVE  [registrars[g] EXCEPT !.resized =
                @ \/ registrars[g].at \in {"checked", "ledgerRead", "manifestRead"}] \in Registrar
  BY DEF TypeOK, Registrar
<1> QED
  BY <1>1, EditsType DEF Resize, TypeOK

LEMMA NextType == TypeOK /\ [Next]_vars => TypeOK'
<1> SUFFICES ASSUME TypeOK, [Next]_vars PROVE TypeOK'
  OBVIOUS
<1>1. ASSUME NEW g \in Registrars, Register(g)
      PROVE  TypeOK'
  BY <1>1, SubmitType, CheckSizeType, ReadLedgerType, ReadManifestType, WriteBatchType,
     WriteFailsType, ReadRevisionType, MeasureType, MeasureFailsType DEF Register
<1>2. CASE UNCHANGED vars
  BY <1>2 DEF vars, files, TypeOK
<1> QED
  BY <1>1, <1>2, UploadType, PickType, ChoosePrevizType, ResizeType DEF Next

(* Every variable keeps its type.                                           *)
THEOREM LedgerTypes == Spec => []TypeOK
<1>1. Init => TypeOK
  BY InitType
<1>2. TypeOK /\ [Next]_vars => TypeOK'
  BY NextType
<1> QED
  BY <1>1, <1>2, PTL DEF Spec

-----------------------------------------------------------------------------
(* The slot that was written last mirrors a current take.                   *)

(* What a batch that is applied does to the list: it appends one take to    *)
(* what it has unset, or replaces the list when it had read none.           *)
LEMMA BatchStep ==
  ASSUME TypeOK, NEW g \in Registrars, WriteBatch(g), registrars'[g].at = "registered"
  PROVE  LET take == WorkerTake(Present(registrars[g].artifacts), g)
             read == registrars[g].artifacts
         IN  /\ Applicable(g) /\ Tested(g)
             /\ take \in Take
             /\ latest' = PlaceOf[g] /\ latest' # None
             /\ model3d'[latest'] = WorkerSlot(take) /\ model3d'[latest'] # None
             /\ artifacts' \in Seq(Take)
             /\ IF read = None THEN artifacts' = <<take>>
                ELSE /\ artifacts \in Seq(Take)
                     /\ Unset(artifacts, CurrentOf(read)) \in Seq(Take)
                     /\ artifacts' = Append(Unset(artifacts, CurrentOf(read)), take)
<1>1. Applicable(g) /\ Tested(g)
  BY DEF WriteBatch, Ends, Afresh, TypeOK
<1> DEFINE take == WorkerTake(Present(registrars[g].artifacts), g)
<1>2. take \in Take /\ take.version \in Versions
  BY ReadTakes, WorkerTakeType
<1> HIDE DEF take
<1>3. /\ artifacts' = PatchedManifest(g, take)
      /\ model3d' = PatchedSlots(g, take) /\ latest' = PlaceOf[g]
  BY <1>1 DEF WriteBatch, take
<1>6. PlaceOf[g] \in DOMAIN model3d /\ PlaceOf[g] # None
  BY <1>1, LedgerAssumption DEF Applicable
<1>7. model3d'[latest'] = WorkerSlot(take) /\ model3d'[latest'] # None
  <2>1. WorkerSlot(take) # None
    BY <1>2, NoneAssumption DEF WorkerSlot, Filled
  <2> HIDE DEF WorkerSlot
  <2> QED
    BY <1>3, <1>6, <2>1 DEF PatchedSlots, TypeOK
<1>4. artifacts' \in Seq(Take)
  BY <1>1, <1>2, <1>3, PatchedType
<1>5. registrars[g].artifacts # None =>
        /\ artifacts \in Seq(Take)
        /\ Unset(artifacts, CurrentOf(registrars[g].artifacts)) \in Seq(Take)
  BY <1>1, UnsetType DEF Applicable, TypeOK
<1> QED
  BY <1>1, <1>2, <1>3, <1>4, <1>5, <1>6, <1>7 DEF PatchedManifest, take

(* A batch that is not applied leaves the files alone.                      *)
LEMMA NoBatchStep ==
  ASSUME TypeOK, NEW g \in Registrars, WriteBatch(g), registrars'[g].at # "registered"
  PROVE  UNCHANGED <<artifacts, model3d, latest>> /\ Ends(g, "failed")
<1>1. CASE Applicable(g) /\ Tested(g)
  <2>1. registrars'[g] = [Afresh("registered") EXCEPT
          !.version = WorkerTake(Present(registrars[g].artifacts), g).version, !.own = Revision + 1]
    BY <1>1 DEF WriteBatch, TypeOK
  <2>2. registrars'[g].at = "registered"
    BY <2>1 DEF Afresh
  <2> QED
    BY <2>2
<1> QED
  BY <1>1 DEF WriteBatch

(* The other steps of a run write neither file.                             *)
LEMMA ReadsOnly ==
  ASSUME NEW g \in Registrars, Register(g), ~WriteBatch(g)
  PROVE  UNCHANGED <<artifacts, model3d, latest, size, edits>>
  BY DEF Register, Submit, CheckSize, ReadLedger, ReadManifest, WriteFails, ReadRevision,
         Measure, MeasureFails, files

(* After an append.                                                         *)
LEMMA AppendedTake ==
  ASSUME NEW list \in Seq(Take), NEW take \in Take
  PROVE  /\ DOMAIN Append(list, take) = DOMAIN list \cup {Len(list) + 1}
         /\ Len(list) + 1 \notin DOMAIN list
         /\ Append(list, take)[Len(list) + 1] = take
         /\ \A i \in DOMAIN list : Append(list, take)[i] = list[i]
<1>1. /\ Append(list, take) \in Seq(Take) /\ Len(Append(list, take)) = Len(list) + 1
      /\ \A i \in 1..Len(list) : Append(list, take)[i] = list[i]
      /\ Append(list, take)[Len(list) + 1] = take
  BY AppendProperties
<1>2. DOMAIN Append(list, take) = 1..(Len(list) + 1) /\ DOMAIN list = 1..Len(list) /\ Len(list) \in Nat
  BY <1>1
<1> QED
  BY <1>1, <1>2

LEMMA BatchMirrors ==
  ASSUME TypeOK, NEW g \in Registrars, WriteBatch(g), registrars'[g].at = "registered"
  PROVE  LatestSlotMirrors'
<1> DEFINE take == WorkerTake(Present(registrars[g].artifacts), g)
           unset == Unset(artifacts, CurrentOf(registrars[g].artifacts))
<1>1. /\ take \in Take /\ take.current
      /\ model3d'[latest'] # None /\ model3d'[latest'].version = take.version
  <2>1. take \in Take /\ take.current
    BY ReadTakes, WorkerTakeType
  <2>2. model3d'[latest'] = WorkerSlot(take) /\ model3d'[latest'] # None
    BY BatchStep
  <2>3. WorkerSlot(take).version = take.version
    BY DEF WorkerSlot
  <2> HIDE DEF take
  <2> QED
    BY <2>1, <2>2, <2>3
<1>2. PICK i \in DOMAIN artifacts' : artifacts'[i] = take
  <2>1. CASE registrars[g].artifacts = None
    BY <2>1, BatchStep
  <2>2. CASE registrars[g].artifacts # None
    <3>1. unset \in Seq(Take) /\ artifacts' = Append(unset, take)
      BY <2>2, BatchStep
    <3> QED
      BY <1>1, <3>1, AppendedTake
  <2> QED
    BY <2>1, <2>2
<1>3. Present(artifacts') = artifacts'
  BY BatchStep, PresentList
<1> QED
  BY <1>1, <1>2, <1>3 DEF LatestSlotMirrors, Mirrors, CurrentOf

LEMMA NextMirrors == TypeOK /\ LatestSlotMirrors /\ [Next]_vars => LatestSlotMirrors'
<1> SUFFICES ASSUME TypeOK, LatestSlotMirrors, [Next]_vars PROVE LatestSlotMirrors'
  OBVIOUS
<1>1. CASE UNCHANGED <<artifacts, model3d, latest>>
  BY <1>1 DEF LatestSlotMirrors, Mirrors
<1>2. ASSUME NEW g \in Registrars, WriteBatch(g)
      PROVE  LatestSlotMirrors'
  BY <1>1, <1>2, BatchMirrors, NoBatchStep
<1>3. CASE Upload
  <2> DEFINE list == Present(artifacts)
             unset == Unset(list, DOMAIN list)
  <2>1. /\ unset \in Seq(Take) /\ HumanTake(list) \in Take
        /\ artifacts' = Append(unset, HumanTake(list))
        /\ model3d'[latest'] # None /\ model3d'[latest'].version = HumanTake(list).version
    BY <1>3, UploadStep, SlotWritten
  <2>2. PICK i \in DOMAIN artifacts' : artifacts'[i] = HumanTake(list)
    BY <2>1, AppendedTake
  <2>3. HumanTake(list).current
    BY DEF HumanTake
  <2>4. Present(artifacts') = artifacts'
    BY <1>3, UploadStep, PresentList
  <2> QED
    BY <2>1, <2>2, <2>3, <2>4 DEF LatestSlotMirrors, Mirrors, CurrentOf
<1>4. CASE Pick
  <2>1. PICK i \in DOMAIN artifacts' :
          /\ artifacts'[i].current
          /\ model3d'[latest'] # None /\ model3d'[latest'].version = artifacts'[i].version
    BY <1>4, PickStep, SlotWritten
  <2>2. Present(artifacts') = artifacts'
    BY <1>4, PickStep, PresentList
  <2> QED
    BY <2>1, <2>2 DEF LatestSlotMirrors, Mirrors, CurrentOf
<1>5. CASE ChoosePreviz \/ Resize \/ UNCHANGED vars
  BY <1>1, <1>5 DEF ChoosePreviz, Resize, vars, files
<1> QED
  BY <1>1, <1>2, <1>3, <1>4, <1>5, ReadsOnly DEF Next

(* However registrations and edits interleave and whatever fails, the slot  *)
(* of the ledger that was written last, be it the entity's or that of a     *)
(* depiction, names a take that is current in the manifest.                 *)
THEOREM SlotAndManifestAgree == Spec => []LatestSlotMirrors
<1>1. Init => TypeOK /\ LatestSlotMirrors
  BY InitType DEF Init, LatestSlotMirrors
<1>2. (TypeOK /\ LatestSlotMirrors) /\ [Next]_vars => (TypeOK /\ LatestSlotMirrors)'
  BY NextType, NextMirrors
<1> QED
  BY <1>1, <1>2, PTL DEF Spec

(* A slot that names a take has been written.                               *)
FilledWasWritten == \A place \in DOMAIN model3d : model3d[place] # None => latest # None

LEMMA NextFilled == TypeOK /\ FilledWasWritten /\ [Next]_vars => FilledWasWritten'
<1> SUFFICES ASSUME TypeOK, FilledWasWritten, [Next]_vars PROVE FilledWasWritten'
  OBVIOUS
<1>1. CASE UNCHANGED <<model3d, latest>>
  BY <1>1 DEF FilledWasWritten
<1>2. CASE latest' # None
  BY <1>2 DEF FilledWasWritten
<1>3. ASSUME NEW g \in Registrars, WriteBatch(g)
      PROVE  FilledWasWritten'
  BY <1>1, <1>2, <1>3, BatchStep, NoBatchStep
<1>4. CASE Upload
  BY <1>2, <1>4, UploadStep, SlotWritten
<1>5. CASE Pick
  BY <1>2, <1>5, PickStep, SlotWritten
<1>6. CASE ChoosePreviz \/ Resize \/ UNCHANGED vars
  BY <1>1, <1>6 DEF ChoosePreviz, Resize, vars, files
<1> QED
  BY <1>1, <1>3, <1>4, <1>5, <1>6, ReadsOnly DEF Next

(* What entityLedger.ts:53 says, that the slot mirrors the current take, is *)
(* true of every slot as long as the entity has no depictions.              *)
THEOREM NoDriftWithoutDepictions ==
  ASSUME Places = {Entity}
  PROVE  Spec => []SlotsMirrorCurrent
<1>1. Init => TypeOK /\ LatestSlotMirrors /\ FilledWasWritten
  BY InitType DEF Init, LatestSlotMirrors, FilledWasWritten
<1>2. /\ TypeOK /\ LatestSlotMirrors /\ FilledWasWritten
      /\ [Next]_vars
      => (TypeOK /\ LatestSlotMirrors /\ FilledWasWritten)'
  BY NextType, NextMirrors, NextFilled
<1>3. TypeOK /\ LatestSlotMirrors /\ FilledWasWritten => SlotsMirrorCurrent
  BY DEF TypeOK, LatestSlotMirrors, FilledWasWritten, SlotsMirrorCurrent
<1> QED
  BY <1>1, <1>2, <1>3, PTL DEF Spec

-----------------------------------------------------------------------------
(* Hashed registrations fit the entity.                                     *)

(* FitsEntity is not inductive: a model that was built for a size in the    *)
(* payload is known to be of that size, and a run that has passed the check *)
(* has a model of the size of the entity, unless that was changed since.    *)
Checked == {"checked", "ledgerRead", "manifestRead"}

SizeKnown(g) ==
  /\ At(g, "modelled") /\ Given[g] # None => registrars[g].built = Given[g]
  /\ registrars[g].at \in Checked => registrars[g].resized \/ registrars[g].built = size

SizesKnown == \A g \in Hashed : SizeKnown(g)

(* A run changes its own record only.                                       *)
LEMMA OwnRecord ==
  ASSUME TypeOK, NEW g \in Registrars, Register(g), NEW h \in Registrars, h # g
  PROVE  registrars'[h] = registrars[h]
<1>1. ASSUME NEW step, Ends(g, step) \/ Goes(g, step)
      PROVE  registrars'[h] = registrars[h]
  BY <1>1 DEF Ends, Goes, TypeOK
<1>2. CASE Submit(g)
  BY <1>2 DEF Submit, TypeOK
<1>3. CASE CheckSize(g)
  BY <1>1, <1>3 DEF CheckSize
<1>4. CASE ReadLedger(g)
  BY <1>1, <1>4 DEF ReadLedger, TypeOK
<1>5. CASE ReadManifest(g)
  BY <1>1, <1>5 DEF ReadManifest, TypeOK
<1>6. CASE WriteBatch(g)
  BY <1>1, <1>6 DEF WriteBatch, TypeOK
<1>7. CASE WriteFails(g) \/ MeasureFails(g)
  BY <1>1, <1>7 DEF WriteFails, MeasureFails
<1>8. CASE ReadRevision(g)
  BY <1>8 DEF ReadRevision, TypeOK
<1>9. CASE Measure(g)
  BY <1>1, <1>9 DEF Measure, StartOver, TypeOK
<1> QED
  BY <1>2, <1>3, <1>4, <1>5, <1>6, <1>7, <1>8, <1>9 DEF Register

(* Nor does a person change anything of a run but that note.                *)
LEMMA PeopleStep ==
  ASSUME TypeOK, Upload \/ Pick \/ ChoosePreviz \/ Resize \/ UNCHANGED vars,
         NEW h \in Registrars
  PROVE  /\ registrars'[h].at = registrars[h].at
         /\ registrars'[h].artifacts = registrars[h].artifacts
         /\ registrars'[h].built = registrars[h].built
         /\ registrars'[h].own = registrars[h].own
         /\ registrars'[h].revision = registrars[h].revision
         /\ registrars'[h].again = registrars[h].again
         /\ registrars'[h].resized \/ ~registrars[h].resized
         /\ UNCHANGED size \/ (registrars[h].at \in Checked => registrars'[h].resized)
<1>1. CASE Upload \/ Pick \/ ChoosePreviz \/ UNCHANGED vars
  BY <1>1 DEF Upload, Pick, ChoosePreviz, vars, files
<1>2. CASE Resize
  <2>1. registrars'[h] = [registrars[h] EXCEPT !.resized = @ \/ registrars[h].at \in Checked]
    BY <1>2 DEF Resize, Checked
  <2>2. registrars[h] \in Registrar
    BY DEF TypeOK
  <2> QED
    BY <2>1, <2>2 DEF Registrar
<1> QED
  BY <1>1, <1>2

LEMMA RegisterSizes ==
  ASSUME TypeOK, NEW g \in Hashed, SizeKnown(g), Register(g)
  PROVE  SizeKnown(g)'
<1>1. g \in Registrars /\ registrars[g] \in Registrar
  BY LedgerAssumption DEF TypeOK
<1>2. ASSUME NEW step, Ends(g, step), step \notin Checked \cup {"modelled"}
      PROVE  SizeKnown(g)'
  <2>1. registrars'[g].at = step
    BY <1>1, <1>2 DEF Ends, Afresh, TypeOK
  <2> QED
    BY <1>2, <2>1 DEF SizeKnown, At
<1>3. CASE Submit(g)
  <2>1. PICK read \in {size, None} :
          registrars' = [registrars EXCEPT
            ![g].at = "modelled", ![g].built = IF Given[g] = None THEN read ELSE Given[g]]
    BY <1>3 DEF Submit
  <2>2. registrars'[g].at = "modelled" /\ (Given[g] # None => registrars'[g].built = Given[g])
    BY <1>1, <2>1 DEF TypeOK, Registrar
  <2> QED
    BY <2>2 DEF SizeKnown, At, Checked
<1>4. CASE CheckSize(g)
  <2>1. PICK read \in {size, None} :
          IF SameSize(read, Given[g]) THEN Goes(g, "checked") ELSE Ends(g, "failed")
    BY <1>4 DEF CheckSize
  <2>2. CASE SameSize(read, Given[g])
    <3>1. registrars'[g].at = "checked" /\ registrars'[g].built = registrars[g].built
      BY <1>1, <2>1, <2>2 DEF Goes, TypeOK, Registrar
    <3>2. registrars[g].built = size
      BY <1>4, <2>1, <2>2 DEF SameSize, SizeKnown, CheckSize
    <3>3. size' = size
      BY <1>4 DEF CheckSize, files
    <3> QED
      BY <3>1, <3>2, <3>3 DEF SizeKnown, At
  <2> QED
    BY <1>2, <2>1, <2>2 DEF Checked
<1>5. CASE ReadLedger(g)
  <2>1. CASE registrars' = [registrars EXCEPT ![g].at = "ledgerRead",
                                              ![g].slot = SlotAt(PlaceOf[g]), ![g].previz = previz]
    <3>1. /\ registrars'[g].at = "ledgerRead" /\ registrars'[g].built = registrars[g].built
          /\ registrars'[g].resized = registrars[g].resized
      BY <1>1, <2>1 DEF TypeOK, Registrar
    <3>2. registrars[g].at \in Checked /\ size' = size
      BY <1>5 DEF ReadLedger, At, Checked, files
    <3> QED
      BY <3>1, <3>2 DEF SizeKnown, At
  <2> QED
    BY <1>2, <1>5, <2>1 DEF ReadLedger, Checked
<1>6. CASE ReadManifest(g)
  <2>1. PICK read \in {artifacts, None} :
          \/ Ends(g, "failed")
          \/ registrars' = [registrars EXCEPT ![g].at = "manifestRead", ![g].artifacts = read]
    BY <1>6 DEF ReadManifest
  <2>2. CASE registrars' = [registrars EXCEPT ![g].at = "manifestRead", ![g].artifacts = read]
    <3>1. /\ registrars'[g].at = "manifestRead" /\ registrars'[g].built = registrars[g].built
          /\ registrars'[g].resized = registrars[g].resized
      BY <1>1, <2>2 DEF TypeOK, Registrar
    <3>2. registrars[g].at \in Checked /\ size' = size
      BY <1>6 DEF ReadManifest, At, Checked, files
    <3> QED
      BY <3>1, <3>2 DEF SizeKnown, At
  <2> QED
    BY <1>2, <2>1, <2>2 DEF Checked
<1>7. CASE WriteBatch(g)
  <2>1. CASE registrars'[g].at = "registered"
    BY <2>1 DEF SizeKnown, At, Checked
  <2> QED
    BY <1>1, <1>2, <1>7, <2>1, NoBatchStep DEF Checked
<1>8. CASE WriteFails(g) \/ MeasureFails(g)
  BY <1>2, <1>8 DEF WriteFails, MeasureFails, Checked
<1>9. CASE ReadRevision(g)
  <2>1. registrars'[g].at = "measuring"
    BY <1>1, <1>9 DEF ReadRevision, TypeOK, Registrar
  <2> QED
    BY <2>1 DEF SizeKnown, At, Checked
<1>10. CASE Measure(g)
  <2>1. CASE StartOver(g)
    <3>1. registrars'[g].at = "registered"
      BY <1>1, <2>1 DEF StartOver, TypeOK, Registrar
    <3> QED
      BY <3>1 DEF SizeKnown, At, Checked
  <2> QED
    BY <1>2, <1>10, <2>1 DEF Measure, Checked
<1> QED
  BY <1>3, <1>4, <1>5, <1>6, <1>7, <1>8, <1>9, <1>10 DEF Register

LEMMA NextSizes == TypeOK /\ SizesKnown /\ [Next]_vars => SizesKnown'
<1> SUFFICES ASSUME TypeOK, SizesKnown, [Next]_vars, NEW h \in Hashed PROVE SizeKnown(h)'
  BY DEF SizesKnown
<1>1. h \in Registrars /\ SizeKnown(h)
  BY LedgerAssumption DEF SizesKnown
<1>2. ASSUME NEW g \in Registrars, Register(g)
      PROVE  SizeKnown(h)'
  <2>1. CASE g = h
    BY <1>1, <1>2, <2>1, RegisterSizes
  <2>2. CASE g # h
    <3>1. registrars'[h] = registrars[h]
      BY <1>1, <1>2, <2>2, OwnRecord
    <3>2. size' = size
      BY <1>2, ReadsOnly DEF WriteBatch
    <3> QED
      BY <1>1, <3>1, <3>2 DEF SizeKnown, At
  <2> QED
    BY <2>1, <2>2
<1>3. CASE Upload \/ Pick \/ ChoosePreviz \/ Resize \/ UNCHANGED vars
  BY <1>1, <1>3, PeopleStep DEF SizeKnown, At
<1> QED
  BY <1>2, <1>3 DEF Next

(* With a physicalInputHash, what is registered has the size the entity has,*)
(* unless that was changed after the check.                                 *)
THEOREM HashedModelsFit == Spec => FitsEntity
<1>1. Init => TypeOK /\ SizesKnown
  <2>1. Init => SizesKnown
    BY LedgerAssumption DEF Init, SizesKnown, SizeKnown, At, Afresh, Checked
  <2> QED
    BY <2>1, InitType
<1>2. (TypeOK /\ SizesKnown) /\ [Next]_vars => (TypeOK /\ SizesKnown)'
  BY NextType, NextSizes
<1>3. SizesKnown =>
        [\A g \in Hashed :
           At(g, "manifestRead") /\ registrars'[g].at = "registered" =>
             registrars[g].resized \/ registrars[g].built = size]_vars
  BY DEF SizesKnown, SizeKnown, At, Checked
<1> QED
  BY <1>1, <1>2, <1>3, PTL DEF Spec, FitsEntity

-----------------------------------------------------------------------------
(* A measurement is left pending for a reason only.                         *)

(* What was written is never unwritten, and the revision never goes back.   *)
LEMMA RevisionGrows ==
  ASSUME TypeOK, TypeOK', edits' >= edits,
         \A h \in Registrars : registrars[h].at \in Written => registrars'[h].at \in Written,
         \A h \in Registrars : registrars[h].at = "measured" => registrars'[h].at = "measured"
  PROVE  /\ Revision \in Nat /\ Revision' \in Nat /\ Revision' >= Revision
         /\ \A g \in Registrars :
              registrars[g].at \notin Written /\ registrars'[g].at \in Written =>
                Revision' >= Revision + 1
<1> DEFINE W == {h \in Registrars : registrars[h].at \in Written}
           M == {h \in Registrars : registrars[h].at = "measured"}
           W2 == {h \in Registrars : registrars'[h].at \in Written}
           M2 == {h \in Registrars : registrars'[h].at = "measured"}
<1>1. W \subseteq W2 /\ M \subseteq M2
  OBVIOUS
<1>2. IsFiniteSet(W) /\ IsFiniteSet(M) /\ IsFiniteSet(W2) /\ IsFiniteSet(M2)
  BY LedgerAssumption, FS_Subset
<1>3. /\ Cardinality(W) \in Nat /\ Cardinality(M) \in Nat
      /\ Cardinality(W2) \in Nat /\ Cardinality(M2) \in Nat
  BY <1>2, FS_CardinalityType
<1>4. Cardinality(W) <= Cardinality(W2) /\ Cardinality(M) <= Cardinality(M2)
  BY <1>1, <1>2, FS_Subset
<1>5. /\ Revision = edits + Cardinality(W) + Cardinality(M)
      /\ Revision' = edits' + Cardinality(W2) + Cardinality(M2)
  BY DEF Revision
<1>6. edits \in Nat /\ edits' \in Nat
  BY LedgerAssumption DEF TypeOK
<1>7. ASSUME NEW g \in Registrars, registrars[g].at \notin Written, registrars'[g].at \in Written
      PROVE  Revision' >= Revision + 1
  <2>1. g \in W2 /\ g \notin W
    BY <1>7
  <2>2. Cardinality(W) # Cardinality(W2)
    BY <1>1, <1>2, <2>1, FS_Subset
  <2> HIDE DEF W, M, W2, M2
  <2>3. Cardinality(W2) >= Cardinality(W) + 1
    BY <1>3, <1>4, <2>2
  <2>4. edits' + Cardinality(W2) + Cardinality(M2) >= edits + Cardinality(W) + Cardinality(M) + 1
    BY <1>3, <1>4, <1>6, <2>3
  <2> QED
    BY <1>5, <2>4
<1> HIDE DEF W, M, W2, M2
<1> QED
  BY <1>3, <1>4, <1>5, <1>6, <1>7

LEMMA NextKeepsWritten ==
  ASSUME TypeOK, [Next]_vars
  PROVE  /\ edits' >= edits
         /\ \A h \in Registrars : registrars[h].at \in Written => registrars'[h].at \in Written
         /\ \A h \in Registrars : registrars[h].at = "measured" => registrars'[h].at = "measured"
<1>1. edits \in Nat
  BY LedgerAssumption DEF TypeOK
<1>2. ASSUME NEW g \in Registrars, Register(g)
      PROVE  /\ edits' = edits
             /\ registrars[g].at \in Written => registrars'[g].at \in Written
             /\ registrars[g].at # "measured"
  <2>1. edits' = edits
    BY <1>2, ReadsOnly DEF WriteBatch
  <2>2. ASSUME NEW step, Ends(g, step)
        PROVE  registrars'[g].at = step
    BY <2>2 DEF Ends, Afresh, TypeOK
  <2>3. CASE registrars[g].at \notin Written
    BY <2>1, <2>3 DEF Written
  <2>4. CASE registrars[g].at \in Written
    <3>1. CASE ReadRevision(g)
      <4>1. registrars'[g] = [registrars[g] EXCEPT !.at = "measuring", !.revision = Revision]
        BY <3>1 DEF ReadRevision, TypeOK
      <4>2. registrars'[g].at = "measuring"
        BY <4>1 DEF TypeOK, Registrar
      <4> QED
        BY <2>1, <3>1, <4>2 DEF ReadRevision, At, Written
    <3>2. CASE Measure(g)
      <4>1. registrars[g].at = "measuring"
        BY <3>2 DEF Measure, At
      <4>2. CASE StartOver(g)
        <5>1. registrars'[g] = [registrars[g] EXCEPT !.at = "registered", !.again = TRUE]
          BY <4>2 DEF StartOver, TypeOK
        <5>2. registrars'[g].at = "registered"
          BY <5>1 DEF TypeOK, Registrar
        <5> QED
          BY <2>1, <4>1, <5>2 DEF Written
      <4>3. CASE ~StartOver(g)
        <5>1. Ends(g, "measured") \/ Ends(g, "pending")
          BY <3>2, <4>3 DEF Measure
        <5> QED
          BY <2>1, <2>2, <4>1, <5>1 DEF Written
      <4> QED
        BY <4>2, <4>3
    <3>3. CASE MeasureFails(g)
      BY <2>1, <2>2, <3>3 DEF MeasureFails, Written
    <3> QED
      BY <1>2, <2>4, <3>1, <3>2, <3>3 DEF Register, Submit, CheckSize, ReadLedger, ReadManifest,
         WriteBatch, WriteFails, At, Written
  <2> QED
    BY <2>3, <2>4
<1>3. CASE \E g \in Registrars : Register(g)
  BY <1>1, <1>2, <1>3, OwnRecord
<1>4. CASE Upload \/ Pick \/ ChoosePreviz \/ Resize \/ UNCHANGED vars
  <2>1. edits' >= edits
    BY <1>1, <1>4 DEF Upload, Pick, ChoosePreviz, Resize, Edit, vars
  <2> QED
    BY <1>4, <2>1, PeopleStep
<1> QED
  BY <1>3, <1>4 DEF Next

LEMMA FailuresGrow ==
  ASSUME TypeOK, [Next]_vars
  PROVE  failures' >= failures /\ failures \in Nat /\ failures' \in Nat
<1>1. failures \in Nat
  BY LedgerAssumption DEF TypeOK
<1>2. failures' = failures \/ failures' = failures + 1
  <2>1. ASSUME NEW g \in Registrars, Register(g)
        PROVE  failures' = failures \/ failures' = failures + 1
    BY <2>1 DEF Register, Submit, CheckSize, ReadSize, ReadLedger, ReadManifest, WriteBatch,
       WriteFails, ReadRevision, Measure, MeasureFails, Fails
  <2>2. CASE Upload \/ Pick \/ ChoosePreviz \/ Resize \/ UNCHANGED vars
    BY <2>2 DEF Upload, Pick, ChoosePreviz, Resize, vars
  <2> QED
    BY <2>1, <2>2 DEF Next
<1> QED
  BY <1>1, <1>2

(* PendingHasCause is not inductive: a run that is at its second attempt has*)
(* met one foreign write, and the revision it has read is not newer than the*)
(* project.                                                                 *)
Accounted(g) ==
  LET run == registrars[g]
  IN  /\ run.at \in Written => Revision >= run.own
      /\ run.at = "measuring" => Revision >= run.revision /\ run.revision >= run.own
      /\ run.at = "registered" /\ run.again => Revision >= run.own + 1
      /\ run.at = "measuring" /\ run.again => run.revision >= run.own + 1
      /\ run.at = "pending" => failures > 0 \/ Revision >= run.own + 2

AllAccounted == \A g \in Registrars : Accounted(g)

LEMMA RegisterAccounted ==
  ASSUME TypeOK, TypeOK', [Next]_vars, NEW g \in Registrars, Accounted(g), Register(g)
  PROVE  Accounted(g)'
<1>1. registrars[g] \in Registrar /\ registrars'[g] \in Registrar
  BY DEF TypeOK
<1>2. /\ Revision \in Nat /\ Revision' \in Nat /\ Revision' >= Revision
      /\ failures \in Nat /\ failures' \in Nat /\ failures' >= failures
      /\ registrars[g].at \notin Written /\ registrars'[g].at \in Written =>
           Revision' >= Revision + 1
  <2>1. /\ Revision \in Nat /\ Revision' \in Nat /\ Revision' >= Revision
        /\ registrars[g].at \notin Written /\ registrars'[g].at \in Written =>
             Revision' >= Revision + 1
    BY NextKeepsWritten, RevisionGrows
  <2> QED
    BY <2>1, FailuresGrow
<1>3. ASSUME NEW step, Ends(g, step)
      PROVE  registrars'[g].at = step /\ registrars'[g].own = registrars[g].own
  BY <1>3 DEF Ends, Afresh, TypeOK
<1>4. CASE registrars'[g].at \notin Written
  BY <1>4 DEF Accounted, Written
<1>5. CASE WriteBatch(g) /\ registrars'[g].at = "registered"
  <2>1. Applicable(g) /\ Tested(g)
    BY <1>5, BatchStep
  <2>2. registrars'[g] = [Afresh("registered") EXCEPT
          !.version = WorkerTake(Present(registrars[g].artifacts), g).version, !.own = Revision + 1]
    BY <1>5, <2>1 DEF WriteBatch, TypeOK
  <2>3. registrars'[g].own = Revision + 1 /\ ~registrars'[g].again
    BY <2>2 DEF Afresh
  <2>4. registrars[g].at \notin Written /\ registrars'[g].at \in Written
    BY <1>5 DEF WriteBatch, At, Written
  <2> QED
    BY <1>2, <1>5, <2>3, <2>4 DEF Accounted
<1>6. CASE ReadRevision(g)
  <2>1. registrars'[g] = [registrars[g] EXCEPT !.at = "measuring", !.revision = Revision]
    BY <1>6 DEF ReadRevision, TypeOK
  <2>2. /\ registrars'[g].at = "measuring" /\ registrars'[g].revision = Revision
        /\ registrars'[g].own = registrars[g].own /\ registrars'[g].again = registrars[g].again
    BY <1>1, <2>1 DEF Registrar
  <2>3. registrars[g].at = "registered" /\ registrars[g].own \in Nat
    BY <1>1, <1>6 DEF ReadRevision, At, Registrar
  <2> QED
    BY <1>2, <2>2, <2>3 DEF Accounted, Written
<1>7. CASE Measure(g)
  <2>1. /\ registrars[g].at = "measuring" /\ registrars[g].own \in Nat
        /\ registrars[g].revision \in Nat
    BY <1>1, <1>7 DEF Measure, At, Registrar
  <2>2. CASE Ends(g, "measured")
    BY <1>2, <1>3, <2>1, <2>2 DEF Accounted, Written
  <2>3. CASE registrars[g].revision # Revision /\ registrars[g].again /\ Ends(g, "pending")
    BY <1>2, <1>3, <2>1, <2>3 DEF Accounted, Written
  <2>4. CASE registrars[g].revision # Revision /\ StartOver(g)
    <3>1. registrars'[g] = [registrars[g] EXCEPT !.at = "registered", !.again = TRUE]
      BY <2>4 DEF StartOver, TypeOK
    <3>2. registrars'[g].at = "registered" /\ registrars'[g].own = registrars[g].own
      BY <1>1, <3>1 DEF Registrar
    <3> QED
      BY <1>2, <2>1, <2>4, <3>2 DEF Accounted, Written
  <2> QED
    BY <1>7, <2>2, <2>3, <2>4 DEF Measure
<1>8. CASE MeasureFails(g)
  <2>1. Ends(g, "pending") /\ failures' = failures + 1
    BY <1>8 DEF MeasureFails, Fails
  <2>2. registrars[g].at \in Written /\ registrars[g].own \in Nat
    BY <1>1, <1>8 DEF MeasureFails, Written, Registrar
  <2> QED
    BY <1>2, <1>3, <2>1, <2>2 DEF Accounted, Written
<1>9. CASE Submit(g) \/ CheckSize(g) \/ ReadLedger(g) \/ ReadManifest(g) \/ WriteFails(g)
  <2>1. CASE Submit(g)
    <3>1. registrars'[g].at = "modelled"
      BY <1>1, <2>1 DEF Submit, TypeOK, Registrar
    <3> QED
      BY <1>4, <3>1 DEF Written
  <2>2. CASE CheckSize(g)
    <3>1. registrars'[g].at = "checked" \/ Ends(g, "failed")
      BY <1>1, <2>2 DEF CheckSize, Goes, TypeOK, Registrar
    <3> QED
      BY <1>3, <1>4, <3>1 DEF Written
  <2>3. CASE ReadLedger(g)
    <3>1. registrars'[g].at = "ledgerRead" \/ Ends(g, "failed")
      BY <1>1, <2>3 DEF ReadLedger, TypeOK, Registrar
    <3> QED
      BY <1>3, <1>4, <3>1 DEF Written
  <2>4. CASE ReadManifest(g)
    <3>1. registrars'[g].at = "manifestRead" \/ Ends(g, "failed")
      BY <1>1, <2>4 DEF ReadManifest, TypeOK, Registrar
    <3> QED
      BY <1>3, <1>4, <3>1 DEF Written
  <2>5. CASE WriteFails(g)
    BY <1>3, <1>4, <2>5 DEF WriteFails, Written
  <2> QED
    BY <1>9, <2>1, <2>2, <2>3, <2>4, <2>5
<1>10. CASE WriteBatch(g) /\ registrars'[g].at # "registered"
  BY <1>3, <1>4, <1>10, NoBatchStep DEF Written
<1> QED
  BY <1>5, <1>6, <1>7, <1>8, <1>9, <1>10 DEF Register

LEMMA NextAccounted == TypeOK /\ AllAccounted /\ [Next]_vars => AllAccounted'
<1> SUFFICES ASSUME TypeOK, AllAccounted, [Next]_vars, NEW h \in Registrars PROVE Accounted(h)'
  BY DEF AllAccounted
<1>1. Accounted(h) /\ TypeOK'
  BY NextType DEF AllAccounted
<1>2. ASSUME NEW g \in Registrars, Register(g), g = h
      PROVE  Accounted(h)'
  BY <1>1, <1>2, RegisterAccounted
<1>3. CASE /\ registrars'[h].at = registrars[h].at
           /\ registrars'[h].own = registrars[h].own
           /\ registrars'[h].revision = registrars[h].revision
           /\ registrars'[h].again = registrars[h].again
  <2>1. Revision \in Nat /\ Revision' \in Nat /\ Revision' >= Revision
    BY <1>1, NextKeepsWritten, RevisionGrows
  <2>2. registrars[h].own \in Nat /\ registrars[h].revision \in Nat
    BY DEF TypeOK, Registrar
  <2>3. failures' >= failures /\ failures \in Nat /\ failures' \in Nat
    BY FailuresGrow
  <2> QED
    BY <1>1, <1>3, <2>1, <2>2, <2>3 DEF Accounted
<1>4. ASSUME NEW g \in Registrars, Register(g), g # h
      PROVE  Accounted(h)'
  BY <1>3, <1>4, OwnRecord
<1>5. CASE Upload \/ Pick \/ ChoosePreviz \/ Resize \/ UNCHANGED vars
  BY <1>3, <1>5, PeopleStep
<1> QED
  BY <1>2, <1>4, <1>5 DEF Next

(* A registered model gets measured unless a call fails or the project is   *)
(* written to twice in between.                                             *)
THEOREM MeasurementsEnd == Spec => []PendingHasCause
<1>1. Init => TypeOK /\ AllAccounted
  <2>1. Init => AllAccounted
    BY DEF Init, AllAccounted, Accounted, Afresh, Written
  <2> QED
    BY <2>1, InitType
<1>2. (TypeOK /\ AllAccounted) /\ [Next]_vars => (TypeOK /\ AllAccounted)'
  BY NextType, NextAccounted
<1>3. AllAccounted => PendingHasCause
  BY DEF AllAccounted, Accounted, PendingHasCause, At
<1> QED
  BY <1>1, <1>2, <1>3, PTL DEF Spec

-----------------------------------------------------------------------------
(* Versions.                                                                *)

(* The first six characters of the jobs differ, and nobody uploads a take   *)
(* under the name of a job.                                                 *)
DistinctPrefixes ==
  /\ \A g, h \in Registrars : Prefix[g] = Prefix[h] => g = h
  /\ \A g \in Registrars : Prefix[g] # Person

Writers == {g \in Registrars : registrars[g].at \in Written}

(* VersionsDiffer is not inductive: the take of a worker carries the job of *)
(* a run that has written, and that of a person the number of its place,    *)
(* although a list can be replaced by one of a single take.                 *)
Named(list, i, writers) ==
  /\ list[i].source = "uploaded" =>
       list[i].version.suffix = Person /\ list[i].version.take = i
  /\ list[i].source = "worker_generated" =>
       /\ \E g \in writers : list[i].version.suffix = Prefix[g]
       /\ \A k \in DOMAIN list : list[k].version.suffix = list[i].version.suffix => i = k

AllNamed(list, writers) == \A i \in DOMAIN list : Named(list, i, writers)

Lineage == AllNamed(Present(artifacts), Writers)

LEMMA SourceType ==
  ASSUME NEW list \in Seq(Take), NEW i \in DOMAIN list
  PROVE  /\ list[i].source \in {"worker_generated", "uploaded"}
         /\ list[i].authority \in {"automatic", "human"}
         /\ list[i].version \in Versions
<1>1. list[i] \in Take
  OBVIOUS
<1> QED
  BY <1>1 DEF Take

LEMMA LineageMakesVersionsDiffer ==
  ASSUME DistinctPrefixes, TypeOK, Lineage
  PROVE  VersionsDiffer
<1> DEFINE list == Present(artifacts)
<1>1. list \in Seq(Take) /\ Writers \subseteq Registrars
  BY PresentType DEF TypeOK, Writers
<1> HIDE DEF list
<1>2. \A i \in DOMAIN list : Named(list, i, Writers)
  BY DEF Lineage, AllNamed, list
<1>3. ASSUME NEW i \in DOMAIN list, NEW k \in DOMAIN list, list[i].version = list[k].version
      PROVE  i = k
  <2>1. CASE list[i].source = "worker_generated" \/ list[k].source = "worker_generated"
    BY <1>2, <1>3, <2>1 DEF Named
  <2>2. CASE list[i].source = "uploaded" /\ list[k].source = "uploaded"
    BY <1>2, <1>3, <2>2 DEF Named
  <2> QED
    BY <1>1, <2>1, <2>2, SourceType
<1> QED
  BY <1>3 DEF VersionsDiffer, list

(* Changing the flags and the authority of takes changes no name, and       *)
(* whoever has written stays one who has.                                   *)
LEMMA SameNames ==
  ASSUME NEW old \in Seq(Take), NEW new \in Seq(Take), DOMAIN new = DOMAIN old,
         \A i \in DOMAIN old : new[i].version = old[i].version /\ new[i].source = old[i].source,
         NEW writers, NEW more, writers \subseteq more, AllNamed(old, writers)
  PROVE  AllNamed(new, more)
  BY DEF Named, AllNamed

LEMMA UnsetNames ==
  ASSUME NEW list \in Seq(Take), NEW I, NEW writers, NEW more, writers \subseteq more,
         AllNamed(list, writers)
  PROVE  AllNamed(Unset(list, I), more)
  BY UnsetType, SameNames

(* A take of a run that had not written yet.                                *)
LEMMA AppendNamesWorker ==
  ASSUME DistinctPrefixes, NEW list \in Seq(Take), NEW take \in Take,
         NEW writers \in SUBSET Registrars, NEW g \in Registrars, g \notin writers,
         AllNamed(list, writers),
         take.source = "worker_generated", take.version.suffix = Prefix[g]
  PROVE  AllNamed(Append(list, take), writers \cup {g})
<1> DEFINE new == Append(list, take)
           last == Len(list) + 1
<1>1. /\ DOMAIN new = DOMAIN list \cup {last} /\ last \notin DOMAIN list
      /\ new[last] = take /\ \A i \in DOMAIN list : new[i] = list[i]
  BY AppendedTake
<1> HIDE DEF new, last
<1>2. ASSUME NEW i \in DOMAIN list
      PROVE  list[i].version.suffix # Prefix[g]
  BY <1>2, SourceType DEF AllNamed, Named, DistinctPrefixes
<1>3. ASSUME NEW i \in DOMAIN list
      PROVE  Named(new, i, writers \cup {g})
  BY <1>1, <1>2, <1>3 DEF AllNamed, Named
<1>4. Named(new, last, writers \cup {g})
  BY <1>1, <1>2 DEF Named
<1> QED
  BY <1>1, <1>3, <1>4 DEF AllNamed, new

(* A take of a person.                                                      *)
LEMMA AppendNamesPerson ==
  ASSUME DistinctPrefixes, NEW list \in Seq(Take), NEW take \in Take,
         NEW writers \in SUBSET Registrars, AllNamed(list, writers),
         take.source = "uploaded", take.version = Version(Len(list) + 1, Person)
  PROVE  AllNamed(Append(list, take), writers)
<1> DEFINE new == Append(list, take)
           last == Len(list) + 1
<1>1. /\ DOMAIN new = DOMAIN list \cup {last} /\ last \notin DOMAIN list
      /\ new[last] = take /\ \A i \in DOMAIN list : new[i] = list[i]
  BY AppendedTake
<1>2. take.version.suffix = Person /\ take.version.take = last
  BY DEF Version
<1> HIDE DEF new, last
<1>3. ASSUME NEW i \in DOMAIN list
      PROVE  Named(new, i, writers)
  BY <1>1, <1>2, <1>3 DEF AllNamed, Named, DistinctPrefixes
<1>4. Named(new, last, writers)
  BY <1>1, <1>2 DEF Named
<1> QED
  BY <1>1, <1>3, <1>4 DEF AllNamed, new

LEMMA WritersGrow ==
  ASSUME TypeOK, [Next]_vars
  PROVE  Writers \subseteq Writers' /\ Writers' \subseteq Registrars
  BY NextKeepsWritten DEF Writers

LEMMA BatchNames ==
  ASSUME DistinctPrefixes, TypeOK, [Next]_vars, Lineage,
         NEW g \in Registrars, WriteBatch(g), registrars'[g].at = "registered"
  PROVE  Lineage'
<1> DEFINE read == registrars[g].artifacts
           take == WorkerTake(Present(read), g)
           unset == Unset(artifacts, CurrentOf(read))
<1>1. /\ take \in Take /\ take.source = "worker_generated" /\ take.version.suffix = Prefix[g]
  BY ReadTakes, WorkerTakeType
<1>2. g \notin Writers /\ Writers \cup {g} \subseteq Writers' /\ Writers \subseteq Registrars
  BY WritersGrow DEF WriteBatch, At, Writers, Written
<1>3. /\ artifacts' \in Seq(Take)
      /\ IF read = None THEN artifacts' = <<take>>
         ELSE artifacts \in Seq(Take) /\ unset \in Seq(Take) /\ artifacts' = Append(unset, take)
  BY BatchStep
<1>4. Present(artifacts') = artifacts'
  BY <1>3, PresentList
<1> HIDE DEF take, unset
<1>5. CASE read = None
  <2>1. artifacts' = <<take>>
    BY <1>3, <1>5
  <2>2. DOMAIN artifacts' = {1} /\ artifacts'[1] = take
    BY <2>1
  <2>3. Named(artifacts', 1, Writers')
    BY <1>1, <1>2, <2>2 DEF Named
  <2> QED
    BY <1>4, <2>2, <2>3 DEF Lineage, AllNamed
<1>6. CASE read # None
  <2>1. artifacts \in Seq(Take) /\ unset \in Seq(Take) /\ artifacts' = Append(unset, take)
    BY <1>3, <1>6
  <2>2. AllNamed(artifacts, Writers)
    BY <2>1, PresentList DEF Lineage
  <2>3. AllNamed(unset, Writers)
    BY <2>1, <2>2, UnsetNames DEF unset
  <2>4. AllNamed(Append(unset, take), Writers \cup {g})
    BY <1>1, <1>2, <2>1, <2>3, AppendNamesWorker
  <2>5. AllNamed(artifacts', Writers')
    BY <1>2, <1>3, <2>1, <2>4, SameNames
  <2> QED
    BY <1>4, <2>5 DEF Lineage
<1> QED
  BY <1>5, <1>6

LEMMA NextLineage ==
  ASSUME DistinctPrefixes
  PROVE  TypeOK /\ Lineage /\ [Next]_vars => Lineage'
<1> SUFFICES ASSUME TypeOK, Lineage, [Next]_vars PROVE Lineage'
  OBVIOUS
<1>1. Writers \subseteq Writers' /\ Writers' \in SUBSET Registrars
  BY WritersGrow
<1> DEFINE list == Present(artifacts)
<1>2. list \in Seq(Take) /\ AllNamed(list, Writers)
  BY PresentType DEF TypeOK, Lineage
<1>3. AllNamed(list, Writers')
  BY <1>1, <1>2, SameNames
<1>4. CASE UNCHANGED artifacts
  BY <1>3, <1>4 DEF Lineage
<1>5. ASSUME NEW g \in Registrars, WriteBatch(g)
      PROVE  Lineage'
  BY <1>4, <1>5, BatchNames, NoBatchStep
<1>6. CASE Upload
  <2> DEFINE unset == Unset(list, DOMAIN list)
  <2>1. /\ unset \in Seq(Take) /\ HumanTake(list) \in Take
        /\ artifacts' = Append(unset, HumanTake(list)) /\ artifacts' \in Seq(Take)
    BY <1>6, UploadStep
  <2>2. AllNamed(unset, Writers') /\ Len(unset) = Len(list)
    BY <1>1, <1>2, UnsetNames, UnsetType
  <2>3. /\ HumanTake(list).source = "uploaded"
        /\ HumanTake(list).version = Version(Len(unset) + 1, Person)
    BY <2>2 DEF HumanTake
  <2> HIDE DEF unset
  <2>4. AllNamed(Append(unset, HumanTake(list)), Writers')
    BY <1>1, <2>1, <2>2, <2>3, AppendNamesPerson
  <2>5. Present(artifacts') = artifacts'
    BY <2>1, PresentList
  <2> QED
    BY <2>1, <2>4, <2>5 DEF Lineage
<1>7. CASE Pick
  <2>1. /\ artifacts \in Seq(Take) /\ artifacts' \in Seq(Take)
        /\ DOMAIN artifacts' = DOMAIN artifacts
        /\ \A k \in DOMAIN artifacts : /\ artifacts'[k].version = artifacts[k].version
                                       /\ artifacts'[k].source = artifacts[k].source
    BY <1>7, PickStep
  <2>2. list = artifacts /\ Present(artifacts') = artifacts'
    BY <2>1, PresentList
  <2>3. AllNamed(artifacts', Writers')
    BY <1>1, <1>2, <2>1, <2>2, SameNames
  <2> QED
    BY <2>2, <2>3 DEF Lineage
<1>8. CASE ChoosePreviz \/ Resize \/ UNCHANGED vars
  BY <1>4, <1>8 DEF ChoosePreviz, Resize, vars, files
<1> QED
  BY <1>4, <1>5, <1>6, <1>7, <1>8, ReadsOnly DEF Next

LEMMA InitLineage == Init => Lineage
<1> SUFFICES ASSUME Init PROVE Lineage
  OBVIOUS
<1>1. Present(artifacts) = <<>>
  BY DEF Init, Present
<1> QED
  BY <1>1 DEF Lineage, AllNamed

(* If the prefixes of the jobs differ, so do the versions of the takes,     *)
(* also those of registrations that counted the same takes.                 *)
THEOREM VersionsAreDistinct ==
  ASSUME DistinctPrefixes
  PROVE  Spec => []VersionsDiffer
<1>1. Init => TypeOK /\ Lineage
  BY InitType, InitLineage
<1>2. (TypeOK /\ Lineage) /\ [Next]_vars => (TypeOK /\ Lineage)'
  BY NextType, NextLineage
<1>3. TypeOK /\ Lineage => VersionsDiffer
  BY LineageMakesVersionsDiffer
<1> QED
  BY <1>1, <1>2, <1>3, PTL DEF Spec

-----------------------------------------------------------------------------
(* Protected registrations.                                                 *)

(* PersonsChoiceStands is not inductive: as long as the take that a         *)
(* protected run has read is where it was and as it was, no take that a     *)
(* person has chosen is current. Whoever makes such a take current unsets   *)
(* the one that was read, or puts the name of a person on it, and neither is*)
(* ever undone.                                                             *)
NoneChosen(list) == \A k \in CurrentOf(list) : list[k].authority # "human"

Guards(list, read, writers) ==
  /\ read \in Seq(Take) /\ CurrentOf(read) # {}
  /\ \A i \in CurrentOf(read) :
       /\ read[i].source = "worker_generated" /\ read[i].authority # "human"
       /\ \E h \in writers : read[i].version.suffix = Prefix[h]
       /\ i \in DOMAIN list /\ list[i] = read[i] => NoneChosen(list)

Guarded(g) ==
  At(g, "manifestRead") => Guards(Present(artifacts), registrars[g].artifacts, Writers)

AllGuarded == \A g \in Protecting : Guarded(g)

(* A list is replaced by one without a choice of a person.                  *)
LEMMA GuardsReplaced ==
  ASSUME NEW read, NEW old, NEW new, NEW writers, NEW more, writers \subseteq more,
         Guards(old, read, writers), NoneChosen(new)
  PROVE  Guards(new, read, more)
  BY DEF Guards

(* The list stays, or no take that was read is in it as it was.             *)
LEMMA GuardsStay ==
  ASSUME NEW read, NEW old, NEW new, NEW writers, NEW more, writers \subseteq more,
         Guards(old, read, writers),
         \A i \in CurrentOf(read) :
           i \in DOMAIN new /\ new[i] = read[i] =>
             NoneChosen(new) \/ (i \in DOMAIN old /\ old[i] = read[i] /\ (NoneChosen(old) => NoneChosen(new)))
  PROVE  Guards(new, read, more)
  BY DEF Guards

(* What a protected run reads.                                              *)
LEMMA ReadGuards ==
  ASSUME DistinctPrefixes, TypeOK, Lineage, NEW g \in Protecting, ReadManifest(g),
         registrars'[g].at = "manifestRead"
  PROVE  Guarded(g)'
<1>1. g \in Registrars /\ registrars[g] \in Registrar
  BY LedgerAssumption DEF TypeOK
<1>2. PICK read \in {artifacts, None} :
        IF g \in Protecting /\ ~MachineOwned(Present(read), registrars[g].slot)
        THEN Ends(g, "failed")
        ELSE registrars' = [registrars EXCEPT ![g].at = "manifestRead", ![g].artifacts = read]
  BY DEF ReadManifest
<1>3. ~Ends(g, "failed")
  BY <1>1 DEF Ends, Afresh, TypeOK
<1>4. /\ MachineOwned(Present(read), registrars[g].slot)
      /\ registrars' = [registrars EXCEPT ![g].at = "manifestRead", ![g].artifacts = read]
  BY <1>2, <1>3
<1>5. registrars'[g].artifacts = read
  BY <1>1, <1>4 DEF TypeOK, Registrar
<1>6. CurrentOf(Present(read)) # {}
  BY <1>4, FS_EmptySet DEF MachineOwned
<1>7. read # None
  BY <1>6 DEF Present, CurrentOf
<1>8. read = artifacts /\ artifacts \in Seq(Take) /\ Present(artifacts) = artifacts /\ Present(read) = read
  BY <1>2, <1>7, PresentList DEF TypeOK
<1>9. AllNamed(read, Writers)
  BY <1>8 DEF Lineage
<1>10. ASSUME NEW i \in CurrentOf(read)
       PROVE  /\ read[i].source = "worker_generated" /\ read[i].authority # "human"
              /\ \E h \in Writers : read[i].version.suffix = Prefix[h]
  <2>1. read[i].source = "worker_generated" /\ read[i].authority # "human"
    BY <1>4, <1>8, <1>10 DEF MachineOwned
  <2>2. i \in DOMAIN read
    BY <1>10 DEF CurrentOf
  <2>3. Named(read, i, Writers)
    BY <1>9, <2>2 DEF AllNamed
  <2> QED
    BY <2>1, <2>3 DEF Named
<1>11. NoneChosen(read)
  BY <1>10 DEF NoneChosen
<1>12. Guards(read, read, Writers)
  BY <1>6, <1>8, <1>10, <1>11 DEF Guards
<1>13. artifacts' = artifacts
  BY DEF ReadManifest, files
<1>14. Writers \subseteq Writers'
  <2>1. ASSUME NEW h \in Writers
        PROVE  h \in Writers'
    <3>1. h # g /\ h \in Registrars
      BY <2>1 DEF ReadManifest, At, Writers, Written
    <3>2. registrars'[h] = registrars[h]
      BY <1>4, <3>1 DEF TypeOK
    <3> QED
      BY <2>1, <3>2 DEF Writers
  <2> QED
    BY <2>1
<1>15. Guards(read, read, Writers')
  BY <1>11, <1>12, <1>14, GuardsReplaced
<1> QED
  BY <1>5, <1>8, <1>13, <1>15 DEF Guarded

(* What others write.                                                       *)
LEMMA BatchGuards ==
  ASSUME DistinctPrefixes, TypeOK, [Next]_vars, NEW read,
         NEW g \in Registrars, WriteBatch(g), registrars'[g].at = "registered",
         Guards(Present(artifacts), read, Writers)
  PROVE  Guards(Present(artifacts'), read, Writers')
<1> DEFINE mine == registrars[g].artifacts
           take == WorkerTake(Present(mine), g)
           I == CurrentOf(mine)
           unset == Unset(artifacts, I)
           last == Len(unset) + 1
<1>1. /\ take \in Take /\ take.authority = "automatic" /\ take.version.suffix = Prefix[g]
  BY ReadTakes, WorkerTakeType
<1>2. g \notin Writers /\ Writers \subseteq Writers' /\ Writers \subseteq Registrars
  BY WritersGrow DEF WriteBatch, At, Writers, Written
<1>3. /\ artifacts' \in Seq(Take)
      /\ IF mine = None THEN artifacts' = <<take>>
         ELSE artifacts \in Seq(Take) /\ unset \in Seq(Take) /\ artifacts' = Append(unset, take)
  BY BatchStep
<1>4. Present(artifacts') = artifacts'
  BY <1>3, PresentList
<1> HIDE DEF take
<1>5. CASE mine = None
  <2>1. artifacts' = <<take>>
    BY <1>3, <1>5
  <2>2. NoneChosen(artifacts')
    BY <1>1, <2>1 DEF NoneChosen, CurrentOf
  <2> QED
    BY <1>2, <1>4, <2>2, GuardsReplaced
<1>6. CASE mine # None
  <2>1. /\ artifacts \in Seq(Take) /\ unset \in Seq(Take) /\ artifacts' = Append(unset, take)
        /\ Present(artifacts) = artifacts
    BY <1>3, <1>6, PresentList
  <2>2. /\ DOMAIN unset = DOMAIN artifacts
        /\ \A k \in DOMAIN artifacts :
             /\ unset[k].authority = artifacts[k].authority
             /\ IF k \in I THEN ~unset[k].current ELSE unset[k] = artifacts[k]
    BY <2>1, UnsetType
  <2>3. /\ DOMAIN artifacts' = DOMAIN artifacts \cup {last} /\ artifacts'[last] = take
        /\ \A k \in DOMAIN artifacts : artifacts'[k] = unset[k]
    BY <1>1, <2>1, <2>2, AppendedTake
  <2> HIDE DEF unset, last, I
  <2>4. NoneChosen(artifacts) => NoneChosen(artifacts')
    <3>1. ASSUME NEW k \in CurrentOf(artifacts'), NoneChosen(artifacts)
          PROVE  artifacts'[k].authority # "human"
      <4>1. CASE k \in DOMAIN artifacts
        <5>1. artifacts'[k] = artifacts[k] /\ k \in CurrentOf(artifacts)
          BY <2>2, <2>3, <3>1, <4>1 DEF CurrentOf
        <5> QED
          BY <3>1, <5>1 DEF NoneChosen
      <4>2. CASE k \notin DOMAIN artifacts
        <5>1. artifacts'[k] = take
          BY <2>3, <3>1, <4>2 DEF CurrentOf
        <5> QED
          BY <1>1, <5>1
      <4> QED
        BY <4>1, <4>2
    <3> QED
      BY <3>1 DEF NoneChosen
  <2>5. ASSUME NEW i \in CurrentOf(read), i \in DOMAIN artifacts', artifacts'[i] = read[i]
        PROVE  i \in DOMAIN artifacts /\ artifacts[i] = read[i]
    <3>1. PICK h \in Writers : read[i].version.suffix = Prefix[h]
      BY <2>5 DEF Guards
    <3>2. read[i] # take
      BY <1>1, <1>2, <3>1 DEF DistinctPrefixes
    <3>3. i \in DOMAIN artifacts
      BY <2>3, <2>5, <3>2
    <3>4. read[i].current
      BY <2>5 DEF CurrentOf
    <3> QED
      BY <2>2, <2>3, <2>5, <3>3, <3>4
  <2>6. Guards(artifacts', read, Writers')
    BY <1>2, <2>1, <2>4, <2>5, GuardsStay
  <2> QED
    BY <1>4, <2>6
<1> QED
  BY <1>5, <1>6

LEMMA UploadGuards ==
  ASSUME TypeOK, [Next]_vars, NEW read, Upload, Guards(Present(artifacts), read, Writers)
  PROVE  Guards(Present(artifacts'), read, Writers')
<1> DEFINE list == Present(artifacts)
           unset == Unset(list, DOMAIN list)
           last == Len(unset) + 1
<1>1. /\ list \in Seq(Take) /\ unset \in Seq(Take) /\ HumanTake(list) \in Take
      /\ artifacts' = Append(unset, HumanTake(list)) /\ artifacts' \in Seq(Take)
  BY UploadStep
<1>2. DOMAIN unset = DOMAIN list /\ \A k \in DOMAIN list : ~unset[k].current
  BY <1>1, UnsetType
<1>3. /\ DOMAIN artifacts' = DOMAIN list \cup {last} /\ artifacts'[last] = HumanTake(list)
      /\ \A k \in DOMAIN list : artifacts'[k] = unset[k]
  BY <1>1, <1>2, AppendedTake
<1>4. HumanTake(list).authority = "human"
  BY DEF HumanTake
<1> HIDE DEF unset, last, list
<1>5. ASSUME NEW i \in CurrentOf(read), i \in DOMAIN artifacts', artifacts'[i] = read[i]
      PROVE  FALSE
  <2>1. read[i].current /\ read[i].authority # "human"
    BY <1>5 DEF CurrentOf, Guards
  <2> QED
    BY <1>2, <1>3, <1>4, <1>5, <2>1
<1>6. Guards(artifacts', read, Writers')
  BY <1>5, WritersGrow, GuardsStay
<1> QED
  BY <1>1, <1>6, PresentList

LEMMA PickGuards ==
  ASSUME TypeOK, [Next]_vars, NEW read, Pick, Guards(Present(artifacts), read, Writers)
  PROVE  Guards(Present(artifacts'), read, Writers')
<1>1. artifacts' \in Seq(Take) /\ DOMAIN artifacts' = DOMAIN artifacts
  BY PickStep
<1>2. PICK j \in DOMAIN artifacts :
        /\ artifacts'[j].authority = "human"
        /\ \A k \in DOMAIN artifacts \ {j} : ~artifacts'[k].current
  BY PickStep
<1>3. ASSUME NEW i \in CurrentOf(read), i \in DOMAIN artifacts', artifacts'[i] = read[i]
      PROVE  FALSE
  <2>1. read[i].current /\ read[i].authority # "human"
    BY <1>3 DEF CurrentOf, Guards
  <2> QED
    BY <1>1, <1>2, <1>3, <2>1
<1>4. Guards(artifacts', read, Writers')
  BY <1>3, WritersGrow, GuardsStay
<1> QED
  BY <1>1, <1>4, PresentList

LEMMA NextGuarded ==
  ASSUME DistinctPrefixes
  PROVE  TypeOK /\ Lineage /\ AllGuarded /\ [Next]_vars => AllGuarded'
<1> SUFFICES ASSUME TypeOK, Lineage, AllGuarded, [Next]_vars, NEW h \in Protecting,
                    registrars'[h].at = "manifestRead"
             PROVE  Guarded(h)'
  BY DEF AllGuarded, Guarded, At
<1>1. h \in Registrars /\ Guarded(h)
  BY LedgerAssumption DEF AllGuarded
<1>2. ASSUME Register(h)
      PROVE  Guarded(h)'
  <2>1. ReadManifest(h)
    <3>1. registrars[h] \in Registrar
      BY <1>1 DEF TypeOK
    <3>2. ASSUME NEW step, Ends(h, step)
          PROVE  step = "manifestRead"
      BY <1>1, <3>2 DEF Ends, Afresh, TypeOK
    <3>3. ~Submit(h)
      BY <1>1, <3>1 DEF Submit, TypeOK, Registrar
    <3>4. ~CheckSize(h)
      BY <1>1, <3>1, <3>2 DEF CheckSize, Goes, TypeOK, Registrar
    <3>5. ~ReadLedger(h)
      BY <1>1, <3>1, <3>2 DEF ReadLedger, TypeOK, Registrar
    <3>6. ~WriteBatch(h)
      BY <1>1, <3>2, NoBatchStep
    <3>7. ~WriteFails(h) /\ ~MeasureFails(h)
      BY <3>2 DEF WriteFails, MeasureFails
    <3>8. ~ReadRevision(h)
      BY <1>1, <3>1 DEF ReadRevision, TypeOK, Registrar
    <3>9. ~Measure(h)
      BY <1>1, <3>1, <3>2 DEF Measure, StartOver, TypeOK, Registrar
    <3> QED
      BY <1>2, <3>3, <3>4, <3>5, <3>6, <3>7, <3>8, <3>9 DEF Register
  <2> QED
    BY <2>1, ReadGuards
<1>3. ASSUME registrars'[h].artifacts = registrars[h].artifacts, registrars'[h].at = registrars[h].at
      PROVE  /\ Guards(Present(artifacts), registrars[h].artifacts, Writers)
             /\ Guards(Present(artifacts'), registrars[h].artifacts, Writers') => Guarded(h)'
             /\ UNCHANGED artifacts => Guarded(h)'
  <2>1. Guards(Present(artifacts), registrars[h].artifacts, Writers)
    BY <1>1, <1>3 DEF Guarded, At
  <2>2. Guards(Present(artifacts'), registrars[h].artifacts, Writers') => Guarded(h)'
    BY <1>3 DEF Guarded
  <2>3. Guards(Present(artifacts), registrars[h].artifacts, Writers')
    BY <2>1, WritersGrow, GuardsStay
  <2> QED
    BY <2>1, <2>2, <2>3
<1>4. ASSUME NEW g \in Registrars, g # h, Register(g)
      PROVE  Guarded(h)'
  <2>1. registrars'[h] = registrars[h]
    BY <1>1, <1>4, OwnRecord
  <2>2. CASE WriteBatch(g) /\ registrars'[g].at = "registered"
    BY <1>3, <2>1, <2>2, BatchGuards
  <2>3. CASE ~(WriteBatch(g) /\ registrars'[g].at = "registered")
    <3>1. UNCHANGED artifacts
      BY <1>4, <2>3, NoBatchStep, ReadsOnly
    <3> QED
      BY <1>3, <2>1, <3>1
  <2> QED
    BY <2>2, <2>3
<1>5. CASE Upload \/ Pick
  BY <1>1, <1>3, <1>5, PeopleStep, UploadGuards, PickGuards
<1>6. CASE ChoosePreviz \/ Resize \/ UNCHANGED vars
  <2>1. UNCHANGED artifacts
    BY <1>6 DEF ChoosePreviz, Resize, vars, files
  <2> QED
    BY <1>1, <1>3, <1>6, <2>1, PeopleStep
<1> QED
  BY <1>2, <1>4, <1>5, <1>6 DEF Next

(* What the "test" operations of a protected batch have made sure of.       *)
LEMMA ProtectedBatch ==
  ASSUME TypeOK, AllGuarded, [Next]_vars, NEW g \in Protecting,
         At(g, "manifestRead"), registrars'[g].at = "registered"
  PROVE  NoneChosen(artifacts)
<1>1. g \in Registrars
  BY LedgerAssumption
<1>2. WriteBatch(g)
  <2>1. CASE Register(g)
    BY <2>1 DEF At, Register, Submit, CheckSize, ReadLedger, ReadManifest, WriteFails, Ends, Afresh,
       ReadRevision, Measure, MeasureFails, TypeOK
  <2>2. ASSUME NEW h \in Registrars, h # g, Register(h)
        PROVE  FALSE
    BY <1>1, <2>2, OwnRecord DEF At
  <2>3. CASE Upload \/ Pick \/ ChoosePreviz \/ Resize \/ UNCHANGED vars
    BY <1>1, <2>3, PeopleStep DEF At
  <2> QED
    BY <2>1, <2>2, <2>3 DEF Next
<1> DEFINE read == registrars[g].artifacts
<1>3. Tested(g) /\ Applicable(g)
  BY <1>1, <1>2, BatchStep
<1>4. Guards(Present(artifacts), read, Writers)
  BY DEF AllGuarded, Guarded
<1>5. PICK i \in CurrentOf(read) : TRUE
  BY <1>4 DEF Guards
<1>6. read # None
  <2>1. read \in Seq(Take)
    BY <1>4 DEF Guards
  <2> QED
    BY <2>1, NoneAssumption
<1>7. artifacts \in Seq(Take) /\ Present(artifacts) = artifacts
  BY <1>3, <1>6, PresentList DEF Applicable, TypeOK
<1>8. i \in DOMAIN artifacts /\ artifacts[i] = read[i]
  BY <1>3, <1>5, <1>7 DEF Tested
<1> QED
  BY <1>4, <1>5, <1>7, <1>8 DEF Guards

(* If the prefixes of the jobs differ, a protected registration never takes *)
(* the place of a take that a person has chosen or uploaded.                *)
THEOREM ChoicesAreProtected ==
  ASSUME DistinctPrefixes
  PROVE  Spec => PersonsChoiceStands
<1>1. Init => TypeOK /\ Lineage /\ AllGuarded
  <2>1. Init => AllGuarded
    BY LedgerAssumption DEF Init, AllGuarded, Guarded, At, Afresh
  <2> QED
    BY <2>1, InitType, InitLineage
<1>2. (TypeOK /\ Lineage /\ AllGuarded) /\ [Next]_vars => (TypeOK /\ Lineage /\ AllGuarded)'
  BY NextType, NextLineage, NextGuarded
<1>3. TypeOK /\ AllGuarded /\ [Next]_vars =>
        [\A g \in Protecting :
           At(g, "manifestRead") /\ registrars'[g].at = "registered" =>
             \A i \in CurrentOf(artifacts) : artifacts[i].authority # "human"]_vars
  BY ProtectedBatch DEF NoneChosen
<1> QED
  BY <1>1, <1>2, <1>3, PTL DEF Spec, PersonsChoiceStands

-----------------------------------------------------------------------------
(* Ordered sets.                                                            *)

(* The larger and the smaller of two integers.                              *)
LEMMA MinMaxOfTwo ==
  ASSUME NEW a \in Int, NEW b \in Int
  PROVE  /\ Max({a, b}) = IF a > b THEN a ELSE b
         /\ Min({a, b}) = IF a < b THEN a ELSE b
<1>1. Max({a, b}) \in {a, b} /\ \A y \in {a, b} : Max({a, b}) >= y
  <2>1. \E x \in {a, b} : \A y \in {a, b} : x >= y
    OBVIOUS
  <2> QED
    BY <2>1 DEF Max
<1>2. Min({a, b}) \in {a, b} /\ \A y \in {a, b} : Min({a, b}) <= y
  <2>1. \E x \in {a, b} : \A y \in {a, b} : x <= y
    OBVIOUS
  <2> QED
    BY <2>1 DEF Min
<1> QED
  BY <1>1, <1>2

(* A set of natural numbers that is not empty has a smallest one,           *)
LEMMA SmallestNumber ==
  ASSUME NEW S \in SUBSET Nat, S # {}
  PROVE  \E x \in S : \A y \in S : x <= y
<1>1. PICK x \in S : \A y \in S : ~(<<y, x>> \in OpToRel(<, Nat))
  <2> HIDE DEF OpToRel
  <2> QED
    BY WFMin, NatLessThanWellFounded
<1>2. \A y \in S : ~(y < x)
  BY <1>1 DEF OpToRel
<1> QED
  BY <1>2

(* ... and a largest one, if it has a bound.                                *)
LEMMA LargestNumber ==
  ASSUME NEW S \in SUBSET Nat, S # {}, NEW n \in Nat, \A x \in S : x <= n
  PROVE  \E x \in S : \A y \in S : x >= y
<1> DEFINE T == {k \in Nat : \E x \in S : k = n - x}
<1>1. T # {}
  <2>1. PICK x \in S : TRUE
    OBVIOUS
  <2>2. n - x \in T
    OBVIOUS
  <2> QED
    BY <2>2
<1>2. PICK k \in T : \A j \in T : k <= j
  <2>1. T \in SUBSET Nat
    OBVIOUS
  <2> HIDE DEF T
  <2> QED
    BY <1>1, <2>1, SmallestNumber
<1>3. PICK x \in S : k = n - x
  OBVIOUS
<1>4. ASSUME NEW y \in S
      PROVE  x >= y
  <2>1. n - y \in T
    OBVIOUS
  <2> QED
    BY <1>2, <1>3, <2>1, SMTT(30)
<1> QED
  BY <1>4

LEMMA MinMaxType ==
  ASSUME NEW S \in SUBSET Nat, S # {}, NEW n \in Nat, \A x \in S : x <= n
  PROVE  /\ Min(S) \in S /\ \A x \in S : Min(S) <= x
         /\ Max(S) \in S /\ \A x \in S : Max(S) >= x
<1>1. Min(S) \in S /\ \A x \in S : Min(S) <= x
  BY SmallestNumber DEF Min
<1>2. Max(S) \in S /\ \A x \in S : Max(S) >= x
  BY LargestNumber DEF Max
<1> QED
  BY <1>1, <1>2

(* In a finite set under a strict total order, elements with 0, 1, 2, ...   *)
(* others before them are there, each of them once.                         *)
Ranked(S, R) == [x \in S |-> Cardinality({y \in S : <<y, x>> \in R})]

LEMMA EveryRankTaken ==
  ASSUME NEW S, IsFiniteSet(S), NEW R,
         \A x \in S : <<x, x>> \notin R,
         \A x, y, z \in S : <<x, y>> \in R /\ <<y, z>> \in R => <<x, z>> \in R,
         \A x, y \in S : x # y => <<x, y>> \in R \/ <<y, x>> \in R
  PROVE  /\ Cardinality(S) \in Nat
         /\ Ranked(S, R) \in [S -> 0..(Cardinality(S) - 1)]
         /\ \A x, y \in S : <<x, y>> \in R => Ranked(S, R)[x] < Ranked(S, R)[y]
         /\ \A x, y \in S : Ranked(S, R)[x] = Ranked(S, R)[y] => x = y
         /\ \A k \in 0..(Cardinality(S) - 1) : \E x \in S : Ranked(S, R)[x] = k
<1> DEFINE rank == Ranked(S, R)
           below(x) == {y \in S : <<y, x>> \in R}
           top == Cardinality(S) - 1
<1>1. Cardinality(S) \in Nat
  BY FS_CardinalityType
<1>2. ASSUME NEW x \in S
      PROVE  /\ IsFiniteSet(below(x)) /\ Cardinality(below(x)) \in 0..top
             /\ rank[x] = Cardinality(below(x))
  <2>1. IsFiniteSet(S \ {x}) /\ Cardinality(S \ {x}) = top
    BY FS_RemoveElement
  <2>2. below(x) \in SUBSET (S \ {x})
    OBVIOUS
  <2>3. rank[x] = Cardinality(below(x))
    BY DEF Ranked
  <2> HIDE DEF rank, below
  <2>4. IsFiniteSet(below(x)) /\ Cardinality(below(x)) <= top
    BY <2>1, <2>2, FS_Subset
  <2>5. Cardinality(below(x)) \in Nat
    BY <2>4, FS_CardinalityType
  <2> QED
    BY <1>1, <2>3, <2>4, <2>5
<1>3. rank \in [S -> 0..top]
  BY <1>2 DEF Ranked
<1>4. ASSUME NEW x \in S, NEW y \in S, <<x, y>> \in R
      PROVE  rank[x] < rank[y]
  <2>1. below(x) \in SUBSET below(y)
    BY <1>4
  <2>2. x \in below(y) /\ x \notin below(x)
    BY <1>4
  <2>3. Cardinality(below(x)) <= Cardinality(below(y)) /\ Cardinality(below(x)) # Cardinality(below(y))
    BY <1>2, <2>1, <2>2, FS_Subset
  <2> HIDE DEF rank, below
  <2> QED
    BY <1>1, <1>2, <2>3
<1>5. ASSUME NEW x \in S, NEW y \in S, rank[x] = rank[y]
      PROVE  x = y
  <2>1. ASSUME x # y
        PROVE  <<x, y>> \in R \/ <<y, x>> \in R
    BY <2>1
  <2>2. rank[x] \in Int /\ rank[y] \in Int
    BY <1>1, <1>3
  <2> HIDE DEF rank
  <2>3. ~(<<x, y>> \in R) /\ ~(<<y, x>> \in R)
    BY <1>4, <1>5, <2>2
  <2> QED
    BY <2>1, <2>3
<1>6. rank \in Injection(S, 0..top)
  BY <1>3, <1>5 DEF Injection, IsInjective
<1>7. IsFiniteSet(0..top) /\ Cardinality(0..top) = Cardinality(S)
  <2>1. 0 \in Int /\ top \in Int /\ (0 > top => Cardinality(S) = 0)
    BY <1>1
  <2> HIDE DEF top
  <2>2. IsFiniteSet(0..top) /\ Cardinality(0..top) = IF 0 > top THEN 0 ELSE top - 0 + 1
    BY <2>1, FS_Interval
  <2> QED
    BY <1>1, <2>1, <2>2 DEF top
<1>8. rank \in Surjection(S, 0..top)
  BY <1>6, <1>7, FS_Injection
<1>9. \A k \in 0..top : \E x \in S : rank[x] = k
  BY <1>8 DEF Surjection
<1> QED
  BY <1>1, <1>3, <1>4, <1>5, <1>9

(* Exactly n of them have fewer than n before them.                         *)
LEMMA FirstOnes ==
  ASSUME NEW S, IsFiniteSet(S), NEW R,
         \A x \in S : <<x, x>> \notin R,
         \A x, y, z \in S : <<x, y>> \in R /\ <<y, z>> \in R => <<x, z>> \in R,
         \A x, y \in S : x # y => <<x, y>> \in R \/ <<y, x>> \in R,
         NEW n \in Nat, n <= Cardinality(S)
  PROVE  Cardinality({x \in S : Ranked(S, R)[x] < n}) = n
<1> DEFINE first == {x \in S : Ranked(S, R)[x] < n}
           rank == [x \in first |-> Ranked(S, R)[x]]
<1>1. /\ Cardinality(S) \in Nat
      /\ Ranked(S, R) \in [S -> 0..(Cardinality(S) - 1)]
      /\ \A x, y \in S : Ranked(S, R)[x] = Ranked(S, R)[y] => x = y
      /\ \A k \in 0..(Cardinality(S) - 1) : \E x \in S : Ranked(S, R)[x] = k
  BY EveryRankTaken
<1>2. rank \in [first -> 0..(n - 1)]
  BY <1>1
<1>3. rank \in Injection(first, 0..(n - 1))
  BY <1>1, <1>2 DEF Injection, IsInjective
<1>4. ASSUME NEW k \in 0..(n - 1)
      PROVE  \E x \in first : rank[x] = k
  <2>1. PICK x \in S : Ranked(S, R)[x] = k
    BY <1>1
  <2>2. x \in first
    BY <2>1
  <2> QED
    BY <2>1, <2>2
<1>5. rank \in Surjection(first, 0..(n - 1))
  BY <1>2, <1>4 DEF Surjection
<1>6. IsFiniteSet(0..(n - 1)) /\ Cardinality(0..(n - 1)) = n
  BY n - 1 \in Int, 0 \in Int, FS_Interval
<1> HIDE DEF rank, first
<1>7. Cardinality(first) = Cardinality(0..(n - 1))
  BY <1>3, <1>5, <1>6, FS_Injection
<1> QED
  BY <1>6, <1>7 DEF first

-----------------------------------------------------------------------------
(* Gaps and separators.                                                     *)

(* A gap lies strictly between two columns with content that follow each    *)
(* other, so that its middle has none and gaps do not overlap.              *)
LEMMA GapType ==
  ASSUME NEW content \in SUBSET Nat, NEW g \in Gaps(content)
  PROVE  /\ g = <<g[1], g[2]>> /\ g[1] \in content /\ g[2] \in content
         /\ \A x \in content : x <= g[1] \/ x >= g[2]
         /\ Middle(g) \in Nat /\ g[1] < Middle(g) /\ Middle(g) < g[2]
         /\ Size(g) \in Nat \ {0}
<1>1. g \in content \X content /\ g[1] + 1 < g[2] /\ \A x \in content : x <= g[1] \/ x >= g[2]
  BY DEF Gaps
<1>2. g[1] \in Nat /\ g[2] \in Nat
  BY <1>1
<1>3. Middle(g) \in Nat /\ g[1] < Middle(g) /\ Middle(g) < g[2]
  BY <1>1, <1>2 DEF Middle
<1>4. Size(g) \in Nat \ {0}
  BY <1>1, <1>2 DEF Size
<1> QED
  BY <1>1, <1>3, <1>4

LEMMA GapsApart ==
  ASSUME NEW content \in SUBSET Nat, NEW g \in Gaps(content), NEW h \in Gaps(content)
  PROVE  g = h \/ g[2] <= h[1] \/ h[2] <= g[1]
<1>1. /\ g = <<g[1], g[2]>> /\ g[1] \in content /\ g[2] \in content
      /\ g[1] < g[2] /\ \A x \in content : x <= g[1] \/ x >= g[2]
  BY GapType
<1>2. /\ h = <<h[1], h[2]>> /\ h[1] \in content /\ h[2] \in content
      /\ h[1] < h[2] /\ \A x \in content : x <= h[1] \/ x >= h[2]
  BY GapType
<1>3. CASE g[1] = h[1]
  <2>1. g[2] = h[2]
    BY <1>1, <1>2, <1>3
  <2> QED
    BY <1>1, <1>2, <1>3, <2>1
<1>4. CASE g[1] < h[1]
  BY <1>1, <1>2, <1>4
<1>5. CASE h[1] < g[1]
  BY <1>1, <1>2, <1>5
<1> QED
  BY <1>1, <1>2, <1>3, <1>4, <1>5

LEMMA GapsFinite ==
  ASSUME NEW content, IsFiniteSet(content)
  PROVE  IsFiniteSet(Gaps(content))
<1>1. IsFiniteSet(content \X content)
  BY FS_Product
<1>2. Gaps(content) \in SUBSET (content \X content)
  BY DEF Gaps
<1> HIDE DEF Gaps
<1> QED
  BY <1>1, <1>2, FS_Subset

(* The n widest gaps are n gaps, for gaps of the same size are ordered from *)
(* left to right.                                                           *)
LEMMA WidestType ==
  ASSUME NEW content \in SUBSET Nat, IsFiniteSet(content),
         NEW n \in Nat, n <= Cardinality(Gaps(content))
  PROVE  /\ Widest(Gaps(content), n) \in SUBSET Gaps(content)
         /\ Cardinality(Widest(Gaps(content), n)) = n
<1> DEFINE G == Gaps(content)
           R == {p \in G \X G : Before(p[1], p[2])}
<1>1. \A g \in G : g = <<g[1], g[2]>> /\ g[1] \in Int /\ g[2] \in Int /\ Size(g) \in Int
  BY GapType
<1>2. \A g, h \in G : g = h \/ g[2] <= h[1] \/ h[2] <= g[1]
  BY GapsApart
<1>3. \A g \in G : g[1] < g[2]
  BY GapType, <1>1
<1>4. \A x \in G : <<x, x>> \notin R
  BY <1>1 DEF Before
<1>5. \A x, y, z \in G : <<x, y>> \in R /\ <<y, z>> \in R => <<x, z>> \in R
  BY <1>1 DEF Before
<1>6. \A x, y \in G : x # y => <<x, y>> \in R \/ <<y, x>> \in R
  <2>1. \A x, y \in G : x # y => x[1] < y[1] \/ y[1] < x[1]
    BY <1>1, <1>2, <1>3
  <2>2. \A x, y \in G : x # y => Before(x, y) \/ Before(y, x)
    BY <1>1, <2>1 DEF Before
  <2> QED
    BY <2>2
<1>7. IsFiniteSet(G)
  BY GapsFinite
<1>8. \A g \in G : Ranked(G, R)[g] = Cardinality({h \in G : Before(h, g)})
  <2>1. ASSUME NEW g \in G
        PROVE  {h \in G : <<h, g>> \in R} = {h \in G : Before(h, g)}
    OBVIOUS
  <2> QED
    BY <2>1 DEF Ranked
<1>9. Widest(G, n) = {g \in G : Ranked(G, R)[g] < n}
  BY <1>8 DEF Widest
<1> HIDE DEF G, R
<1>10. Cardinality(Widest(G, n)) = n
  BY <1>4, <1>5, <1>6, <1>7, <1>9, FirstOnes DEF G
<1> QED
  BY <1>9, <1>10 DEF G

(* The separators are the middles of the gaps, from left to right.          *)
LEMMA SeparatorsType ==
  ASSUME NEW content \in SUBSET Nat, NEW W \in SUBSET Gaps(content), IsFiniteSet(W)
  PROVE  /\ Separators(W) \in Seq(Nat)
         /\ Len(Separators(W)) = Cardinality(W)
         /\ \A i \in 1..Cardinality(W) : \E g \in W : Separators(W)[i] = Middle(g)
         /\ \A g \in W : \E i \in 1..Cardinality(W) : Separators(W)[i] = Middle(g)
         /\ \A i, k \in 1..Cardinality(W) : i < k => Separators(W)[i] < Separators(W)[k]
<1> DEFINE at == {Middle(g) : g \in W}
           f == [g \in W |-> Middle(g)]
           R == {p \in at \X at : p[1] < p[2]}
           sep == Separators(W)
           n == Cardinality(W)
<1>1. n \in Nat
  BY FS_CardinalityType
<1>2. \A g \in W : Middle(g) \in Nat
  BY GapType
<1>3. at \in SUBSET Nat
  BY <1>2
<1>4. IsFiniteSet(at) /\ Cardinality(at) = n
  <2>1. \A g, h \in W : Middle(g) = Middle(h) => g = h
    <3>1. SUFFICES ASSUME NEW g \in W, NEW h \in W, Middle(g) = Middle(h), g # h
                   PROVE  FALSE
      OBVIOUS
    <3>2. g[2] <= h[1] \/ h[2] <= g[1]
      BY <3>1, GapsApart
    <3>3. /\ g[1] \in Nat /\ g[2] \in Nat /\ Middle(g) \in Nat
          /\ g[1] < Middle(g) /\ Middle(g) < g[2]
      BY GapType
    <3>4. /\ h[1] \in Nat /\ h[2] \in Nat /\ h[1] < Middle(h) /\ Middle(h) < h[2]
      BY GapType
    <3> QED
      BY <3>1, <3>2, <3>3, <3>4
  <2>2. f \in Surjection(W, at)
    BY DEF Surjection
  <2>3. f \in Injection(W, at)
    BY <2>1 DEF Injection, IsInjective
  <2> HIDE DEF f, at
  <2> QED
    BY <2>2, <2>3, FS_Surjection
<1>5. \A x, y \in at : <<x, y>> \in R <=> x < y
  OBVIOUS
<1>6. /\ \A x \in at : <<x, x>> \notin R
      /\ \A x, y, z \in at : <<x, y>> \in R /\ <<y, z>> \in R => <<x, z>> \in R
      /\ \A x, y \in at : x # y => <<x, y>> \in R \/ <<y, x>> \in R
  <2> HIDE DEF at, R
  <2>1. \A x \in at : <<x, x>> \notin R
    BY <1>3, <1>5
  <2>2. \A x, y, z \in at : <<x, y>> \in R /\ <<y, z>> \in R => <<x, z>> \in R
    <3>1. \A x, y, z \in at : x < y /\ y < z => x < z
      BY <1>3
    <3> QED
      BY <1>5, <3>1
  <2>3. \A x, y \in at : x # y => <<x, y>> \in R \/ <<y, x>> \in R
    <3>1. \A x, y \in at : x # y => x < y \/ y < x
      BY <1>3
    <3> QED
      BY <1>5, <3>1
  <2> QED
    BY <2>1, <2>2, <2>3
<1>7. ASSUME NEW x \in at
      PROVE  Ranked(at, R)[x] = Cardinality({y \in at : y < x})
  <2>1. {y \in at : <<y, x>> \in R} = {y \in at : y < x}
    OBVIOUS
  <2> HIDE DEF at, R
  <2> QED
    BY <2>1 DEF Ranked
<1>8. sep = [i \in 1..n |-> CHOOSE x \in at : Cardinality({y \in at : y < x}) = i - 1]
  BY <1>4 DEF Separators
<1> HIDE DEF at, R
<1>9. /\ Ranked(at, R) \in [at -> 0..(n - 1)]
      /\ \A x, y \in at : <<x, y>> \in R => Ranked(at, R)[x] < Ranked(at, R)[y]
      /\ \A x, y \in at : Ranked(at, R)[x] = Ranked(at, R)[y] => x = y
      /\ \A k \in 0..(n - 1) : \E x \in at : Ranked(at, R)[x] = k
  <2>1. /\ Ranked(at, R) \in [at -> 0..(Cardinality(at) - 1)]
        /\ \A x, y \in at : <<x, y>> \in R => Ranked(at, R)[x] < Ranked(at, R)[y]
        /\ \A x, y \in at : Ranked(at, R)[x] = Ranked(at, R)[y] => x = y
        /\ \A k \in 0..(Cardinality(at) - 1) : \E x \in at : Ranked(at, R)[x] = k
    BY <1>4, <1>6, EveryRankTaken
  <2> QED
    BY <1>4, <2>1
<1>10. ASSUME NEW i \in 1..n
       PROVE  sep[i] \in at /\ Ranked(at, R)[sep[i]] = i - 1
  <2>1. i - 1 \in 0..(n - 1)
    BY <1>1
  <2>2. \E x \in at : Cardinality({y \in at : y < x}) = i - 1
    BY <1>7, <1>9, <2>1
  <2>3. sep[i] = CHOOSE x \in at : Cardinality({y \in at : y < x}) = i - 1
    BY <1>8
  <2> HIDE DEF sep
  <2>4. sep[i] \in at /\ Cardinality({y \in at : y < sep[i]}) = i - 1
    BY <2>2, <2>3
  <2> QED
    BY <1>7, <2>4
<1>11. sep = [i \in 1..n |-> sep[i]]
  BY <1>8
<1> HIDE DEF sep
<1>12. sep \in Seq(Nat) /\ Len(sep) = n
  <2>1. \A i \in 1..n : sep[i] \in Nat
    BY <1>3, <1>10
  <2>2. sep \in [1..n -> Nat]
    BY <1>11, <2>1
  <2> HIDE DEF n
  <2> QED
    BY <1>1, <2>2
<1>13. \A i \in 1..n : \E g \in W : sep[i] = Middle(g)
  BY <1>10 DEF at
<1>14. ASSUME NEW g \in W
       PROVE  \E i \in 1..n : sep[i] = Middle(g)
  <2>1. Middle(g) \in at
    BY DEF at
  <2>2. Ranked(at, R)[Middle(g)] \in 0..(n - 1)
    BY <1>9, <2>1
  <2>3. PICK i \in 1..n : i - 1 = Ranked(at, R)[Middle(g)]
    BY <1>1, <2>2
  <2> QED
    BY <1>9, <1>10, <2>1, <2>3
<1>15. ASSUME NEW i \in 1..n, NEW k \in 1..n, i < k
       PROVE  sep[i] < sep[k]
  <2>1. sep[i] \in at /\ sep[k] \in at /\ sep[i] \in Nat /\ sep[k] \in Nat
    BY <1>3, <1>10
  <2>2. Ranked(at, R)[sep[i]] = i - 1 /\ Ranked(at, R)[sep[k]] = k - 1
    BY <1>10
  <2>3. sep[k] # sep[i]
    BY <1>1, <1>15, <2>2
  <2>4. ~(sep[k] < sep[i])
    <3>1. SUFFICES ASSUME sep[k] < sep[i]
                   PROVE  FALSE
      OBVIOUS
    <3>2. <<sep[k], sep[i]>> \in R
      BY <1>5, <2>1, <3>1
    <3>3. Ranked(at, R)[sep[k]] < Ranked(at, R)[sep[i]]
      BY <1>9, <2>1, <3>2
    <3> QED
      BY <1>1, <1>15, <2>2, <3>3
  <2> QED
    BY <2>1, <2>3, <2>4
<1> QED
  BY <1>12, <1>13, <1>14, <1>15 DEF sep

-----------------------------------------------------------------------------
(* Sheets.                                                                  *)

(* What the slicer relies on, for figures in a row: where something is      *)
(* drawn and where nothing is, and that the figures come one after the      *)
(* other.                                                                   *)
Drawn(figure, drawing, count, background) ==
  /\ figure \in [Columns -> 0..count]
  /\ drawing.luminance \in [Columns -> {Line, Gray, background}]
  /\ \A x \in Columns : drawing.luminance[x] = background <=> figure[x] = 0
  /\ \A x, y \in Columns : x <= y /\ figure[x] # 0 /\ figure[y] # 0 => figure[x] <= figure[y]

Backgrounds == {White, Paper}

LEMMA ContentOfFigures ==
  ASSUME NEW figure, NEW drawing, NEW count \in Nat, NEW background \in Backgrounds,
         Drawn(figure, drawing, count, background)
  PROVE  /\ DOMAIN drawing.luminance = Columns /\ Cardinality(Columns) = Width /\ Width \in Nat \ {0}
         /\ Columns = 0..(Width - 1)
         /\ Content(drawing) \in SUBSET Inked(figure)
         /\ Content(drawing) \in SUBSET Nat /\ IsFiniteSet(Content(drawing))
         /\ \A x \in Content(drawing) : x < Width /\ figure[x] \in 1..count
<1>1. Width \in Nat \ {0}
  BY WidthAssumption
<1>2. IsFiniteSet(Columns) /\ Cardinality(Columns) = Width
  <2>1. 0 \in Int /\ Width - 1 \in Int
    BY <1>1
  <2>2. IsFiniteSet(Columns) /\ Cardinality(Columns) = IF 0 > Width - 1 THEN 0 ELSE Width - 1 - 0 + 1
    BY <2>1, FS_Interval DEF Columns
  <2> QED
    BY <1>1, <2>2
<1>3. DOMAIN drawing.luminance = Columns
  BY DEF Drawn
<1>4. Content(drawing) \in SUBSET Inked(figure)
  <2>1. ASSUME NEW x \in Columns
        PROVE  drawing.luminance[x] <= InkThreshold <=> figure[x] # 0
    BY DEF Drawn, Backgrounds, Line, Gray, White, Paper, InkThreshold
  <2> QED
    BY <1>3, <2>1 DEF Content, Dark, Inked
<1>5. Content(drawing) \in SUBSET Columns
  BY <1>4 DEF Inked
<1>6. IsFiniteSet(Content(drawing))
  BY <1>2, <1>5, FS_Subset
<1>7. \A x \in Content(drawing) : x \in Nat /\ x < Width /\ figure[x] \in 1..count
  BY <1>1, <1>4 DEF Drawn, Columns, Inked
<1> QED
  BY <1>1, <1>2, <1>3, <1>4, <1>6, <1>7 DEF Columns

(* What is drawn between two columns.                                       *)
InkIn(figure, range) == {x \in Inked(figure) : range[1] <= x /\ x < range[2]}

(* Trimming takes a range to what is drawn in it.                           *)
LEMMA TrimmedToInk ==
  ASSUME NEW figure, NEW drawing, NEW count \in Nat, NEW background \in Backgrounds,
         Drawn(figure, drawing, count, background),
         NEW range, range[1] \in 0..Width, range[2] \in 0..Width,
         InkIn(figure, range) # {}
  PROVE  LET view == Trimmed(drawing, range, background)
         IN  /\ view[1] \in InkIn(figure, range) /\ view[2] - 1 \in InkIn(figure, range)
             /\ view[2] \in Nat
             /\ \A x \in InkIn(figure, range) : view[1] <= x /\ x < view[2]
<1> DEFINE inside == InkIn(figure, range)
           seen == {x \in range[1]..(range[2] - 1) :
                      Distance(drawing.luminance[x], background) > Tolerance(background)}
           view == Trimmed(drawing, range, background)
<1>1. Columns = 0..(Width - 1) /\ Width \in Nat
  BY ContentOfFigures
<1>2. Tolerance(background) = IF background = White THEN 50 ELSE 25
  <2>1. background - InkThreshold \in Int /\ 1 \in Int
    BY DEF Backgrounds, White, Paper, InkThreshold
  <2> QED
    BY <2>1, MinMaxOfTwo DEF Tolerance, Backgrounds, White, Paper, InkThreshold
<1>3. ASSUME NEW x \in Columns
      PROVE  Distance(drawing.luminance[x], background) > Tolerance(background) <=> figure[x] # 0
  BY <1>2 DEF Drawn, Distance, Backgrounds, White, Paper, Line, Gray
<1>4. seen = inside
  BY <1>1, <1>3 DEF InkIn, Inked
<1>5. view = <<Min(inside), Max(inside) + 1>>
  BY <1>4 DEF Trimmed
<1>6. inside \in SUBSET Nat /\ \A x \in inside : x <= Width
  BY <1>1 DEF InkIn, Inked
<1> HIDE DEF inside, view
<1>7. inside # {}
  BY DEF inside
<1>8. /\ Min(inside) \in inside /\ \A x \in inside : Min(inside) <= x
      /\ Max(inside) \in inside /\ \A x \in inside : Max(inside) >= x
  BY <1>1, <1>6, <1>7, MinMaxType
<1>9. Min(inside) \in Nat /\ Max(inside) \in Nat
  BY <1>6, <1>8
<1>10. view[1] \in inside /\ view[2] - 1 \in inside /\ view[2] \in Nat
  BY <1>5, <1>8, <1>9
<1>11. \A x \in inside : view[1] <= x /\ x < view[2]
  BY <1>5, <1>6, <1>8, <1>9
<1> QED
  BY <1>10, <1>11 DEF inside, view

(* A sheet that is cut into equal parts has every column in one of them,    *)
(* and none in two.                                                         *)
LEMMA EqualParts ==
  ASSUME NEW width \in Nat, NEW count \in {2, 3}
  PROVE  LET r == EqualRanges(width, count)
         IN  /\ \A i \in 1..count : r[i][1] \in 0..width /\ r[i][2] \in 0..width
             /\ \A x \in 0..(width - 1) : \E i \in 1..count : r[i][1] <= x /\ x < r[i][2]
             /\ \A i, k \in 1..count : i < k => r[i][2] <= r[k][1]
<1> DEFINE step == width \div count
           r == EqualRanges(width, count)
<1>1. step \in Nat /\ count * step <= width
  OBVIOUS
<1>2. r = [i \in 1..count |-> <<(i - 1) * step, IF i = count THEN width ELSE i * step>>]
  BY DEF EqualRanges
<1> HIDE DEF step, r
<1>3. CASE count = 2
  <2>1. r[1] = <<0, step>> /\ r[2] = <<step, width>> /\ 1..count = {1, 2} /\ step <= width
    BY <1>1, <1>2, <1>3
  <2>2. \A i \in 1..count : r[i][1] \in 0..width /\ r[i][2] \in 0..width
    BY <1>1, <2>1
  <2>3. \A x \in 0..(width - 1) : \E i \in 1..count : r[i][1] <= x /\ x < r[i][2]
    BY <1>1, <2>1
  <2>4. \A i, k \in 1..count : i < k => r[i][2] <= r[k][1]
    BY <1>1, <2>1
  <2> QED
    BY <2>2, <2>3, <2>4 DEF r
<1>4. CASE count = 3
  <2>1. /\ r[1] = <<0, step>> /\ r[2] = <<step, 2 * step>> /\ r[3] = <<2 * step, width>>
        /\ 1..count = {1, 2, 3} /\ 2 * step <= width
    BY <1>1, <1>2, <1>4
  <2>2. \A i \in 1..count : r[i][1] \in 0..width /\ r[i][2] \in 0..width
    BY <1>1, <2>1
  <2>3. \A x \in 0..(width - 1) : \E i \in 1..count : r[i][1] <= x /\ x < r[i][2]
    BY <1>1, <2>1
  <2>4. \A i, k \in 1..count : i < k => r[i][2] <= r[k][1]
    BY <1>1, <2>1
  <2> QED
    BY <2>2, <2>3, <2>4 DEF r
<1> QED
  BY <1>3, <1>4

-----------------------------------------------------------------------------
(* Measured ranges: from the left edge of a view to its right edge, and the *)
(* padding at either side as far as the sheet goes.                         *)

LeftEdge(content, cuts, i) == IF i = 1 THEN Min(content) ELSE cuts[i - 1] + 1

RightEdge(content, cuts, i) == IF i = Len(cuts) + 1 THEN Max(content) + 1 ELSE cuts[i]

(* Every gap of W is cut in the middle, from left to right.                 *)
CutAt(content, W, cuts) ==
  /\ W \in SUBSET Gaps(content)
  /\ cuts \in Seq(Nat)
  /\ \A i \in DOMAIN cuts : \E g \in W : cuts[i] = Middle(g)
  /\ \A g \in W : \E i \in DOMAIN cuts : cuts[i] = Middle(g)
  /\ \A i, k \in DOMAIN cuts : i < k => cuts[i] < cuts[k]

(* A view has room between its edges, for content is between two gaps and   *)
(* outside the first and the last.                                          *)
LEMMA EdgesApart ==
  ASSUME NEW content \in SUBSET Nat, content # {}, NEW width \in Nat, \A x \in content : x < width,
         NEW W, NEW cuts, CutAt(content, W, cuts),
         NEW i \in 1..(Len(cuts) + 1)
  PROVE  /\ LeftEdge(content, cuts, i) \in 0..width /\ RightEdge(content, cuts, i) \in 0..width
         /\ LeftEdge(content, cuts, i) < RightEdge(content, cuts, i)
<1>1. /\ Min(content) \in content /\ \A x \in content : Min(content) <= x
      /\ Max(content) \in content /\ \A x \in content : Max(content) >= x
  <2>1. \A x \in content : x <= width
    OBVIOUS
  <2> QED
    BY <2>1, MinMaxType
<1>2. Min(content) \in Nat /\ Max(content) \in Nat /\ Min(content) <= Max(content) /\ Max(content) < width
  BY <1>1
<1>3. /\ Len(cuts) \in Nat /\ DOMAIN cuts = 1..Len(cuts)
      /\ \A k \in 1..Len(cuts) : cuts[k] \in Nat
  BY DEF CutAt
<1>4. ASSUME NEW k \in 1..Len(cuts)
      PROVE  /\ \E g \in Gaps(content) : cuts[k] = Middle(g)
             /\ Min(content) < cuts[k] /\ cuts[k] < Max(content)
  <2>1. PICK g \in Gaps(content) : cuts[k] = Middle(g)
    BY <1>3 DEF CutAt
  <2>2. /\ g[1] \in content /\ g[2] \in content
        /\ g[1] < Middle(g) /\ Middle(g) < g[2] /\ Middle(g) \in Nat
    BY GapType
  <2>3. g[1] \in Nat /\ g[2] \in Nat /\ Min(content) <= g[1] /\ g[2] <= Max(content)
    BY <1>1, <2>2
  <2> QED
    BY <1>2, <2>1, <2>2, <2>3
<1>5. CASE i = 1 /\ i = Len(cuts) + 1
  BY <1>2, <1>5 DEF LeftEdge, RightEdge
<1>6. CASE i = 1 /\ i # Len(cuts) + 1
  <2>1. 1 \in 1..Len(cuts)
    BY <1>3, <1>6
  <2>2. cuts[1] \in Nat /\ Min(content) < cuts[1] /\ cuts[1] < Max(content)
    BY <1>3, <1>4, <2>1
  <2> QED
    BY <1>2, <1>6, <2>2 DEF LeftEdge, RightEdge
<1>7. CASE i # 1 /\ i = Len(cuts) + 1
  <2>1. i - 1 \in 1..Len(cuts)
    BY <1>3, <1>7
  <2>2. cuts[i - 1] \in Nat /\ Min(content) < cuts[i - 1] /\ cuts[i - 1] < Max(content)
    BY <1>3, <1>4, <2>1
  <2> QED
    BY <1>2, <1>7, <2>2 DEF LeftEdge, RightEdge
<1>8. CASE i # 1 /\ i # Len(cuts) + 1
  <2>1. i - 1 \in 1..Len(cuts) /\ i \in 1..Len(cuts) /\ i - 1 < i
    BY <1>3, <1>8
  <2>2. cuts[i - 1] < cuts[i]
    BY <1>3, <2>1 DEF CutAt
  <2>3. PICK g \in Gaps(content) : cuts[i - 1] = Middle(g)
    BY <1>4, <2>1
  <2>4. PICK h \in Gaps(content) : cuts[i] = Middle(h)
    BY <1>4, <2>1
  <2>5. /\ g[1] \in Nat /\ g[2] \in Nat
        /\ g[1] < Middle(g) /\ Middle(g) < g[2] /\ Middle(g) \in Nat
    BY GapType
  <2>6. /\ h[1] \in Nat /\ h[2] \in Nat
        /\ h[1] < Middle(h) /\ Middle(h) < h[2] /\ Middle(h) \in Nat
    BY GapType
  <2>7. g = h \/ g[2] <= h[1] \/ h[2] <= g[1]
    BY GapsApart
  <2>8. cuts[i - 1] + 1 < cuts[i]
    BY <2>2, <2>3, <2>4, <2>5, <2>6, <2>7
  <2>9. cuts[i] \in Nat /\ cuts[i - 1] \in Nat /\ cuts[i] < Max(content)
    BY <1>3, <1>4, <2>1
  <2> QED
    BY <1>2, <1>8, <2>8, <2>9 DEF LeftEdge, RightEdge
<1> QED
  BY <1>5, <1>6, <1>7, <1>8

Reach(content, cuts, i) ==
  << IF LeftEdge(content, cuts, i) - SegmentPadding > 0
       THEN LeftEdge(content, cuts, i) - SegmentPadding ELSE 0,
     IF Width < RightEdge(content, cuts, i) + SegmentPadding
       THEN Width ELSE RightEdge(content, cuts, i) + SegmentPadding >>

(* The padding only widens a range.                                         *)
LEMMA ReachType ==
  ASSUME NEW content, NEW cuts, NEW i,
         LeftEdge(content, cuts, i) \in 0..Width, RightEdge(content, cuts, i) \in 0..Width,
         LeftEdge(content, cuts, i) < RightEdge(content, cuts, i)
  PROVE  /\ Reach(content, cuts, i)[1] \in 0..Width /\ Reach(content, cuts, i)[2] \in 0..Width
         /\ Reach(content, cuts, i)[1] <= LeftEdge(content, cuts, i)
         /\ RightEdge(content, cuts, i) <= Reach(content, cuts, i)[2]
  BY PaddingAssumption, WidthAssumption DEF Reach

(* The outermost cuts are where the content begins and ends.                *)
LEMMA BetweenEnds ==
  ASSUME NEW s \in Seq(Nat), NEW a \in Nat, NEW b \in Nat
  PROVE  /\ (<<a>> \o s \o <<b>>)[1] = a
         /\ (<<a>> \o s \o <<b>>)[Len(s) + 2] = b
         /\ \A k \in 1..Len(s) : (<<a>> \o s \o <<b>>)[k + 1] = s[k]
<1> DEFINE t == <<a>> \o s
           u == t \o <<b>>
<1>1. Len(s) \in Nat /\ <<a>> \in Seq(Nat) /\ <<b>> \in Seq(Nat)
      /\ Len(<<a>>) = 1 /\ Len(<<b>>) = 1 /\ <<a>>[1] = a /\ <<b>>[1] = b
  OBVIOUS
<1>2. /\ t \in Seq(Nat) /\ Len(t) = Len(s) + 1
      /\ \A j \in 1..(Len(s) + 1) : t[j] = IF j <= 1 THEN <<a>>[j] ELSE s[j - 1]
  BY <1>1
<1> HIDE DEF t
<1>3. \A j \in 1..(Len(s) + 2) : u[j] = IF j <= Len(s) + 1 THEN t[j] ELSE <<b>>[j - (Len(s) + 1)]
  BY <1>1, <1>2
<1> HIDE DEF u
<1>4. u[1] = a
  <2>1. 1 \in 1..(Len(s) + 1) /\ 1 \in 1..(Len(s) + 2) /\ 1 <= Len(s) + 1
    BY <1>1
  <2>2. u[1] = t[1]
    BY <1>3, <2>1
  <2>3. t[1] = <<a>>[1]
    BY <1>2, <2>1
  <2> QED
    BY <2>2, <2>3
<1>5. u[Len(s) + 2] = b
  <2>1. /\ Len(s) + 2 \in 1..(Len(s) + 2) /\ ~(Len(s) + 2 <= Len(s) + 1)
        /\ (Len(s) + 2) - (Len(s) + 1) = 1
    BY <1>1
  <2>2. u[Len(s) + 2] = <<b>>[(Len(s) + 2) - (Len(s) + 1)]
    BY <1>3, <2>1
  <2> QED
    BY <2>1, <2>2
<1>6. ASSUME NEW k \in 1..Len(s)
      PROVE  u[k + 1] = s[k]
  <2>1. /\ k + 1 \in 1..(Len(s) + 1) /\ k + 1 \in 1..(Len(s) + 2) /\ ~(k + 1 <= 1)
        /\ k + 1 <= Len(s) + 1 /\ (k + 1) - 1 = k
    BY <1>1
  <2>2. u[k + 1] = t[k + 1]
    BY <1>3, <2>1
  <2>3. t[k + 1] = s[(k + 1) - 1]
    BY <1>2, <2>1
  <2> QED
    BY <2>1, <2>2, <2>3
<1> QED
  BY <1>4, <1>5, <1>6 DEF u, t

(* The ranges of a sheet that is measured, if it can be.                     *)
CutOut(drawing, count) == Ranges(drawing, count, FALSE)

LEMMA MeasuredCuts ==
  ASSUME NEW figure, NEW drawing, NEW count \in {2, 3}, NEW background \in Backgrounds,
         Drawn(figure, drawing, count, background),
         MeasuredRanges(drawing, count) # {}
  PROVE  LET content == Content(drawing)
             W == Widest(Gaps(content), count - 1)
             cuts == Separators(W)
         IN  /\ content # {} /\ CutAt(content, W, cuts) /\ Len(cuts) = count - 1
             /\ \A i \in 1..count : CutOut(drawing, count)[i] = Reach(content, cuts, i)
<1> DEFINE content == Content(drawing)
           W == Widest(Gaps(content), count - 1)
           cuts == Separators(W)
           first == Min(content)
           last == Max(content)
           all == <<first>> \o cuts \o <<last + 1>>
           left(i) == IF i = 1 THEN all[i] ELSE all[i] + 1
           from(i) == Max({0, left(i) - SegmentPadding})
           to(i) == Min({Cardinality(DOMAIN drawing.luminance), all[i + 1] + SegmentPadding})
           measured == [i \in 1..count |-> <<from(i), Max({to(i), from(i) + 1})>>]
<1>1. /\ ~(content = {} \/ last - first < count \/ Cardinality(Gaps(content)) < count - 1)
      /\ MeasuredRanges(drawing, count) = {measured}
  BY DEF MeasuredRanges
<1>2. CutOut(drawing, count) = measured
  BY <1>1 DEF Ranges, CutOut
<1>3. /\ content \in SUBSET Nat /\ IsFiniteSet(content) /\ Width \in Nat \ {0}
      /\ Cardinality(DOMAIN drawing.luminance) = Width /\ \A x \in content : x < Width
  BY ContentOfFigures
<1> HIDE DEF content
<1>4. W \in SUBSET Gaps(content) /\ Cardinality(W) = count - 1 /\ IsFiniteSet(W)
  <2>1. IsFiniteSet(Gaps(content)) /\ Cardinality(Gaps(content)) \in Nat
    BY <1>3, GapsFinite, FS_CardinalityType
  <2>2. count - 1 \in Nat /\ count - 1 <= Cardinality(Gaps(content))
    BY <1>1, <2>1
  <2>3. W \in SUBSET Gaps(content) /\ Cardinality(W) = count - 1
    BY <1>3, <2>2, WidestType
  <2> QED
    BY <2>1, <2>3, FS_Subset
<1> HIDE DEF W
<1>5. /\ cuts \in Seq(Nat) /\ Len(cuts) = count - 1
      /\ \A i \in 1..(count - 1) : \E g \in W : cuts[i] = Middle(g)
      /\ \A g \in W : \E i \in 1..(count - 1) : cuts[i] = Middle(g)
      /\ \A i, k \in 1..(count - 1) : i < k => cuts[i] < cuts[k]
  BY <1>3, <1>4, SeparatorsType
<1> HIDE DEF cuts
<1>6. CutAt(content, W, cuts)
  <2>1. DOMAIN cuts = 1..(count - 1)
    BY <1>5
  <2> QED
    BY <1>4, <1>5, <2>1 DEF CutAt
<1>7. first \in Nat /\ last \in Nat
  <2>1. content # {} /\ \A x \in content : x <= Width
    BY <1>1, <1>3
  <2> QED
    BY <1>3, <2>1, MinMaxType
<1> HIDE DEF first, last
<1>8. ASSUME NEW i \in 1..count
      PROVE  left(i) = LeftEdge(content, cuts, i) /\ all[i + 1] = RightEdge(content, cuts, i)
  <2>1. /\ all[1] = first /\ all[Len(cuts) + 2] = last + 1
        /\ \A k \in 1..Len(cuts) : all[k + 1] = cuts[k]
    <3>1. cuts \in Seq(Nat) /\ first \in Nat /\ last + 1 \in Nat
      BY <1>5, <1>7
    <3> QED
      BY <3>1, BetweenEnds
  <2> HIDE DEF all
  <2>2. i # 1 => i - 1 \in 1..Len(cuts) /\ (i - 1) + 1 = i
    BY <1>5
  <2>3. i # count => i \in 1..Len(cuts)
    BY <1>5
  <2>4. left(i) = LeftEdge(content, cuts, i)
    BY <2>1, <2>2 DEF LeftEdge, first
  <2>5. all[i + 1] = RightEdge(content, cuts, i)
    BY <1>5, <2>1, <2>3, SMTT(30) DEF RightEdge, last
  <2> QED
    BY <2>4, <2>5
<1>9. ASSUME NEW i \in 1..count
      PROVE  measured[i] = Reach(content, cuts, i)
  <2> DEFINE l == LeftEdge(content, cuts, i)
             r == RightEdge(content, cuts, i)
  <2>1. l \in 0..Width /\ r \in 0..Width /\ l < r
    <3>1. i \in 1..(Len(cuts) + 1)
      BY <1>5
    <3> QED
      BY <1>1, <1>3, <1>6, <3>1, EdgesApart
  <2>2. from(i) = Max({0, l - SegmentPadding}) /\ to(i) = Min({Width, r + SegmentPadding})
    BY <1>3, <1>8
  <2>3. measured[i] = <<from(i), Max({to(i), from(i) + 1})>>
    OBVIOUS
  <2> HIDE DEF from, to, measured, l, r
  <2>4. from(i) = IF l - SegmentPadding > 0 THEN l - SegmentPadding ELSE 0
    <3>1. 0 \in Int /\ l - SegmentPadding \in Int
      BY <2>1, PaddingAssumption
    <3> QED
      BY <2>2, <3>1, MinMaxOfTwo
  <2>5. to(i) = IF Width < r + SegmentPadding THEN Width ELSE r + SegmentPadding
    <3>1. Width \in Int /\ r + SegmentPadding \in Int
      BY <1>3, <2>1, PaddingAssumption
    <3> QED
      BY <2>2, <3>1, MinMaxOfTwo
  <2>6. from(i) \in Nat /\ to(i) \in Nat /\ from(i) + 1 <= to(i)
    BY <1>3, <2>1, <2>4, <2>5, PaddingAssumption
  <2>7. Max({to(i), from(i) + 1}) = to(i)
    <3>1. to(i) \in Int /\ from(i) + 1 \in Int
      BY <2>6
    <3>2. Max({to(i), from(i) + 1}) = IF to(i) > from(i) + 1 THEN to(i) ELSE from(i) + 1
      BY <3>1, MinMaxOfTwo
    <3> QED
      BY <2>6, <3>2
  <2> QED
    BY <2>3, <2>4, <2>5, <2>7 DEF Reach, l, r
<1>10. \A i \in 1..count : CutOut(drawing, count)[i] = Reach(content, cuts, i)
  BY <1>2, <1>9
<1> QED
  BY <1>1, <1>5, <1>6, <1>10 DEF content, W, cuts

-----------------------------------------------------------------------------
(* What is drawn is in one of the views.                                    *)

(* The sheet is measured, or cut into equal parts.                          *)
LEMMA RangesCases ==
  ASSUME NEW figure, NEW drawing, NEW count \in Nat, NEW background \in Backgrounds,
         Drawn(figure, drawing, count, background), NEW equalCut
  PROVE  \/ Ranges(drawing, count, equalCut) = EqualRanges(Width, count)
         \/ /\ ~equalCut /\ MeasuredRanges(drawing, count) # {}
            /\ Ranges(drawing, count, equalCut) = CutOut(drawing, count)
<1>1. Cardinality(DOMAIN drawing.luminance) = Width
  BY ContentOfFigures
<1>2. CASE equalCut
  BY <1>1, <1>2 DEF Ranges
<1>3. CASE ~equalCut
  BY <1>1, <1>3 DEF Ranges, CutOut
<1> QED
  BY <1>2, <1>3

(* Columns with content, and those that the padding reaches from there.     *)
NearContent(drawing, x) ==
  \E first, last \in Content(drawing) :
    first - SegmentPadding <= x /\ x <= last + SegmentPadding

(* Each padded range reaches into the next one.                             *)
LEMMA ReachesCover ==
  ASSUME NEW a \in Nat, NEW b \in Nat, NEW cuts \in Seq(Nat), Len(cuts) \in {1, 2},
         NEW content, Min(content) = a, Max(content) = b,
         NEW x \in 0..(Width - 1), a - SegmentPadding <= x, x <= b + SegmentPadding
  PROVE  \E i \in 1..(Len(cuts) + 1) :
           Reach(content, cuts, i)[1] <= x /\ x < Reach(content, cuts, i)[2]
<1>1. SegmentPadding \in Nat \ {0} /\ Width \in Nat /\ x \in Int
  BY PaddingAssumption, WidthAssumption
<1>2. ASSUME NEW i \in 1..(Len(cuts) + 1),
             LeftEdge(content, cuts, i) \in Nat, RightEdge(content, cuts, i) \in Nat,
             LeftEdge(content, cuts, i) - SegmentPadding <= x,
             x < RightEdge(content, cuts, i) + SegmentPadding
      PROVE  Reach(content, cuts, i)[1] <= x /\ x < Reach(content, cuts, i)[2]
  BY <1>1, <1>2 DEF Reach
<1>3. x < b + 1 + SegmentPadding /\ a - SegmentPadding <= x /\ b + 1 \in Nat
  BY <1>1
<1>4. \A k \in 1..Len(cuts) : cuts[k] \in Nat /\ cuts[k] + 1 \in Nat
  OBVIOUS
<1>5. ASSUME NEW m \in Nat
      PROVE  x < m + SegmentPadding \/ m + 1 - SegmentPadding <= x
  BY <1>1
<1>6. CASE Len(cuts) = 1
  <2>1. /\ LeftEdge(content, cuts, 1) = a /\ RightEdge(content, cuts, 1) = cuts[1]
        /\ LeftEdge(content, cuts, 2) = cuts[1] + 1 /\ RightEdge(content, cuts, 2) = b + 1
    BY <1>6 DEF LeftEdge, RightEdge
  <2>2. /\ cuts[1] \in Nat /\ cuts[1] + 1 \in Nat
        /\ 1 \in 1..(Len(cuts) + 1) /\ 2 \in 1..(Len(cuts) + 1)
    BY <1>4, <1>6
  <2>3. CASE x < cuts[1] + SegmentPadding
    <3>1. Reach(content, cuts, 1)[1] <= x /\ x < Reach(content, cuts, 1)[2]
      BY <1>2, <1>3, <2>1, <2>2, <2>3
    <3> QED
      BY <2>2, <3>1
  <2>4. CASE cuts[1] + 1 - SegmentPadding <= x
    <3>1. /\ LeftEdge(content, cuts, 2) \in Nat /\ RightEdge(content, cuts, 2) \in Nat
          /\ LeftEdge(content, cuts, 2) - SegmentPadding <= x
          /\ x < RightEdge(content, cuts, 2) + SegmentPadding
      <4>1. LeftEdge(content, cuts, 2) \in Nat /\ LeftEdge(content, cuts, 2) - SegmentPadding <= x
        BY <1>1, <2>1, <2>2, <2>4
      <4>2. RightEdge(content, cuts, 2) \in Nat /\ x < RightEdge(content, cuts, 2) + SegmentPadding
        BY <1>1, <1>3, <2>1, <2>2, <2>4
      <4> QED
        BY <4>1, <4>2
    <3>2. Reach(content, cuts, 2)[1] <= x /\ x < Reach(content, cuts, 2)[2]
      BY <1>2, <2>2, <3>1
    <3> QED
      BY <2>2, <3>2
  <2> QED
    BY <1>5, <2>2, <2>3, <2>4
<1>7. CASE Len(cuts) = 2
  <2>1. /\ LeftEdge(content, cuts, 1) = a /\ RightEdge(content, cuts, 1) = cuts[1]
        /\ LeftEdge(content, cuts, 2) = cuts[1] + 1 /\ RightEdge(content, cuts, 2) = cuts[2]
        /\ LeftEdge(content, cuts, 3) = cuts[2] + 1 /\ RightEdge(content, cuts, 3) = b + 1
    BY <1>7 DEF LeftEdge, RightEdge
  <2>2. /\ cuts[1] \in Nat /\ cuts[1] + 1 \in Nat /\ cuts[2] \in Nat /\ cuts[2] + 1 \in Nat
    <3>1. 1 \in 1..Len(cuts) /\ 2 \in 1..Len(cuts)
      BY <1>7
    <3> QED
      BY <1>4, <3>1
  <2>3. /\ 1 \in 1..(Len(cuts) + 1) /\ 2 \in 1..(Len(cuts) + 1) /\ 3 \in 1..(Len(cuts) + 1)
    BY <1>7
  <2>4. CASE x < cuts[1] + SegmentPadding
    <3>1. Reach(content, cuts, 1)[1] <= x /\ x < Reach(content, cuts, 1)[2]
      BY <1>2, <1>3, <2>1, <2>2, <2>3, <2>4
    <3> QED
      BY <2>3, <3>1
  <2>5. CASE cuts[1] + 1 - SegmentPadding <= x /\ x < cuts[2] + SegmentPadding
    <3>1. /\ LeftEdge(content, cuts, 2) \in Nat /\ RightEdge(content, cuts, 2) \in Nat
          /\ LeftEdge(content, cuts, 2) - SegmentPadding <= x
          /\ x < RightEdge(content, cuts, 2) + SegmentPadding
      <4>1. LeftEdge(content, cuts, 2) \in Nat /\ LeftEdge(content, cuts, 2) - SegmentPadding <= x
        BY <1>1, <2>1, <2>2, <2>5
      <4>2. RightEdge(content, cuts, 2) \in Nat /\ x < RightEdge(content, cuts, 2) + SegmentPadding
        BY <1>1, <2>1, <2>2, <2>5
      <4> QED
        BY <4>1, <4>2
    <3>2. Reach(content, cuts, 2)[1] <= x /\ x < Reach(content, cuts, 2)[2]
      BY <1>2, <2>3, <3>1
    <3> QED
      BY <2>3, <3>2
  <2>6. CASE cuts[2] + 1 - SegmentPadding <= x
    <3>1. /\ LeftEdge(content, cuts, 3) \in Nat /\ RightEdge(content, cuts, 3) \in Nat
          /\ LeftEdge(content, cuts, 3) - SegmentPadding <= x
          /\ x < RightEdge(content, cuts, 3) + SegmentPadding
      <4>1. LeftEdge(content, cuts, 3) \in Nat /\ LeftEdge(content, cuts, 3) - SegmentPadding <= x
        BY <1>1, <2>1, <2>2, <2>6
      <4>2. RightEdge(content, cuts, 3) \in Nat /\ x < RightEdge(content, cuts, 3) + SegmentPadding
        BY <1>1, <1>3, <2>1, <2>2, <2>6
      <4> QED
        BY <4>1, <4>2
    <3>2. Reach(content, cuts, 3)[1] <= x /\ x < Reach(content, cuts, 3)[2]
      BY <1>2, <2>3, <3>1
    <3> QED
      BY <2>3, <3>2
  <2>7. /\ x < cuts[1] + SegmentPadding \/ cuts[1] + 1 - SegmentPadding <= x
        /\ x < cuts[2] + SegmentPadding \/ cuts[2] + 1 - SegmentPadding <= x
    BY <1>5, <2>2
  <2> QED
    BY <2>4, <2>5, <2>6, <2>7
<1> QED
  BY <1>6, <1>7

LEMMA RangesCover ==
  ASSUME NEW figure, NEW drawing, NEW count \in {2, 3}, NEW background \in Backgrounds,
         Drawn(figure, drawing, count, background), NEW equalCut
  PROVE  LET r == Ranges(drawing, count, equalCut)
         IN  /\ \A i \in 1..count : r[i][1] \in 0..Width /\ r[i][2] \in 0..Width
             /\ \A x \in Columns : equalCut \/ NearContent(drawing, x) =>
                  \E i \in 1..count : r[i][1] <= x /\ x < r[i][2]
<1> DEFINE r == Ranges(drawing, count, equalCut)
           content == Content(drawing)
<1>1. /\ content \in SUBSET Nat /\ Width \in Nat \ {0} /\ \A x \in content : x < Width
      /\ Columns = 0..(Width - 1)
  BY ContentOfFigures
<1>2. CASE r = EqualRanges(Width, count)
  <2>1. /\ \A i \in 1..count : r[i][1] \in 0..Width /\ r[i][2] \in 0..Width
        /\ \A x \in Columns : \E i \in 1..count : r[i][1] <= x /\ x < r[i][2]
    BY <1>1, <1>2, EqualParts
  <2> HIDE DEF r
  <2> QED
    BY <2>1 DEF r
<1>3. CASE ~equalCut /\ MeasuredRanges(drawing, count) # {} /\ r = CutOut(drawing, count)
  <2> DEFINE W == Widest(Gaps(content), count - 1)
             cuts == Separators(W)
  <2>1. /\ content # {} /\ CutAt(content, W, cuts) /\ Len(cuts) = count - 1
        /\ \A i \in 1..count : r[i] = Reach(content, cuts, i)
    BY <1>3, MeasuredCuts, ZenonT(30)
  <2> HIDE DEF r, content, W, cuts
  <2>2. ASSUME NEW i \in 1..count
        PROVE  r[i][1] \in 0..Width /\ r[i][2] \in 0..Width
    <3>1. i \in 1..(Len(cuts) + 1)
      BY <2>1
    <3>2. /\ LeftEdge(content, cuts, i) \in 0..Width /\ RightEdge(content, cuts, i) \in 0..Width
          /\ LeftEdge(content, cuts, i) < RightEdge(content, cuts, i)
      BY <1>1, <2>1, <3>1, EdgesApart
    <3> QED
      BY <2>1, <3>2, ReachType
  <2>3. ASSUME NEW x \in Columns, NearContent(drawing, x)
        PROVE  \E i \in 1..count : r[i][1] <= x /\ x < r[i][2]
    <3>1. PICK first \in content, last \in content :
            first - SegmentPadding <= x /\ x <= last + SegmentPadding
      BY <2>3 DEF NearContent, content
    <3>2. /\ Min(content) \in content /\ \A y \in content : Min(content) <= y
          /\ Max(content) \in content /\ \A y \in content : Max(content) >= y
      <4>1. \A y \in content : y <= Width
        BY <1>1
      <4> QED
        BY <1>1, <2>1, <4>1, MinMaxType
    <3>3. /\ Min(content) \in Nat /\ Max(content) \in Nat /\ x \in 0..(Width - 1)
          /\ Min(content) - SegmentPadding <= x /\ x <= Max(content) + SegmentPadding
      <4>1. /\ first \in Nat /\ last \in Nat /\ Min(content) \in Nat /\ Max(content) \in Nat
            /\ Min(content) <= first /\ last <= Max(content)
        BY <1>1, <3>2
      <4>2. x \in 0..(Width - 1) /\ x \in Nat
        BY <1>1
      <4> QED
        BY <3>1, <4>1, <4>2, PaddingAssumption
    <3>4. cuts \in Seq(Nat) /\ Len(cuts) \in {1, 2} /\ Len(cuts) + 1 = count
      BY <2>1 DEF CutAt
    <3>5. \E i \in 1..(Len(cuts) + 1) :
            Reach(content, cuts, i)[1] <= x /\ x < Reach(content, cuts, i)[2]
      BY <3>3, <3>4, ReachesCover
    <3> QED
      BY <2>1, <3>4, <3>5
  <2> QED
    BY <1>3, <2>2, <2>3 DEF r
<1>4. \/ r = EqualRanges(Width, count)
      \/ ~equalCut /\ MeasuredRanges(drawing, count) # {} /\ r = CutOut(drawing, count)
  <2>1. count \in Nat
    OBVIOUS
  <2> QED
    BY <2>1, RangesCases
<1> QED
  BY <1>2, <1>3, <1>4

Layouts == {<<"front", "left">>, <<"front", "left", "back">>}

(* Every view is a range of the sheet, trimmed.                             *)
LEMMA SlicesType ==
  ASSUME NEW drawing, NEW slots \in Layouts, NEW background, NEW equalCut
  PROVE  LET views == Slices(drawing, slots, background, equalCut)
         IN  /\ Len(slots) \in {2, 3}
             /\ \A i \in 1..Len(slots) : slots[i] \in DOMAIN views
             /\ \A i \in 1..Len(slots) :
                  views[slots[i]] =
                    Trimmed(drawing, Ranges(drawing, Len(slots), equalCut)[i], background)
<1> DEFINE views == Slices(drawing, slots, background, equalCut)
           r == Ranges(drawing, Len(slots), equalCut)
<1>1. /\ Len(slots) \in {2, 3} /\ DOMAIN slots = 1..Len(slots)
      /\ \A i, k \in 1..Len(slots) : slots[i] = slots[k] => i = k
  BY DEF Layouts
<1>2. \A i \in 1..Len(slots) : slots[i] \in ToSet(slots)
  BY <1>1 DEF ToSet
<1>3. views = [view \in ToSet(slots) |->
                 Trimmed(drawing, r[CHOOSE n \in DOMAIN slots : slots[n] = view], background)]
  BY DEF Slices
<1>4. ASSUME NEW i \in 1..Len(slots)
      PROVE  views[slots[i]] = Trimmed(drawing, r[i], background)
  <2>1. (CHOOSE n \in DOMAIN slots : slots[n] = slots[i]) = i
    BY <1>1
  <2>2. slots[i] \in ToSet(slots)
    BY <1>2
  <2> HIDE DEF views, r
  <2> QED
    BY <1>3, <2>1, <2>2
<1> HIDE DEF views, r
<1>5. \A i \in 1..Len(slots) : slots[i] \in DOMAIN views
  BY <1>2, <1>3
<1> QED
  BY <1>1, <1>4, <1>5 DEF views, r

LEMMA InkInViews ==
  ASSUME NEW figure, NEW drawing, NEW slots \in Layouts, NEW background \in Backgrounds,
         Drawn(figure, drawing, Len(slots), background), NEW equalCut,
         NEW x \in Inked(figure), equalCut \/ NearContent(drawing, x)
  PROVE  LET views == Slices(drawing, slots, background, equalCut)
         IN  \E view \in DOMAIN views : views[view][1] <= x /\ x < views[view][2]
<1> DEFINE views == Slices(drawing, slots, background, equalCut)
           r == Ranges(drawing, Len(slots), equalCut)
           count == Len(slots)
<1>1. /\ count \in {2, 3}
      /\ \A i \in 1..count : slots[i] \in DOMAIN views
      /\ \A i \in 1..count : views[slots[i]] = Trimmed(drawing, r[i], background)
  <2>1. count \in {2, 3}
    BY SlicesType
  <2>2. \A i \in 1..count : slots[i] \in DOMAIN views
    BY SlicesType
  <2>3. \A i \in 1..count : views[slots[i]] = Trimmed(drawing, r[i], background)
    BY SlicesType
  <2> QED
    BY <2>1, <2>2, <2>3
<1>2. count \in Nat /\ x \in Columns
  BY <1>1 DEF Inked
<1>3. /\ \A i \in 1..count : r[i][1] \in 0..Width /\ r[i][2] \in 0..Width
      /\ \A y \in Columns : equalCut \/ NearContent(drawing, y) =>
           \E i \in 1..count : r[i][1] <= y /\ y < r[i][2]
  BY <1>1, RangesCover
<1> HIDE DEF views, r, count
<1>4. PICK i \in 1..count : r[i][1] <= x /\ x < r[i][2]
  BY <1>2, <1>3
<1>5. /\ Trimmed(drawing, r[i], background)[1] <= x
      /\ x < Trimmed(drawing, r[i], background)[2]
  <2>1. r[i][1] \in 0..Width /\ r[i][2] \in 0..Width
    BY <1>3
  <2>2. x \in InkIn(figure, r[i])
    BY <1>4 DEF InkIn
  <2>3. Drawn(figure, drawing, count, background)
    BY DEF count
  <2> QED
    BY <1>2, <2>1, <2>2, <2>3, TrimmedToInk
<1>6. slots[i] \in DOMAIN views /\ views[slots[i]] = Trimmed(drawing, r[i], background)
  BY <1>1
<1> QED
  BY <1>5, <1>6 DEF views

-----------------------------------------------------------------------------
(* Every view shows its own figure.                                         *)

InRange(range, x) == range[1] <= x /\ x < range[2]

(* A sheet that keeps its promise.                                          *)
LEMMA OwnCell ==
  ASSUME NEW figure, NEW drawing, NEW count \in {2, 3}, NEW background \in Backgrounds,
         Drawn(figure, drawing, count, background), InCells(figure, count),
         NEW i \in 1..count, NEW x \in Inked(figure)
  PROVE  figure[x] = i <=> InRange(EqualRanges(Width, count)[i], x)
<1> DEFINE r == EqualRanges(Width, count)
<1>1. x \in Columns /\ x \in Nat /\ Width \in Nat /\ figure[x] \in 1..count
  BY WidthAssumption DEF Inked, Columns, Drawn
<1>2. /\ \A k \in 1..count : r[k][1] \in 0..Width /\ r[k][2] \in 0..Width
      /\ \A k, l \in 1..count : k < l => r[k][2] <= r[l][1]
  BY <1>1, EqualParts
<1>3. ASSUME NEW k \in 1..count, NEW y \in Columns, figure[y] = k
      PROVE  r[k][1] <= y /\ y < r[k][2]
  BY <1>3 DEF InCells, ColumnsOf
<1> HIDE DEF r
<1>4. ASSUME r[i][1] <= x, x < r[i][2]
      PROVE  figure[x] = i
  <2>1. PICK k \in 1..count : figure[x] = k
    BY <1>1
  <2>2. x \in Nat /\ r[k][1] <= x /\ x < r[k][2]
    BY <1>1, <1>3, <2>1
  <2>3. ~(k < i) /\ ~(i < k)
    BY <1>2, <1>4, <2>2
  <2> QED
    BY <2>1, <2>3
<1> QED
  BY <1>1, <1>3, <1>4 DEF r, InRange

(* The padding at either side of a wide gap ends before the other figure.   *)
LEMMA ReachAtGap ==
  ASSUME NEW content \in SUBSET Nat, \A x \in content : x < Width,
         NEW g \in Gaps(content), Size(g) >= 2 * SegmentPadding - 1,
         NEW cuts \in Seq(Nat), NEW k \in 1..Len(cuts), cuts[k] = Middle(g),
         NEW next, next = k + 1, NEW x \in content
  PROVE  /\ x <= g[1] <=> x < Reach(content, cuts, k)[2]
         /\ x >= g[2] <=> Reach(content, cuts, next)[1] <= x
<1>1. /\ g[1] \in content /\ g[2] \in content /\ \A y \in content : y <= g[1] \/ y >= g[2]
      /\ Middle(g) \in Nat /\ g[1] < Middle(g) /\ Middle(g) < g[2]
  BY GapType
<1>2. /\ g[1] \in Nat /\ g[2] \in Nat /\ x \in Nat /\ (x <= g[1] \/ x >= g[2])
      /\ x < Width /\ Width \in Nat /\ SegmentPadding \in Nat
  BY <1>1, WidthAssumption, PaddingAssumption
<1>3. g[2] - g[1] >= 2 * SegmentPadding
  BY <1>2 DEF Size
<1>4. Middle(g) + SegmentPadding <= g[2] /\ g[1] < Middle(g) + 1 - SegmentPadding
  BY <1>2, <1>3, SMTT(30) DEF Middle
<1> DEFINE m == Middle(g)
           right == Reach(content, cuts, k)[2]
           left == Reach(content, cuts, next)[1]
<1>5. RightEdge(content, cuts, k) = m /\ LeftEdge(content, cuts, next) = m + 1
  <2>1. k # Len(cuts) + 1 /\ next # 1 /\ next - 1 = k
    OBVIOUS
  <2> QED
    BY <2>1 DEF RightEdge, LeftEdge
<1> HIDE DEF m
<1>6. m \in Nat /\ g[1] < m /\ m < g[2]
      /\ m + SegmentPadding <= g[2] /\ g[1] < m + 1 - SegmentPadding
  BY <1>1, <1>4 DEF m
<1>7. right = IF Width < m + SegmentPadding THEN Width ELSE m + SegmentPadding
  BY <1>5 DEF Reach
<1>8. left = IF m + 1 - SegmentPadding > 0 THEN m + 1 - SegmentPadding ELSE 0
  BY <1>2, <1>5, <1>6 DEF Reach
<1> HIDE DEF left, right
<1>9. /\ right = Width \/ right = m + SegmentPadding
      /\ right <= m + SegmentPadding /\ (x < m => x < right)
  BY <1>2, <1>6, <1>7
<1>10. /\ left = 0 \/ left = m + 1 - SegmentPadding
       /\ left >= m + 1 - SegmentPadding /\ (x > m => left <= x)
  BY <1>2, <1>6, <1>8
<1>11. x <= g[1] <=> x < right
  BY <1>2, <1>6, <1>9, SMTT(30)
<1>12. x >= g[2] <=> left <= x
  BY <1>2, <1>6, <1>10
<1> QED
  BY <1>11, <1>12 DEF right, left

(* The outermost ranges reach over all the content before and after.        *)
LEMMA ReachAtEnds ==
  ASSUME NEW content \in SUBSET Nat, \A x \in content : x < Width,
         NEW cuts \in Seq(Nat), NEW x \in content
  PROVE  Reach(content, cuts, 1)[1] <= x /\ x < Reach(content, cuts, Len(cuts) + 1)[2]
<1>1. x \in Nat /\ Width \in Nat /\ SegmentPadding \in Nat /\ x < Width
  BY WidthAssumption, PaddingAssumption
<1>2. \A y \in content : y <= Width
  BY <1>1
<1>3. /\ Min(content) \in content /\ \A y \in content : Min(content) <= y
      /\ Max(content) \in content /\ \A y \in content : Max(content) >= y
  BY <1>1, <1>2, MinMaxType
<1>4. Min(content) \in Nat /\ Max(content) \in Nat /\ Min(content) <= x /\ x <= Max(content)
  BY <1>3
<1>5. Reach(content, cuts, 1)[1] <= x
  BY <1>1, <1>4 DEF Reach, LeftEdge
<1>6. x < Reach(content, cuts, Len(cuts) + 1)[2]
  BY <1>1, <1>4 DEF Reach, RightEdge
<1> QED
  BY <1>5, <1>6

(* The gaps between the figures, if they are count - 1 and wider than the   *)
(* others, are the widest ones.                                             *)
LEMMA WidestAreBetween ==
  ASSUME NEW content \in SUBSET Nat, IsFiniteSet(content), NEW n \in Nat,
         NEW between \in SUBSET Gaps(content), Cardinality(between) = n,
         \A g \in between : \A h \in Gaps(content) \ between : Size(g) > Size(h)
  PROVE  Widest(Gaps(content), n) = between
<1> DEFINE G == Gaps(content)
           ahead(g) == {h \in G : Before(h, g)}
<1>1. IsFiniteSet(G) /\ IsFiniteSet(between)
  BY GapsFinite, FS_Subset
<1>2. \A g \in G : Size(g) \in Nat /\ g[1] \in Nat
  BY GapType
<1>3. ASSUME NEW g \in between
      PROVE  Cardinality(ahead(g)) < n
  <2>1. IsFiniteSet(between \ {g}) /\ Cardinality(between \ {g}) = n - 1
    BY <1>1, FS_RemoveElement
  <2>2. ahead(g) \in SUBSET (between \ {g})
    <3>1. ASSUME NEW h \in G, Before(h, g)
          PROVE  h \in between \ {g}
      <4>1. Size(h) \in Nat /\ Size(g) \in Nat /\ h[1] \in Nat /\ g[1] \in Nat
        BY <1>2
      <4>2. h # g
        BY <3>1, <4>1 DEF Before
      <4>3. h \in between
        BY <3>1, <4>1 DEF Before
      <4> QED
        BY <4>2, <4>3
    <3> QED
      BY <3>1
  <2> HIDE DEF ahead
  <2>3. IsFiniteSet(ahead(g)) /\ Cardinality(ahead(g)) <= n - 1
    BY <2>1, <2>2, FS_Subset
  <2>4. Cardinality(ahead(g)) \in Nat
    BY <2>3, FS_CardinalityType
  <2> QED
    BY <2>3, <2>4
<1>4. ASSUME NEW g \in G \ between
      PROVE  ~(Cardinality(ahead(g)) < n)
  <2>1. between \in SUBSET ahead(g)
    BY DEF Before
  <2>2. IsFiniteSet(ahead(g))
    <3>1. ahead(g) \in SUBSET G
      OBVIOUS
    <3> HIDE DEF ahead
    <3> QED
      BY <1>1, <3>1, FS_Subset
  <2> HIDE DEF ahead
  <2>3. n <= Cardinality(ahead(g)) /\ Cardinality(ahead(g)) \in Nat
    BY <2>1, <2>2, FS_Subset, FS_CardinalityType
  <2> QED
    BY <2>3
<1>5. Widest(G, n) = {g \in G : Cardinality(ahead(g)) < n}
  BY DEF Widest
<1> HIDE DEF ahead
<1> QED
  BY <1>3, <1>4, <1>5

Between(figure, content) == {g \in Gaps(content) : figure[g[1]] # figure[g[2]]}

(* Figures that are far enough apart.                                       *)
Apart(figure, content, count) ==
  /\ Cardinality(Between(figure, content)) = count - 1
  /\ \A g \in Between(figure, content) :
       /\ Size(g) >= 2 * SegmentPadding - 1
       /\ \A h \in Gaps(content) \ Between(figure, content) : Size(g) > Size(h)

(* The first figure ends where the first gap between figures begins, and so *)
(* on: that many gaps leave no figure out.                                  *)
LEMMA FigureEnds ==
  ASSUME NEW figure, NEW drawing, NEW count \in Nat, NEW background \in Backgrounds,
         Drawn(figure, drawing, count, background),
         NEW g \in Between(figure, Content(drawing))
  PROVE  /\ g \in Gaps(Content(drawing))
         /\ figure[g[1]] \in 1..count /\ figure[g[2]] \in 1..count
         /\ figure[g[1]] < figure[g[2]]
         /\ \A x \in Content(drawing) : x <= g[1] => figure[x] <= figure[g[1]]
         /\ \A x \in Content(drawing) : x >= g[1] => figure[x] >= figure[g[1]]
         /\ \A x \in Content(drawing) : x <= g[2] => figure[x] <= figure[g[2]]
         /\ \A x \in Content(drawing) : x >= g[2] => figure[x] >= figure[g[2]]
<1> DEFINE content == Content(drawing)
<1>0. content \in SUBSET Nat
  BY ContentOfFigures
<1>1. \A x \in content : x \in Nat /\ figure[x] \in 1..count
  BY ContentOfFigures
<1>2. \A x, y \in content : x <= y => figure[x] <= figure[y]
  <2>1. content \in SUBSET Inked(figure)
    BY ContentOfFigures
  <2> QED
    BY <2>1 DEF Drawn, Inked
<1>3. g \in Gaps(content) /\ figure[g[1]] # figure[g[2]]
  BY DEF Between
<1> HIDE DEF content
<1>4. g[1] \in content /\ g[2] \in content /\ g[1] < g[2]
  <2>1. /\ g[1] \in content /\ g[2] \in content
        /\ Middle(g) \in Nat /\ g[1] < Middle(g) /\ Middle(g) < g[2]
    BY <1>0, <1>3, GapType
  <2>2. g[1] \in Nat /\ g[2] \in Nat
    BY <1>1, <2>1
  <2> QED
    BY <2>1, <2>2
<1>5. figure[g[1]] \in 1..count /\ figure[g[2]] \in 1..count /\ figure[g[1]] <= figure[g[2]]
  <2>1. figure[g[1]] \in 1..count /\ figure[g[2]] \in 1..count
    BY <1>1, <1>4
  <2>2. g[1] <= g[2]
    BY <1>1, <1>4
  <2> QED
    BY <1>2, <1>4, <2>1, <2>2
<1>6. \A x \in content : x <= g[1] => figure[x] <= figure[g[1]]
  BY <1>2, <1>4
<1>7. \A x \in content : x >= g[1] => figure[x] >= figure[g[1]]
  BY <1>1, <1>2, <1>4
<1>8. \A x \in content : x <= g[2] => figure[x] <= figure[g[2]]
  BY <1>2, <1>4
<1>9. \A x \in content : x >= g[2] => figure[x] >= figure[g[2]]
  BY <1>1, <1>2, <1>4
<1>10. figure[g[1]] < figure[g[2]]
  BY <1>3, <1>5
<1> QED
  BY <1>3, <1>5, <1>6, <1>7, <1>8, <1>9, <1>10 DEF content

(* The gaps of two or of three figures that are far enough apart, from left *)
(* to right.                                                                *)
LEMMA OneGap ==
  ASSUME NEW figure, NEW drawing, NEW background \in Backgrounds,
         Drawn(figure, drawing, 2, background), Apart(figure, Content(drawing), 2)
  PROVE  \E g \in Between(figure, Content(drawing)) :
           /\ \A x \in Content(drawing) : figure[x] = 1 <=> x <= g[1]
           /\ \A x \in Content(drawing) : figure[x] = 2 <=> x >= g[2]
<1> DEFINE content == Content(drawing)
           B == Between(figure, content)
<1>1. /\ content \in SUBSET Nat /\ IsFiniteSet(content)
      /\ \A x \in content : figure[x] \in 1..2
  BY ContentOfFigures
<1> HIDE DEF content
<1>2. Cardinality(B) = 1 /\ IsFiniteSet(B)
  <2>1. B \in SUBSET Gaps(content) /\ IsFiniteSet(Gaps(content))
    BY <1>1, GapsFinite DEF Between
  <2>2. Cardinality(B) = 1
    BY DEF Apart, content
  <2> HIDE DEF B
  <2> QED
    BY <2>1, <2>2, FS_Subset
<1> HIDE DEF B
<1>3. PICK g \in B : TRUE
  BY <1>2, FS_EmptySet
<1>4. /\ g \in Gaps(content) /\ figure[g[1]] \in 1..2 /\ figure[g[2]] \in 1..2
      /\ figure[g[1]] < figure[g[2]]
      /\ \A x \in content : x <= g[1] => figure[x] <= figure[g[1]]
      /\ \A x \in content : x >= g[2] => figure[x] >= figure[g[2]]
  BY <1>3, FigureEnds DEF B, content
<1>5. figure[g[1]] = 1 /\ figure[g[2]] = 2
  BY <1>4
<1>6. \A x \in content : x <= g[1] \/ x >= g[2]
  BY <1>1, <1>4, GapType
<1>7. ASSUME NEW x \in content
      PROVE  (figure[x] = 1 <=> x <= g[1]) /\ (figure[x] = 2 <=> x >= g[2])
  BY <1>1, <1>4, <1>5, <1>6
<1> QED
  BY <1>3, <1>7 DEF B, content

LEMMA TwoGaps ==
  ASSUME NEW figure, NEW drawing, NEW background \in Backgrounds,
         Drawn(figure, drawing, 3, background), Apart(figure, Content(drawing), 3)
  PROVE  \E g, h \in Between(figure, Content(drawing)) :
           /\ g[2] <= h[1]
           /\ \A x \in Content(drawing) : figure[x] = 1 <=> x <= g[1]
           /\ \A x \in Content(drawing) : figure[x] = 2 <=> x >= g[2] /\ x <= h[1]
           /\ \A x \in Content(drawing) : figure[x] = 3 <=> x >= h[2]
<1> DEFINE content == Content(drawing)
           B == Between(figure, content)
<1>1. /\ content \in SUBSET Nat /\ IsFiniteSet(content)
      /\ \A x \in content : figure[x] \in 1..3
  BY ContentOfFigures
<1> HIDE DEF content
<1>2. Cardinality(B) = 2 /\ IsFiniteSet(B) /\ B \in SUBSET Gaps(content)
  <2>1. B \in SUBSET Gaps(content) /\ IsFiniteSet(Gaps(content))
    BY <1>1, GapsFinite DEF Between
  <2>2. Cardinality(B) = 2
    BY DEF Apart, content
  <2> HIDE DEF B
  <2> QED
    BY <2>1, <2>2, FS_Subset
<1> HIDE DEF B
<1>3. PICK a \in B : TRUE
  BY <1>2, FS_EmptySet
<1>4. IsFiniteSet(B \ {a}) /\ Cardinality(B \ {a}) = 1
  BY <1>2, <1>3, FS_RemoveElement
<1>5. PICK b \in B \ {a} : TRUE
  BY <1>4, FS_EmptySet
<1>6. PICK g \in B, h \in B : g[2] <= h[1]
  <2>1. a[2] <= b[1] \/ b[2] <= a[1]
    BY <1>1, <1>2, <1>3, <1>5, GapsApart
  <2> QED
    BY <1>3, <1>5, <2>1
<1>7. /\ g \in Gaps(content) /\ figure[g[1]] \in 1..3 /\ figure[g[2]] \in 1..3
      /\ figure[g[1]] < figure[g[2]]
      /\ \A x \in content : x <= g[1] => figure[x] <= figure[g[1]]
      /\ \A x \in content : x >= g[2] => figure[x] >= figure[g[2]]
  BY <1>6, FigureEnds DEF B, content
<1>8. /\ h \in Gaps(content) /\ figure[h[1]] \in 1..3 /\ figure[h[2]] \in 1..3
      /\ figure[h[1]] < figure[h[2]]
      /\ \A x \in content : x <= h[1] => figure[x] <= figure[h[1]]
      /\ \A x \in content : x >= h[2] => figure[x] >= figure[h[2]]
  BY <1>6, FigureEnds DEF B, content
<1>9. /\ \A x \in content : x <= g[1] \/ x >= g[2]
      /\ \A x \in content : x <= h[1] \/ x >= h[2]
      /\ g[2] \in content /\ h[1] \in content
      /\ g[1] \in Nat /\ g[2] \in Nat /\ g[1] < g[2]
      /\ h[1] \in Nat /\ h[2] \in Nat /\ h[1] < h[2]
  <2>1. /\ g[1] \in content /\ g[2] \in content /\ Middle(g) \in Nat
        /\ g[1] < Middle(g) /\ Middle(g) < g[2]
        /\ \A x \in content : x <= g[1] \/ x >= g[2]
    BY <1>1, <1>7, GapType
  <2>2. /\ h[1] \in content /\ h[2] \in content /\ Middle(h) \in Nat
        /\ h[1] < Middle(h) /\ Middle(h) < h[2]
        /\ \A x \in content : x <= h[1] \/ x >= h[2]
    BY <1>1, <1>8, GapType
  <2>3. /\ g[1] \in Nat /\ g[2] \in Nat /\ h[1] \in Nat /\ h[2] \in Nat
    BY <1>1, <2>1, <2>2
  <2> QED
    BY <2>1, <2>2, <2>3
<1>10. figure[g[2]] <= figure[h[1]]
  BY <1>6, <1>8, <1>9
<1>11. figure[g[1]] = 1 /\ figure[g[2]] = 2 /\ figure[h[1]] = 2 /\ figure[h[2]] = 3
  BY <1>7, <1>8, <1>10
<1>12. ASSUME NEW x \in content
       PROVE  /\ figure[x] = 1 <=> x <= g[1]
              /\ figure[x] = 2 <=> x >= g[2] /\ x <= h[1]
              /\ figure[x] = 3 <=> x >= h[2]
  <2>1. /\ x \in Nat /\ figure[x] \in 1..3
        /\ x <= g[1] \/ x >= g[2]
        /\ x <= h[1] \/ x >= h[2]
        /\ x <= g[1] => figure[x] <= 1
        /\ x >= g[2] => figure[x] >= 2
        /\ x <= h[1] => figure[x] <= 2
        /\ x >= h[2] => figure[x] >= 3
    BY <1>1, <1>7, <1>8, <1>9, <1>11
  <2> QED
    BY <1>6, <1>9, <2>1
<1> QED
  BY <1>6, <1>12 DEF B, content

(* Such a sheet is measured, at the gaps between the figures.               *)
LEMMA CutBetween ==
  ASSUME NEW figure, NEW drawing, NEW count \in {2, 3}, NEW background \in Backgrounds,
         Drawn(figure, drawing, count, background), Apart(figure, Content(drawing), count)
  PROVE  LET content == Content(drawing)
             cuts == Separators(Between(figure, content))
         IN  /\ MeasuredRanges(drawing, count) # {}
             /\ CutAt(content, Between(figure, content), cuts) /\ Len(cuts) = count - 1
             /\ \A i \in 1..count : CutOut(drawing, count)[i] = Reach(content, cuts, i)
<1> DEFINE content == Content(drawing)
           B == Between(figure, content)
           cuts == Separators(B)
           first == Min(content)
           last == Max(content)
<1>1. /\ content \in SUBSET Nat /\ IsFiniteSet(content) /\ Width \in Nat
      /\ \A x \in content : x < Width
  BY ContentOfFigures
<1>2. /\ B \in SUBSET Gaps(content) /\ Cardinality(B) = count - 1
      /\ \A g \in B : \A h \in Gaps(content) \ B : Size(g) > Size(h)
  <2>1. B \in SUBSET Gaps(content)
    BY DEF Between
  <2>2. Cardinality(B) = count - 1 /\ \A g \in B : \A h \in Gaps(content) \ B : Size(g) > Size(h)
    BY DEF Apart
  <2> QED
    BY <2>1, <2>2
<1>3. Widest(Gaps(content), count - 1) = B
  <2>1. count - 1 \in Nat
    OBVIOUS
  <2> HIDE DEF B, content
  <2> QED
    BY <1>1, <1>2, <2>1, WidestAreBetween
<1>4. Cardinality(Gaps(content)) >= count - 1
  <2>1. IsFiniteSet(Gaps(content))
    BY <1>1, GapsFinite
  <2> HIDE DEF B, content
  <2>2. Cardinality(B) <= Cardinality(Gaps(content))
    BY <1>2, <2>1, FS_Subset
  <2>3. Cardinality(Gaps(content)) \in Nat
    BY <2>1, FS_CardinalityType
  <2> QED
    BY <1>2, <2>2, <2>3
<1>5. \A g \in Gaps(content) : /\ first \in Nat /\ last \in Nat /\ content # {}
                           /\ g[1] \in Nat /\ g[2] \in Nat
                           /\ first <= g[1] /\ g[1] + 1 < g[2] /\ g[2] <= last
  <2>1. SUFFICES ASSUME NEW g \in Gaps(content)
                 PROVE  /\ first \in Nat /\ last \in Nat /\ content # {}
                        /\ g[1] \in Nat /\ g[2] \in Nat
                        /\ first <= g[1] /\ g[1] + 1 < g[2] /\ g[2] <= last
    OBVIOUS
  <2>2. g[1] \in content /\ g[2] \in content /\ g[1] + 1 < g[2]
    BY DEF Gaps
  <2>3. content # {} /\ \A x \in content : x <= Width
    BY <1>1, <2>2
  <2> HIDE DEF content
  <2>4. /\ first \in content /\ \A x \in content : first <= x
        /\ last \in content /\ \A x \in content : last >= x
    BY <1>1, <2>3, MinMaxType
  <2> QED
    BY <1>1, <2>2, <2>3, <2>4
<1>6. content # {} /\ ~(last - first < count)
  <2>1. CASE count = 2
    <3>1. PICK g \in B : TRUE
      BY <2>1, OneGap
    <3>2. g \in Gaps(content)
      BY <1>2, <3>1
    <3> HIDE DEF first, last, content
    <3> QED
      BY <1>5, <2>1, <3>2
  <2>2. CASE count = 3
    <3>1. PICK g \in B, h \in B : g[2] <= h[1]
      BY <2>2, TwoGaps
    <3>2. g \in Gaps(content) /\ h \in Gaps(content)
      BY <1>2, <3>1
    <3> HIDE DEF first, last, content
    <3> QED
      BY <1>5, <2>2, <3>1, <3>2
  <2> QED
    BY <2>1, <2>2
<1>7. MeasuredRanges(drawing, count) # {}
  <2>1. ~(content = {} \/ last - first < count \/ Cardinality(Gaps(content)) < count - 1)
    <3>1. Cardinality(Gaps(content)) \in Nat
      BY <1>1, GapsFinite, FS_CardinalityType
    <3> QED
      BY <1>4, <1>6, <3>1
  <2> QED
    BY <2>1 DEF MeasuredRanges
<1>8. /\ CutAt(content, B, cuts) /\ Len(cuts) = count - 1
      /\ \A i \in 1..count : CutOut(drawing, count)[i] = Reach(content, cuts, i)
  <2> DEFINE W == Widest(Gaps(content), count - 1)
             c == Separators(W)
  <2>1. CutAt(content, W, c) /\ Len(c) = count - 1
    BY <1>7, MeasuredCuts
  <2>2. \A i \in 1..count : CutOut(drawing, count)[i] = Reach(content, c, i)
    BY <1>7, MeasuredCuts, SMTT(30)
  <2> HIDE DEF content, B
  <2> QED
    BY <1>3, <2>1, <2>2
<1> QED
  BY <1>7, <1>8

LEMMA OwnRange ==
  ASSUME NEW figure, NEW drawing, NEW count \in {2, 3}, NEW background \in Backgrounds,
         Drawn(figure, drawing, count, background), Apart(figure, Content(drawing), count),
         NEW i \in 1..count, NEW x \in Content(drawing)
  PROVE  figure[x] = i <=> /\ CutOut(drawing, count)[i][1] <= x
                           /\ x < CutOut(drawing, count)[i][2]
<1> DEFINE content == Content(drawing)
           B == Between(figure, content)
           cuts == Separators(B)
           r == CutOut(drawing, count)
<1>1. /\ content \in SUBSET Nat /\ Width \in Nat /\ \A y \in content : y < Width
  BY ContentOfFigures
<1>2. CutAt(content, B, cuts) /\ Len(cuts) = count - 1 /\ \A k \in 1..count : r[k] = Reach(content, cuts, k)
  <2>1. CutAt(content, B, cuts) /\ Len(cuts) = count - 1
    BY CutBetween
  <2>2. \A k \in 1..count : r[k] = Reach(content, cuts, k)
    BY CutBetween
  <2> QED
    BY <2>1, <2>2
<1>3. \A g \in B : g \in Gaps(content) /\ Size(g) >= 2 * SegmentPadding - 1
  BY DEF Apart, Between
<1> HIDE DEF cuts, r
<1>4. /\ cuts \in Seq(Nat) /\ DOMAIN cuts = 1..(count - 1)
      /\ \A k \in 1..(count - 1) : cuts[k] \in Nat
      /\ \A k, l \in 1..(count - 1) : k < l => cuts[k] < cuts[l]
      /\ \A g \in B : \E k \in 1..(count - 1) : cuts[k] = Middle(g)
  <2>1. cuts \in Seq(Nat)
    BY <1>2 DEF CutAt
  <2>2. DOMAIN cuts = 1..(count - 1) /\ \A k \in 1..(count - 1) : cuts[k] \in Nat
    BY <1>2, <2>1
  <2> QED
    BY <1>2, <2>1, <2>2 DEF CutAt
<1>5. r[1][1] <= x /\ x < r[count][2]
  <2>1. Reach(content, cuts, 1)[1] <= x /\ x < Reach(content, cuts, Len(cuts) + 1)[2]
    BY <1>1, <1>4, ReachAtEnds
  <2> QED
    BY <1>2, <2>1
<1>6. ASSUME NEW g \in B, NEW k \in 1..(count - 1), cuts[k] = Middle(g)
      PROVE  (x <= g[1] <=> x < r[k][2]) /\ (x >= g[2] <=> r[k + 1][1] <= x)
  <2>1. k \in 1..Len(cuts) /\ k \in 1..count /\ k + 1 \in 1..count
    BY <1>2
  <2>2. /\ x <= g[1] <=> x < Reach(content, cuts, k)[2]
        /\ x >= g[2] <=> Reach(content, cuts, k + 1)[1] <= x
    BY <1>1, <1>3, <1>4, <1>6, <2>1, ReachAtGap
  <2> QED
    BY <1>2, <2>1, <2>2
<1>7. CASE count = 2
  <2>1. PICK g \in B : (figure[x] = 1 <=> x <= g[1]) /\ (figure[x] = 2 <=> x >= g[2])
    BY <1>7, OneGap
  <2>2. cuts[1] = Middle(g)
    BY <1>4, <1>7
  <2>3. (x <= g[1] <=> x < r[1][2]) /\ (x >= g[2] <=> r[2][1] <= x)
    BY <1>6, <1>7, <2>2
  <2>4. i \in {1, 2} /\ r[1][1] <= x /\ x < r[2][2]
    BY <1>5, <1>7
  <2>5. figure[x] = i <=> r[i][1] <= x /\ x < r[i][2]
    <3>1. CASE i = 1
      BY <2>1, <2>3, <2>4, <3>1
    <3>2. CASE i = 2
      BY <2>1, <2>3, <2>4, <3>2
    <3> QED
      BY <2>4, <3>1, <3>2
  <2> QED
    BY <2>5 DEF r
<1>8. CASE count = 3
  <2>1. PICK g \in B, h \in B :
          /\ g[2] <= h[1]
          /\ figure[x] = 1 <=> x <= g[1]
          /\ figure[x] = 2 <=> x >= g[2] /\ x <= h[1]
          /\ figure[x] = 3 <=> x >= h[2]
    BY <1>8, TwoGaps
  <2>2. /\ Middle(g) \in Nat /\ g[1] \in Nat /\ g[2] \in Nat /\ Middle(g) < g[2]
        /\ Middle(h) \in Nat /\ h[1] \in Nat /\ h[2] \in Nat /\ h[1] < Middle(h)
    <3>1. g \in Gaps(content) /\ h \in Gaps(content)
      BY <1>3
    <3>2. g[1] \in content /\ g[2] \in content /\ Middle(g) \in Nat /\ Middle(g) < g[2]
      BY <1>1, <3>1, GapType
    <3>3. h[1] \in content /\ h[2] \in content /\ Middle(h) \in Nat /\ h[1] < Middle(h)
      BY <1>1, <3>1, GapType
    <3> QED
      BY <1>1, <3>2, <3>3
  <2>3. Middle(g) < Middle(h)
    BY <2>1, <2>2
  <2>4. PICK k \in 1..2 : cuts[k] = Middle(g)
    BY <1>4, <1>8
  <2>5. PICK l \in 1..2 : cuts[l] = Middle(h)
    BY <1>4, <1>8
  <2>6. k = 1 /\ l = 2
    BY <1>4, <1>8, <2>2, <2>3, <2>4, <2>5
  <2>7. (x <= g[1] <=> x < r[1][2]) /\ (x >= g[2] <=> r[2][1] <= x)
    BY <1>6, <1>8, <2>4, <2>6
  <2>8. (x <= h[1] <=> x < r[2][2]) /\ (x >= h[2] <=> r[3][1] <= x)
    BY <1>6, <1>8, <2>5, <2>6
  <2>9. i \in {1, 2, 3} /\ r[1][1] <= x /\ x < r[3][2]
    BY <1>5, <1>8
  <2>10. figure[x] = i <=> r[i][1] <= x /\ x < r[i][2]
    <3>1. CASE i = 1
      BY <2>1, <2>7, <2>9, <3>1
    <3>2. CASE i = 2
      BY <2>1, <2>7, <2>8, <3>2
    <3>3. CASE i = 3
      BY <2>1, <2>8, <2>9, <3>3
    <3> QED
      BY <2>9, <3>1, <3>2, <3>3
  <2> QED
    BY <2>10 DEF r
<1> QED
  BY <1>7, <1>8

(* The figures do not get into each other's views.                           *)
Separate(figure, drawing, count, equalCut) ==
  IF equalCut THEN InCells(figure, count) ELSE Apart(figure, Content(drawing), count)

(* What the slicer is bound to see.                                         *)
ClearOf(figure, drawing, equalCut) == IF equalCut THEN Inked(figure) ELSE Content(drawing)

(* The view of a figure has its clear columns and none of the others, and   *)
(* begins and ends where something is drawn.                                *)
ShowsOwn(figure, drawing, equalCut, view, i) ==
  /\ \A x \in ClearOf(figure, drawing, equalCut) :
       figure[x] = i <=> view[1] <= x /\ x < view[2]
  /\ {view[1], view[2] - 1} \subseteq Inked(figure)

Counts == {2, 3}

LEMMA OwnColumns ==
  ASSUME NEW figure, NEW drawing, NEW count \in Counts, NEW background \in Backgrounds,
         Drawn(figure, drawing, count, background), NEW equalCut,
         Separate(figure, drawing, count, equalCut), NEW i \in 1..count
  PROVE  \A x \in ClearOf(figure, drawing, equalCut) :
           figure[x] = i <=> InRange(Ranges(drawing, count, equalCut)[i], x)
<1> TAKE x \in ClearOf(figure, drawing, equalCut)
<1>0. count \in {2, 3}
  BY DEF Counts
<1>1. CASE equalCut
  <2>1. Ranges(drawing, count, equalCut) = EqualRanges(Width, count)
    BY <1>1, RangesCases, <1>0
  <2>2. InCells(figure, count) /\ x \in Inked(figure)
    BY <1>1 DEF Separate, ClearOf
  <2>3. figure[x] = i <=> InRange(EqualRanges(Width, count)[i], x)
    BY <1>0, <2>2, OwnCell
  <2> QED
    BY <2>1, <2>3
<1>2. CASE ~equalCut
  <2>1. Ranges(drawing, count, equalCut) = CutOut(drawing, count)
    BY <1>2 DEF Ranges, CutOut
  <2>2. Apart(figure, Content(drawing), count) /\ x \in Content(drawing)
    BY <1>2 DEF Separate, ClearOf
  <2>3. figure[x] = i <=> InRange(CutOut(drawing, count)[i], x)
    BY <1>0, <2>2, OwnRange DEF InRange
  <2> QED
    BY <2>1, <2>3
<1> QED
  BY <1>1, <1>2

LEMMA OwnFigureShown ==
  ASSUME NEW figure, NEW drawing, NEW slots \in Layouts, NEW background \in Backgrounds,
         Drawn(figure, drawing, Len(slots), background), NEW equalCut,
         Separate(figure, drawing, Len(slots), equalCut), NEW i \in 1..Len(slots),
         \E x \in ClearOf(figure, drawing, equalCut) : figure[x] = i
  PROVE  ShowsOwn(figure, drawing, equalCut,
                  Slices(drawing, slots, background, equalCut)[slots[i]], i)
<1> DEFINE count == Len(slots)
           r == Ranges(drawing, count, equalCut)
           clear == ClearOf(figure, drawing, equalCut)
           view == Trimmed(drawing, r[i], background)
<1>1. count \in {2, 3} /\ count \in Nat
  BY DEF Layouts
<1>2. Slices(drawing, slots, background, equalCut)[slots[i]] = view
  BY SlicesType
<1>3. PICK own \in clear : figure[own] = i
  OBVIOUS
<1> HIDE DEF count
<1>4. Drawn(figure, drawing, count, background) /\ i \in 1..count
  BY DEF count
<1>5. r[i][1] \in 0..Width /\ r[i][2] \in 0..Width
  BY <1>1, <1>4, RangesCover
<1>6. clear \in SUBSET Inked(figure) /\ Inked(figure) \in SUBSET Nat
  <2>1. Content(drawing) \in SUBSET Inked(figure)
    BY <1>1, <1>4, ContentOfFigures
  <2> QED
    BY <2>1, WidthAssumption DEF ClearOf, Inked, Columns
<1>7. \A x \in clear : figure[x] = i <=> InRange(r[i], x)
  <2>1. Len(slots) \in Counts
    BY DEF Layouts, Counts
  <2> QED
    BY <2>1, OwnColumns DEF count
<1> HIDE DEF r, clear, view
<1>8. own \in InkIn(figure, r[i])
  BY <1>3, <1>6, <1>7 DEF InkIn, InRange
<1>9. /\ view[1] \in InkIn(figure, r[i]) /\ view[2] - 1 \in InkIn(figure, r[i])
      /\ view[2] \in Nat
      /\ \A x \in InkIn(figure, r[i]) : view[1] <= x /\ x < view[2]
  BY <1>1, <1>4, <1>5, <1>8, TrimmedToInk DEF view
<1>10. /\ view[1] \in Inked(figure) /\ r[i][1] <= view[1]
       /\ view[2] - 1 \in Inked(figure) /\ view[2] - 1 < r[i][2]
  BY <1>9 DEF InkIn
<1>11. ASSUME NEW x \in clear
       PROVE  figure[x] = i <=> view[1] <= x /\ x < view[2]
  <2>1. x \in Nat /\ x \in Inked(figure) /\ view[1] \in Nat
    BY <1>6, <1>10
  <2>2. CASE r[i][1] <= x /\ x < r[i][2]
    <3>1. x \in InkIn(figure, r[i])
      BY <2>1, <2>2 DEF InkIn
    <3> QED
      BY <1>7, <1>9, <2>2, <3>1 DEF InRange
  <2>3. CASE ~(r[i][1] <= x /\ x < r[i][2])
    <3>1. ~(view[1] <= x /\ x < view[2])
      BY <1>5, <1>9, <1>10, <2>1, <2>3
    <3> QED
      BY <1>7, <2>3, <3>1 DEF InRange
  <2> QED
    BY <2>2, <2>3
<1> QED
  BY <1>2, <1>10, <1>11 DEF ShowsOwn, clear

(* Figures in a row are numbered from the left, whichever of them is missing. *)
LEMMA RowsInOrder ==
  ASSUME NEW count \in Nat \ {0}, NEW figure \in Rows(count)
  PROVE  /\ figure \in [Columns -> 0..count]
         /\ \A x, y \in Columns : x <= y /\ figure[x] # 0 /\ figure[y] # 0 => figure[x] <= figure[y]
<1>1. PICK ink \in SUBSET Columns, ends \in [1..(count - 1) -> Columns] : figure = InARow(ink, ends)
  BY DEF Rows
<1> DEFINE ended(x) == {i \in 1..(count - 1) : ends[i] <= x}
<1>2. IsFiniteSet(1..(count - 1)) /\ Cardinality(1..(count - 1)) = count - 1
  <2>1. 1 \in Int /\ count - 1 \in Int
    OBVIOUS
  <2>2. /\ IsFiniteSet(1..(count - 1))
        /\ Cardinality(1..(count - 1)) = IF 1 > count - 1 THEN 0 ELSE count - 1 - 1 + 1
    BY <2>1, FS_Interval
  <2> QED
    BY <2>2
<1>3. ASSUME NEW x \in Columns
      PROVE  /\ IsFiniteSet(ended(x)) /\ Cardinality(ended(x)) \in 0..(count - 1)
             /\ figure[x] = IF x \in ink THEN 1 + Cardinality(ended(x)) ELSE 0
  <2>1. ended(x) \in SUBSET (1..(count - 1))
    OBVIOUS
  <2>2. IsFiniteSet(ended(x)) /\ Cardinality(ended(x)) <= Cardinality(1..(count - 1))
    <3> HIDE DEF ended
    <3> QED
      BY <1>2, <2>1, FS_Subset
  <2>3. Cardinality(ended(x)) \in Nat
    BY <2>2, FS_CardinalityType
  <2>4. figure[x] = IF x \in ink THEN 1 + Cardinality(ended(x)) ELSE 0
    <3>1. DOMAIN ends = 1..(count - 1)
      OBVIOUS
    <3> QED
      BY <1>1, <3>1 DEF InARow
  <2> QED
    BY <1>2, <2>2, <2>3, <2>4
<1>4. figure \in [Columns -> 0..count]
  <2>1. \A x \in Columns : figure[x] \in 0..count
    <3> HIDE DEF ended
    <3> QED
      BY <1>3
  <2>2. figure = [x \in Columns |-> figure[x]]
    BY <1>1 DEF InARow
  <2> QED
    BY <2>1, <2>2
<1>5. ASSUME NEW x \in Columns, NEW y \in Columns, x <= y, figure[x] # 0, figure[y] # 0
      PROVE  figure[x] <= figure[y]
  <2>1. ended(x) \in SUBSET ended(y)
    <3>1. \A i \in 1..(count - 1) : ends[i] \in Int
      BY WidthAssumption DEF Columns
    <3>2. x \in Int /\ y \in Int
      BY WidthAssumption DEF Columns
    <3> QED
      BY <1>5, <3>1, <3>2
  <2> HIDE DEF ended
  <2>2. Cardinality(ended(x)) <= Cardinality(ended(y))
    BY <1>3, <2>1, FS_Subset
  <2> QED
    BY <1>3, <1>5, <2>2
<1> QED
  BY <1>4, <1>5

(* The profile of a sheet is one of the layouts.                             *)
LEMMA LayoutType ==
  ASSUME Supported
  PROVE  Layout \in Layouts /\ Background \in Backgrounds
<1>1. Background \in Backgrounds
  BY DEF Background, Backgrounds
<1>2. CASE Legacy
  <2>1. Layout = SheetLayout(job.kind)
    BY <1>2 DEF Layout
  <2>2. SheetLayout(job.kind) \in Layouts
    <3>1. CASE job.kind = "prop"
      BY <3>1 DEF SheetLayout, Layouts
    <3>2. CASE job.kind # "prop"
      BY <3>2 DEF SheetLayout, Layouts
    <3> QED
      BY <3>1, <3>2
  <2> QED
    BY <1>1, <2>1, <2>2
<1>3. CASE ~Legacy
  <2>1. DOMAIN Profiles = {"v1"} /\ Profiles["v1"] = <<"front", "left", "back">>
    BY DEF Profiles
  <2>2. SheetVersion \in {"v1"}
    <3>1. job.sheet.formatVersion \subseteq {"v1"}
      BY <2>1 DEF Supported
    <3>2. job.sheet.formatVersion # {}
      BY <1>3 DEF Legacy
    <3> QED
      BY <3>1, <3>2 DEF SheetVersion
  <2>3. Layout = Profiles[SheetVersion]
    BY <1>3 DEF Layout
  <2>4. Layout = <<"front", "left", "back">>
    BY <2>1, <2>2, <2>3
  <2> QED
    BY <1>1, <2>4 DEF Layouts
<1> QED
  BY <1>1, <1>2, <1>3

(* The sheets that the slicer may get are drawn as it expects.               *)
LEMMA DrawingsDrawn ==
  ASSUME Supported, NEW drawing \in Drawings(Len(Layout))
  PROVE  /\ Drawn(drawing.figure, drawing, Len(Layout), Background)
         /\ job.sheet.normalized => InCells(drawing.figure, Len(Layout))
<1>1. Len(Layout) \in {2, 3} /\ Background \in Backgrounds
  BY LayoutType DEF Layouts
<1> DEFINE count == Len(Layout)
<1> HIDE DEF count
<1>2. count \in Nat \ {0}
  BY <1>1 DEF count
<1>3. PICK figure \in {f \in Rows(count) : job.sheet.normalized => InCells(f, count)},
           shade \in [1..count -> {Line, Gray}] :
             drawing.figure = figure /\ drawing.luminance = Luminance(figure, shade)
  BY DEF count, Drawings
<1>4. /\ figure \in [Columns -> 0..count]
      /\ \A x, y \in Columns : x <= y /\ figure[x] # 0 /\ figure[y] # 0 => figure[x] <= figure[y]
  BY <1>2, <1>3, RowsInOrder
<1> DEFINE luminance == Luminance(figure, shade)
<1>5. ASSUME NEW x \in Columns
      PROVE  /\ luminance[x] \in {Line, Gray, Background}
             /\ luminance[x] = Background <=> figure[x] = 0
  <2>1. luminance[x] = IF figure[x] = 0 THEN Background ELSE shade[figure[x]]
    BY DEF Luminance
  <2>2. CASE figure[x] = 0
    BY <2>1, <2>2
  <2>3. CASE figure[x] # 0
    <3>1. figure[x] \in 1..count
      BY <1>2, <1>4, <2>3
    <3>2. luminance[x] \in {Line, Gray}
      BY <2>1, <2>3, <3>1
    <3> QED
      BY <1>1, <2>3, <3>2 DEF Backgrounds, White, Paper, Line, Gray
  <2> QED
    BY <2>2, <2>3
<1>6. luminance \in [Columns -> {Line, Gray, Background}]
  <2>1. luminance = [x \in Columns |-> luminance[x]]
    BY DEF Luminance
  <2> HIDE DEF luminance
  <2> QED
    BY <1>5, <2>1
<1>7. Drawn(figure, drawing, count, Background)
  <2>1. drawing.luminance = luminance
    BY <1>3
  <2> HIDE DEF luminance
  <2> QED
    BY <1>4, <1>5, <1>6, <2>1 DEF Drawn
<1> QED
  BY <1>3, <1>7 DEF count

-----------------------------------------------------------------------------
(* The slicer at work.                                                       *)

(* What is staged for a sheet has been cut from a sheet that the slicer may  *)
(* get, and nothing has changed since.                                       *)
StagedFromSheet ==
  Sliced => /\ Supported
            /\ sheet \in Drawings(Len(Layout))
            /\ images = Slices(sheet, Layout, Background, job.sheet.normalized)

(* The views of a sheet are staged by nothing but the cut.                   *)
THEOREM IntakeStagesFromSheet == IntakeSpec => []StagedFromSheet
<1>1. IntakeInit => StagedFromSheet
  BY DEF IntakeInit, StagedFromSheet, Sliced
<1>2. StagedFromSheet /\ [IntakeNext]_intakeVars => StagedFromSheet'
  <2> SUFFICES ASSUME StagedFromSheet, [IntakeNext]_intakeVars
               PROVE  StagedFromSheet'
    OBVIOUS
  <2>1. CASE EnsureDefinition
    BY <2>1 DEF EnsureDefinition, StagedFromSheet, Sliced
  <2>2. CASE Post
    BY <2>2 DEF Post, StagedFromSheet, Sliced
  <2>3. CASE Hydrate
    BY <2>3 DEF Hydrate, StagedFromSheet, Sliced
  <2>4. CASE Resolve
    BY <2>4 DEF Resolve, StagedFromSheet, Sliced
  <2>5. CASE SliceSheet
    <3>1. /\ Supported /\ job' = job
          /\ sheet' \in Drawings(Len(Layout))
          /\ images' = Slices(sheet', Layout, Background, job.sheet.normalized)
      BY <2>5 DEF SliceSheet, Stages3D
    <3>2. /\ Supported' <=> Supported
          /\ Layout' = Layout /\ Background' = Background
          /\ \A count : Drawings(count)' = Drawings(count)
      BY <3>1 DEF Supported, Layout, Background, Legacy, SheetVersion, Drawings, Luminance
    <3> QED
      BY <3>1, <3>2 DEF StagedFromSheet
  <2>6. CASE SliceFails
    BY <2>6 DEF SliceFails, StagedFromSheet, Sliced
  <2>7. CASE UseViews
    BY <2>7 DEF UseViews, StagedFromSheet, Sliced
  <2>8. CASE UNCHANGED intakeVars
    <3>1. /\ Sliced' <=> Sliced
          /\ Supported' <=> Supported
          /\ Layout' = Layout /\ Background' = Background
          /\ \A count : Drawings(count)' = Drawings(count)
          /\ sheet' = sheet /\ images' = images /\ job' = job
      BY <2>8 DEF intakeVars, Sliced, Supported, Layout, Background, Legacy, SheetVersion,
                  Drawings, Luminance
    <3> QED
      BY <3>1 DEF StagedFromSheet
  <2> QED
    BY <2>1, <2>2, <2>3, <2>4, <2>5, <2>6, <2>7, <2>8 DEF IntakeNext
<1> QED
  BY <1>1, <1>2, PTL DEF IntakeSpec

(* Whatever the sheet and its layout: what is drawn on it is in one of the   *)
(* views, on a normalized sheet all of it, and on any other what the padding *)
(* reaches from the columns with content.                                    *)
THEOREM IntakeCutsNothingOff == IntakeSpec => []NothingCutOff
<1>1. StagedFromSheet => NothingCutOff
  <2> SUFFICES ASSUME StagedFromSheet, Sliced, NEW x \in Inked(sheet.figure),
                      job.sheet.normalized \/ NearContent(sheet, x)
               PROVE  \E view \in DOMAIN images : images[view][1] <= x /\ x < images[view][2]
    BY DEF NothingCutOff, Near, NearContent, Shows
  <2>1. /\ Supported /\ sheet \in Drawings(Len(Layout))
        /\ images = Slices(sheet, Layout, Background, job.sheet.normalized)
    BY DEF StagedFromSheet
  <2>2. Layout \in Layouts /\ Background \in Backgrounds
    BY <2>1, LayoutType
  <2>3. Drawn(sheet.figure, sheet, Len(Layout), Background)
    BY <2>1, DrawingsDrawn
  <2> QED
    BY <2>1, <2>2, <2>3, InkInViews
<1> QED
  BY <1>1, IntakeStagesFromSheet, PTL

(* A view shows its own figure, none of the others, and no margin, if every  *)
(* figure is in a cell of its own, or, as far as columns with content go, if *)
(* the figures stand well apart.                                             *)
THEOREM IntakeShowsOwnFigures == IntakeSpec => []OwnFigure
<1>1. StagedFromSheet => OwnFigure
  <2>1. SUFFICES ASSUME StagedFromSheet, Sliced, Complete(Len(Layout)),
                        job.sheet.normalized \/ WellApart(Len(Layout)),
                        NEW i \in 1..Len(Layout)
                 PROVE  ShowsOwn(sheet.figure, sheet, job.sheet.normalized,
                                 images[Layout[i]], i)
    BY DEF OwnFigure, ShowsOwn, Shows, Clear, ClearOf
  <2>2. /\ Supported /\ sheet \in Drawings(Len(Layout))
        /\ images = Slices(sheet, Layout, Background, job.sheet.normalized)
    BY <2>1 DEF StagedFromSheet
  <2>3. Layout \in Layouts /\ Background \in Backgrounds
    BY <2>2, LayoutType
  <2>4. /\ Drawn(sheet.figure, sheet, Len(Layout), Background)
        /\ job.sheet.normalized => InCells(sheet.figure, Len(Layout))
    <3>1. Drawn(sheet.figure, sheet, Len(Layout), Background)
      BY <2>2, DrawingsDrawn
    <3>2. job.sheet.normalized => InCells(sheet.figure, Len(Layout))
      BY <2>2, DrawingsDrawn
    <3> QED
      BY <3>1, <3>2
  <2>5. Separate(sheet.figure, sheet, Len(Layout), job.sheet.normalized)
    BY <2>1, <2>4 DEF Separate, WellApart, Apart, Between
  <2>6. \E x \in ClearOf(sheet.figure, sheet, job.sheet.normalized) : sheet.figure[x] = i
    BY <2>1 DEF Complete, Clear, ClearOf
  <2> QED
    BY <2>1, <2>2, <2>3, <2>4, <2>5, <2>6, OwnFigureShown
<1> QED
  BY <1>1, IntakeStagesFromSheet, PTL

-----------------------------------------------------------------------------
(* Paths.                                                                    *)

KeyPath == Seq(Keys)

(* What is left of a path below another.                                     *)
Rest(path, p) == SubSeq(p, Len(path) + 1, Len(p))

LEMMA RestOfConcat ==
  ASSUME NEW p \in KeyPath, NEW q \in KeyPath
  PROVE  p \o q \in KeyPath /\ IsPrefix(p, p \o q) /\ Rest(p, p \o q) = q
<1>1. /\ p \o q \in KeyPath /\ Len(p \o q) = Len(p) + Len(q)
      /\ Len(p) \in Nat /\ Len(q) \in Nat
  BY ConcatProperties DEF KeyPath
<1>2. SubSeq(p \o q, 1, Len(p)) = p
  BY SubSeqOfConcat1, SubSeqFull, <1>1 DEF KeyPath
<1>3. SubSeq(p, 1, Len(p)) = p
  BY SubSeqFull DEF KeyPath
<1>4. SubSeq(p \o q, Len(p) + 1, Len(p) + Len(q)) = SubSeq(q, 1, Len(q))
  BY <1>1, SubSeqOfConcat2 DEF KeyPath
<1>5. SubSeq(q, 1, Len(q)) = q
  BY SubSeqFull DEF KeyPath
<1> QED
  BY <1>1, <1>2, <1>3, <1>4, <1>5 DEF IsPrefix, Rest

LEMMA ConcatOfRest ==
  ASSUME NEW p \in KeyPath, NEW r \in KeyPath, IsPrefix(p, r)
  PROVE  Rest(p, r) \in KeyPath /\ p \o Rest(p, r) = r
<1>1. Len(p) \in Nat /\ Len(r) \in Nat /\ Len(p) <= Len(r)
  BY DEF IsPrefix, KeyPath
<1>2. Rest(p, r) \in KeyPath
  BY <1>1 DEF KeyPath, Rest
<1>3. SubSeq(r, 1, Len(p)) \o SubSeq(r, Len(p) + 1, Len(r)) = SubSeq(r, 1, Len(r))
  <2>1. /\ 1 \in 1..(Len(r) + 1) /\ Len(p) \in (1 - 1)..Len(r) /\ Len(r) \in Len(p)..Len(r)
        /\ r \in Seq(Keys)
    BY <1>1 DEF KeyPath
  <2> QED
    BY <2>1, ConcatAdjacentSubSeq
<1>4. SubSeq(r, 1, Len(p)) = p /\ SubSeq(r, 1, Len(r)) = r
  BY <1>1, SubSeqFull DEF KeyPath, IsPrefix
<1> QED
  BY <1>2, <1>3, <1>4 DEF Rest

(* A prefix is a path that the other agrees with as far as it goes.          *)
LEMMA PrefixAgrees ==
  ASSUME NEW p \in KeyPath, NEW r \in KeyPath
  PROVE  IsPrefix(p, r) <=> Len(p) <= Len(r) /\ \A i \in 1..Len(p) : p[i] = r[i]
<1>1. Len(p) \in Nat /\ Len(r) \in Nat
  BY DEF KeyPath
<1>2. CASE Len(p) <= Len(r)
  <2> DEFINE a == SubSeq(p, 1, Len(p))
             b == SubSeq(r, 1, Len(p))
  <2>1. a = p
    BY SubSeqFull DEF KeyPath
  <2>2. b \in Seq(Keys) /\ Len(b) = Len(p) /\ \A i \in 1..Len(p) : b[i] = r[i]
    BY <1>1, <1>2, SubSeqProperties DEF KeyPath
  <2>3. b = p <=> \A i \in 1..Len(p) : p[i] = b[i]
    <3> HIDE DEF b
    <3> QED
      BY <2>2, SeqEqual DEF KeyPath
  <2>4. IsPrefix(p, r) <=> a = b
    BY <1>2 DEF IsPrefix
  <2> HIDE DEF a, b
  <2> QED
    BY <1>2, <2>1, <2>2, <2>3, <2>4
<1>3. CASE ~(Len(p) <= Len(r))
  BY <1>3 DEF IsPrefix
<1> QED
  BY <1>2, <1>3

LEMMA PrefixOrder ==
  ASSUME NEW p \in KeyPath, NEW q \in KeyPath, NEW r \in KeyPath
  PROVE  /\ IsPrefix(p, p)
         /\ IsPrefix(p, q) /\ IsPrefix(q, r) => IsPrefix(p, r)
         /\ IsPrefix(p, r) /\ IsPrefix(q, r) => IsPrefix(p, q) \/ IsPrefix(q, p)
         /\ IsPrefix(p, q) /\ IsPrefix(q, p) => p = q
<1>1. Len(p) \in Nat /\ Len(q) \in Nat /\ Len(r) \in Nat
  BY DEF KeyPath
<1>2. IsPrefix(p, p)
  BY <1>1, PrefixAgrees
<1>3. ASSUME IsPrefix(p, q), IsPrefix(q, r)
      PROVE  IsPrefix(p, r)
  <2>1. Len(p) <= Len(q) /\ \A i \in 1..Len(p) : p[i] = q[i]
    BY <1>3, PrefixAgrees
  <2>2. Len(q) <= Len(r) /\ \A i \in 1..Len(q) : q[i] = r[i]
    BY <1>3, PrefixAgrees
  <2>3. Len(p) <= Len(r) /\ \A i \in 1..Len(p) : p[i] = r[i]
    BY <1>1, <2>1, <2>2
  <2> QED
    BY <2>3, PrefixAgrees
<1>4. ASSUME IsPrefix(p, r), IsPrefix(q, r)
      PROVE  IsPrefix(p, q) \/ IsPrefix(q, p)
  <2>1. Len(p) <= Len(r) /\ \A i \in 1..Len(p) : p[i] = r[i]
    BY <1>4, PrefixAgrees
  <2>2. Len(q) <= Len(r) /\ \A i \in 1..Len(q) : q[i] = r[i]
    BY <1>4, PrefixAgrees
  <2>3. CASE Len(p) <= Len(q)
    <3>1. \A i \in 1..Len(p) : p[i] = q[i]
      BY <1>1, <2>1, <2>2, <2>3
    <3> QED
      BY <2>3, <3>1, PrefixAgrees
  <2>4. CASE Len(q) <= Len(p)
    <3>1. \A i \in 1..Len(q) : q[i] = p[i]
      BY <1>1, <2>1, <2>2, <2>4
    <3> QED
      BY <2>4, <3>1, PrefixAgrees
  <2> QED
    BY <1>1, <2>3, <2>4
<1>5. ASSUME IsPrefix(p, q), IsPrefix(q, p)
      PROVE  p = q
  <2>1. Len(p) <= Len(q) /\ \A i \in 1..Len(p) : p[i] = q[i]
    BY <1>5, PrefixAgrees
  <2>2. Len(q) <= Len(p)
    BY <1>5, PrefixAgrees
  <2>3. Len(p) = Len(q)
    BY <1>1, <2>1, <2>2
  <2> QED
    BY <2>1, <2>3, SeqEqual DEF KeyPath
<1> QED
  BY <1>2, <1>3, <1>4, <1>5

(* Longer and shorter paths below a third.                                   *)
LEMMA ConcatOrder ==
  ASSUME NEW p \in KeyPath, NEW q \in KeyPath, NEW s \in KeyPath
  PROVE  /\ (p \o q) \o s = p \o (q \o s)
         /\ p \o q = p \o s => q = s
         /\ p \o <<>> = p /\ <<>> \o p = p
         /\ p \o q = p => q = <<>>
<1>1. (p \o q) \o s = p \o (q \o s)
  BY ConcatAssociative DEF KeyPath
<1>2. p \o q = p \o s => q = s
  <2>1. Rest(p, p \o q) = q
    BY RestOfConcat
  <2>2. Rest(p, p \o s) = s
    BY RestOfConcat
  <2> QED
    BY <2>1, <2>2
<1>3. p \o <<>> = p /\ <<>> \o p = p
  BY ConcatEmptySeq DEF KeyPath
<1>4. p \o q = p => q = <<>>
  BY ConcatEqualIffEmpty DEF KeyPath
<1> QED
  BY <1>1, <1>2, <1>3, <1>4

-----------------------------------------------------------------------------
(* Objects.                                                                  *)

LEMMA SameDocument ==
  ASSUME NEW v, NEW w, IsDocument(v), IsDocument(w), DOMAIN v = DOMAIN w,
         \A p \in DOMAIN v : v[p] = w[p]
  PROVE  v = w
  BY DEF IsDocument, KeyPath

LEMMA GetType ==
  ASSUME NEW value, IsDocument(value), NEW path \in KeyPath
  PROVE  /\ IsDocument(Get(value, path))
         /\ \A q \in KeyPath : q \in DOMAIN Get(value, path) <=> path \o q \in DOMAIN value
         /\ \A q \in DOMAIN Get(value, path) : Get(value, path)[q] = value[path \o q]
<1> DEFINE below == {p \in DOMAIN value : IsPrefix(path, p)}
           at == {SubSeq(p, Len(path) + 1, Len(p)) : p \in below}
<1>1. Get(value, path) = [q \in at |-> value[path \o q]]
  BY DEF Get
<1>2. at \subseteq KeyPath
  BY ConcatOfRest DEF IsDocument, KeyPath, Rest
<1>3. ASSUME NEW q \in KeyPath
      PROVE  q \in at <=> path \o q \in DOMAIN value
  <2>1. ASSUME q \in at
        PROVE  path \o q \in DOMAIN value
    <3>1. PICK p \in below : q = Rest(path, p)
      BY <2>1 DEF Rest
    <3>2. p \in KeyPath /\ IsPrefix(path, p)
      BY DEF IsDocument, KeyPath
    <3> QED
      BY <3>1, <3>2, ConcatOfRest
  <2>2. ASSUME path \o q \in DOMAIN value
        PROVE  q \in at
    <3>1. path \o q \in below /\ Rest(path, path \o q) = q
      BY <2>2, RestOfConcat
    <3> QED
      BY <3>1 DEF Rest
  <2> QED
    BY <2>1, <2>2
<1> HIDE DEF at
<1> QED
  BY <1>1, <1>2, <1>3 DEF IsDocument, KeyPath

(* Two steps down are one.                                                   *)
LEMMA GetGet ==
  ASSUME NEW value, IsDocument(value), NEW p \in KeyPath, NEW q \in KeyPath
  PROVE  Get(Get(value, p), q) = Get(value, p \o q)
<1> DEFINE v == Get(value, p)
           w == Get(value, p \o q)
           u == Get(v, q)
<1>1. p \o q \in KeyPath
  BY RestOfConcat
<1>2. /\ IsDocument(v)
      /\ \A s \in KeyPath : s \in DOMAIN v <=> p \o s \in DOMAIN value
      /\ \A s \in DOMAIN v : v[s] = value[p \o s]
  BY GetType
<1>3. /\ IsDocument(w)
      /\ \A s \in KeyPath : s \in DOMAIN w <=> (p \o q) \o s \in DOMAIN value
      /\ \A s \in DOMAIN w : w[s] = value[(p \o q) \o s]
  BY <1>1, GetType
<1> HIDE DEF v, w
<1>4. /\ IsDocument(u)
      /\ \A s \in KeyPath : s \in DOMAIN u <=> q \o s \in DOMAIN v
      /\ \A s \in DOMAIN u : u[s] = v[q \o s]
  BY <1>2, GetType
<1> HIDE DEF u
<1>5. ASSUME NEW s \in KeyPath
      PROVE  /\ s \in DOMAIN u <=> s \in DOMAIN w
             /\ s \in DOMAIN u => u[s] = w[s]
  <2>1. q \o s \in KeyPath /\ (p \o q) \o s = p \o (q \o s)
    BY RestOfConcat, ConcatOrder
  <2> QED
    BY <1>2, <1>3, <1>4, <2>1
<1>6. DOMAIN u = DOMAIN w /\ \A s \in DOMAIN u : u[s] = w[s]
  BY <1>3, <1>4, <1>5 DEF IsDocument, KeyPath
<1>7. u = w
  BY <1>3, <1>4, <1>6, SameDocument
<1> QED
  BY <1>7 DEF u, v, w

LEMMA GetAll ==
  ASSUME NEW value, IsDocument(value)
  PROVE  Get(value, <<>>) = value
<1>1. <<>> \in KeyPath
  BY DEF KeyPath
<1> DEFINE v == Get(value, <<>>)
<1>2. /\ IsDocument(v)
      /\ \A s \in KeyPath : s \in DOMAIN v <=> <<>> \o s \in DOMAIN value
      /\ \A s \in DOMAIN v : v[s] = value[<<>> \o s]
  BY <1>1, GetType
<1> HIDE DEF v
<1>3. ASSUME NEW s \in KeyPath
      PROVE  <<>> \o s = s
  BY ConcatOrder
<1>4. DOMAIN v = DOMAIN value /\ \A s \in DOMAIN v : v[s] = value[s]
  BY <1>2, <1>3 DEF IsDocument, KeyPath
<1>5. v = value
  BY <1>2, <1>4, SameDocument
<1> QED
  BY <1>5 DEF v

LEMMA SetType ==
  ASSUME NEW object, IsDocument(object), NEW path \in KeyPath, NEW value, IsDocument(value)
  PROVE  /\ IsDocument(Set(object, path, value))
         /\ \A q \in KeyPath :
              /\ path \o q \in DOMAIN Set(object, path, value) <=> q \in DOMAIN value
              /\ q \in DOMAIN value => Set(object, path, value)[path \o q] = value[q]
         /\ \A p \in KeyPath :
              ~IsPrefix(path, p) =>
                /\ p \in DOMAIN Set(object, path, value) <=>
                     p \in DOMAIN object /\ ~IsPrefix(p, path)
                /\ p \in DOMAIN Set(object, path, value) =>
                     Set(object, path, value)[p] = object[p]
<1> DEFINE kept == {p \in DOMAIN object : ~IsPrefix(path, p) /\ ~IsPrefix(p, path)}
           new == {path \o q : q \in DOMAIN value}
           s == Set(object, path, value)
<1>1. s = [p \in kept \cup new |-> IF p \in new THEN value[Rest(path, p)] ELSE object[p]]
  BY DEF Set, Rest
<1>2. kept \subseteq KeyPath /\ new \subseteq KeyPath
  BY RestOfConcat DEF IsDocument, KeyPath
<1>3. ASSUME NEW q \in KeyPath
      PROVE  /\ path \o q \in kept \cup new <=> q \in DOMAIN value
             /\ q \in DOMAIN value => path \o q \in new /\ s[path \o q] = value[q]
  <2>1. IsPrefix(path, path \o q) /\ Rest(path, path \o q) = q
    BY RestOfConcat
  <2>2. path \o q \notin kept
    BY <2>1
  <2>3. path \o q \in new => q \in DOMAIN value
    <3>1. ASSUME NEW t \in DOMAIN value, path \o q = path \o t
          PROVE  q = t
      <4>1. t \in KeyPath
        BY DEF IsDocument, KeyPath
      <4>2. Rest(path, path \o q) = q
        BY RestOfConcat
      <4>3. Rest(path, path \o t) = t
        BY <4>1, RestOfConcat
      <4> QED
        BY <3>1, <4>2, <4>3
    <3> QED
      BY <3>1
  <2>4. q \in DOMAIN value => path \o q \in new
    OBVIOUS
  <2> HIDE DEF s, new, kept
  <2> QED
    BY <1>1, <2>1, <2>2, <2>3, <2>4
<1>4. ASSUME NEW p \in KeyPath, ~IsPrefix(path, p)
      PROVE  /\ p \in kept \cup new <=> p \in DOMAIN object /\ ~IsPrefix(p, path)
             /\ p \notin new
  <2>1. p \notin new
    BY <1>4, RestOfConcat DEF IsDocument, KeyPath
  <2> QED
    BY <1>4, <2>1
<1>5. IsDocument(s)
  <2> HIDE DEF s, new, kept
  <2> QED
    BY <1>1, <1>2 DEF IsDocument, KeyPath
<1>6. DOMAIN s = kept \cup new
  BY <1>1
<1>7. \A q \in KeyPath : /\ path \o q \in DOMAIN s <=> q \in DOMAIN value
                         /\ q \in DOMAIN value => s[path \o q] = value[q]
  <2> HIDE DEF s, new, kept
  <2> QED
    BY <1>3, <1>6
<1>8. \A p \in KeyPath : ~IsPrefix(path, p) =>
        /\ p \in DOMAIN s <=> p \in DOMAIN object /\ ~IsPrefix(p, path)
        /\ p \in DOMAIN s => s[p] = object[p]
  <2> HIDE DEF s, new, kept
  <2> QED
    BY <1>1, <1>4, <1>6
<1> QED
  BY <1>5, <1>7, <1>8

(* What has been set is found,                                               *)
LEMMA GetOfSet ==
  ASSUME NEW object, IsDocument(object), NEW path \in KeyPath, NEW value, IsDocument(value)
  PROVE  Get(Set(object, path, value), path) = value
<1> DEFINE s == Set(object, path, value)
           v == Get(s, path)
<1>1. IsDocument(s)
  BY SetType
<1>2. \A q \in KeyPath : /\ path \o q \in DOMAIN s <=> q \in DOMAIN value
                         /\ q \in DOMAIN value => s[path \o q] = value[q]
  BY SetType
<1> HIDE DEF s
<1>3. /\ IsDocument(v)
      /\ \A q \in KeyPath : q \in DOMAIN v <=> path \o q \in DOMAIN s
      /\ \A q \in DOMAIN v : v[q] = s[path \o q]
  BY <1>1, GetType
<1> HIDE DEF v
<1>4. DOMAIN v = DOMAIN value /\ \A q \in DOMAIN v : v[q] = value[q]
  BY <1>2, <1>3 DEF IsDocument, KeyPath
<1>5. v = value
  BY <1>3, <1>4, SameDocument
<1> QED
  BY <1>5 DEF v, s

(* ... and so is what is below it;                                           *)
LEMMA GetBelowSet ==
  ASSUME NEW object, IsDocument(object), NEW path \in KeyPath, NEW value, IsDocument(value),
         NEW p \in KeyPath, IsPrefix(path, p)
  PROVE  Get(Set(object, path, value), p) = Get(value, Rest(path, p))
<1>1. IsDocument(Set(object, path, value))
  BY SetType
<1>2. Rest(path, p) \in KeyPath /\ path \o Rest(path, p) = p
  BY ConcatOfRest
<1>3. Get(Get(Set(object, path, value), path), Rest(path, p)) =
        Get(Set(object, path, value), path \o Rest(path, p))
  BY <1>1, <1>2, GetGet
<1> QED
  BY <1>2, <1>3, GetOfSet

(* what is beside it has not changed,                                        *)
LEMMA GetBesideSet ==
  ASSUME NEW object, IsDocument(object), NEW path \in KeyPath, NEW value, IsDocument(value),
         NEW p \in KeyPath, ~IsPrefix(path, p), ~IsPrefix(p, path)
  PROVE  Get(Set(object, path, value), p) = Get(object, p)
<1> DEFINE s == Set(object, path, value)
           v == Get(s, p)
           w == Get(object, p)
<1>1. IsDocument(s)
  BY SetType
<1>2. \A r \in KeyPath : ~IsPrefix(path, r) =>
        /\ r \in DOMAIN s <=> r \in DOMAIN object /\ ~IsPrefix(r, path)
        /\ r \in DOMAIN s => s[r] = object[r]
  BY SetType
<1> HIDE DEF s
<1>3. /\ IsDocument(v)
      /\ \A q \in KeyPath : q \in DOMAIN v <=> p \o q \in DOMAIN s
      /\ \A q \in DOMAIN v : v[q] = s[p \o q]
  BY <1>1, GetType
<1>4. /\ IsDocument(w)
      /\ \A q \in KeyPath : q \in DOMAIN w <=> p \o q \in DOMAIN object
      /\ \A q \in DOMAIN w : w[q] = object[p \o q]
  BY GetType
<1> HIDE DEF v, w
<1>5. ASSUME NEW q \in KeyPath
      PROVE  p \o q \in KeyPath /\ ~IsPrefix(path, p \o q) /\ ~IsPrefix(p \o q, path)
  <2>1. p \o q \in KeyPath /\ IsPrefix(p, p \o q)
    BY RestOfConcat
  <2>2. ~IsPrefix(path, p \o q)
    BY <2>1, PrefixOrder
  <2>3. ~IsPrefix(p \o q, path)
    BY <2>1, PrefixOrder
  <2> QED
    BY <2>1, <2>2, <2>3
<1>6. DOMAIN v = DOMAIN w /\ \A q \in DOMAIN v : v[q] = w[q]
  <2>1. DOMAIN v \subseteq KeyPath /\ DOMAIN w \subseteq KeyPath
    BY <1>3, <1>4 DEF IsDocument, KeyPath
  <2>2. ASSUME NEW q \in KeyPath
        PROVE  /\ q \in DOMAIN v <=> q \in DOMAIN w
               /\ q \in DOMAIN v => v[q] = w[q]
    BY <1>2, <1>3, <1>4, <1>5
  <2> QED
    BY <2>1, <2>2
<1>7. v = w
  BY <1>3, <1>4, <1>6, SameDocument
<1> QED
  BY <1>7 DEF v, w, s

(* and what is above it has become an object.                                *)
LEMMA GetAboveSet ==
  ASSUME NEW object, IsDocument(object), NEW path \in KeyPath,
         NEW value, IsDocument(value), value # Undefined,
         NEW p \in KeyPath, IsPrefix(p, path), p # path
  PROVE  /\ <<>> \notin DOMAIN Get(Set(object, path, value), p)
         /\ DOMAIN Get(Set(object, path, value), p) # {}
<1> DEFINE s == Set(object, path, value)
           v == Get(s, p)
<1>1. IsDocument(s)
  BY SetType
<1>2. \A q \in KeyPath : path \o q \in DOMAIN s <=> q \in DOMAIN value
  BY SetType
<1>3. \A r \in KeyPath : ~IsPrefix(path, r) => (r \in DOMAIN s => ~IsPrefix(r, path))
  BY SetType
<1> HIDE DEF s
<1>4. \A q \in KeyPath : q \in DOMAIN v <=> p \o q \in DOMAIN s
  BY <1>1, GetType
<1> HIDE DEF v
<1>5. <<>> \notin DOMAIN v
  <2>1. <<>> \in KeyPath /\ p \o <<>> = p
    BY ConcatOrder DEF KeyPath
  <2>2. ~IsPrefix(path, p)
    BY PrefixOrder
  <2> QED
    BY <1>3, <1>4, <2>1, <2>2
<1>6. DOMAIN v # {}
  <2>1. PICK q \in DOMAIN value : q \in KeyPath
    <3>1. DOMAIN value # {}
      BY DEF IsDocument, KeyPath, Undefined
    <3> QED
      BY <3>1 DEF IsDocument, KeyPath
  <2>2. path \o q \in DOMAIN s
    BY <1>2, <2>1
  <2> DEFINE t == Rest(p, path)
  <2>3. t \in KeyPath
    BY ConcatOfRest
  <2>4. p \o t = path
    BY ConcatOfRest
  <2> HIDE DEF t
  <2>5. t \o q \in KeyPath
    BY <2>1, <2>3, RestOfConcat
  <2>6. (p \o t) \o q = p \o (t \o q)
    BY <2>1, <2>3, ConcatAssociative, SMTT(30) DEF KeyPath
  <2> QED
    BY <1>4, <2>2, <2>4, <2>5, <2>6
<1> QED
  BY <1>5, <1>6 DEF v, s

-----------------------------------------------------------------------------
(* Values.                                                                   *)

LEMMA ValueOfScalar ==
  ASSUME NEW scalar
  PROVE  /\ IsDocument(Value(scalar)) /\ DOMAIN Value(scalar) = {<<>>}
         /\ Value(scalar)[<<>>] = scalar
         /\ Value(scalar) # Undefined
         /\ IsObject(Value(scalar)) <=> scalar = EmptyObject
         /\ Missing(Value(scalar)) <=> scalar \in {Null, Str("")}
<1>1. DOMAIN Value(scalar) = {<<>>} /\ Value(scalar)[<<>>] = scalar
  BY DEF Value
<1>2. IsDocument(Value(scalar))
  <2>1. <<>> \in KeyPath
    BY DEF KeyPath
  <2> QED
    BY <2>1 DEF Value, IsDocument, KeyPath
<1>3. Value(scalar) # Undefined
  BY <1>1 DEF Undefined
<1>4. ASSUME NEW t
      PROVE  Value(scalar) = Value(t) <=> scalar = t
  BY DEF Value
<1>5. IsObject(Value(scalar)) <=> scalar = EmptyObject
  BY <1>1, <1>3 DEF IsObject
<1>6. Missing(Value(scalar)) <=> scalar \in {Null, Str("")}
  BY <1>3, <1>4 DEF Missing
<1> QED
  BY <1>1, <1>2, <1>3, <1>5, <1>6

(* A value that has been normalised is there, and stays as it is when it is  *)
(* normalised once more.                                                     *)
LEMMA OfTypeAgain ==
  ASSUME NEW raw, IsDocument(raw), ~Missing(raw), NEW rule, rule.type \in FieldTypes,
         NEW v \in OfType(raw, rule)
  PROVE  IsDocument(v) /\ ~Missing(v) /\ OfType(v, rule) = {v}
<1>1. CASE rule.type = "string"
  <2>1. OfType(raw, rule) = {Value(Str(text)) : text \in {Text(raw)} \ {""}}
    BY <1>1 DEF OfType
  <2>2. PICK text : v = Value(Str(text)) /\ text # ""
    BY <2>1
  <2>3. Str(text) # EmptyObject /\ Str(text) # Null /\ Str(text) # Str("")
        /\ Str(text)[1] = "string" /\ Str(text)[2] = text
    BY <2>2 DEF Str, EmptyObject, Null
  <2>4. /\ IsDocument(v) /\ ~Missing(v) /\ ~IsObject(v) /\ v[<<>>] = Str(text)
    BY <2>2, <2>3, ValueOfScalar
  <2>5. Text(v) = text
    <3>1. Text(v) = CASE Str(text)[1] \in {"string", "padded"} -> Str(text)[2]
                      [] Str(text) \in {Num(0), Bool(FALSE), Null} -> ""
                      [] OTHER -> ToString(Str(text)[2])
      BY <2>4 DEF Text
    <3>2. Str(text) \notin {Num(0), Bool(FALSE), Null}
      BY DEF Str, Num, Bool, Null
    <3> QED
      BY <2>3, <3>1, <3>2
  <2>6. OfType(v, rule) = {Value(Str(t)) : t \in {text} \ {""}}
    BY <1>1, <2>5 DEF OfType
  <2>7. OfType(v, rule) = {v}
    BY <2>2, <2>6
  <2> QED
    BY <2>4, <2>7
<1>2. CASE rule.type = "object"
  <2>1. v = raw /\ IsObject(v)
    BY <1>2 DEF OfType
  <2>2. OfType(v, rule) = {v}
    BY <1>2, <2>1 DEF OfType
  <2> QED
    BY <2>1, <2>2
<1>3. CASE rule.type = "boolean"
  <2>1. ASSUME ~IsObject(v), v[<<>>][1] = "boolean"
        PROVE  OfType(v, rule) = {v}
    BY <1>3, <2>1 DEF OfType
  <2>2. CASE ~IsObject(raw) /\ raw[<<>>][1] = "boolean"
    <3>1. v = raw
      BY <1>3, <2>2 DEF OfType
    <3> QED
      BY <2>1, <2>2, <3>1
  <2>3. CASE ~(~IsObject(raw) /\ raw[<<>>][1] = "boolean")
    <3>1. OfType(raw, rule) = {Value(Bool(text = "true")) : text \in {Text(raw)} \cap {"true", "false"}}
      BY <1>3, <2>3 DEF OfType
    <3>2. PICK b : v = Value(Bool(b))
      BY <3>1
    <3>3. Bool(b) # EmptyObject /\ Bool(b) # Null /\ Bool(b) # Str("") /\ Bool(b)[1] = "boolean"
      BY DEF Bool, EmptyObject, Null, Str
    <3>4. IsDocument(v) /\ ~Missing(v) /\ ~IsObject(v) /\ v[<<>>] = Bool(b)
      BY <3>2, <3>3, ValueOfScalar
    <3> QED
      BY <2>1, <3>3, <3>4
  <2> QED
    BY <2>2, <2>3
<1>4. CASE rule.type = "integer"
  <2>1. OfType(raw, rule) =
          {Value(Num(Floor(n))) : n \in {m \in NumberOf(raw) : InBounds(rule, Floor(m))}}
    BY <1>4 DEF OfType
  <2>2. PICK n : v = Value(Num(n)) /\ InBounds(rule, n)
    BY <2>1
  <2>3. Num(n) # EmptyObject /\ Num(n) # Null /\ Num(n) # Str("") /\ Num(n)[1] = "number"
        /\ Floor(Num(n)) = n
    BY DEF Num, EmptyObject, Null, Str, Floor
  <2>4. IsDocument(v) /\ ~Missing(v) /\ ~IsObject(v) /\ v[<<>>] = Num(n)
    BY <2>2, <2>3, ValueOfScalar
  <2>5. NumberOf(v) = {Num(n)}
    BY <2>3, <2>4 DEF NumberOf, Num, Padded, Bool, Str
  <2>6. OfType(v, rule) =
          {Value(Num(Floor(m))) : m \in {m \in {Num(n)} : InBounds(rule, Floor(m))}}
    BY <1>4, <2>5 DEF OfType
  <2>7. OfType(v, rule) = {v}
    BY <2>2, <2>3, <2>6
  <2> QED
    BY <2>4, <2>7
<1> QED
  BY <1>1, <1>2, <1>3, <1>4 DEF FieldTypes

LEMMA NormalizedAgain ==
  ASSUME NEW raw, IsDocument(raw), ~Missing(raw), NEW rule, rule.type \in FieldTypes,
         NEW v \in NormalizedValue(raw, rule)
  PROVE  IsDocument(v) /\ ~Missing(v) /\ NormalizedValue(v, rule) = {v}
<1>1. v \in OfType(raw, rule) /\ (rule.enum # {} => v \in {Value(e) : e \in rule.enum})
  BY DEF NormalizedValue
<1>2. IsDocument(v) /\ ~Missing(v) /\ OfType(v, rule) = {v}
  BY <1>1, OfTypeAgain
<1> QED
  BY <1>1, <1>2 DEF NormalizedValue

-----------------------------------------------------------------------------
(* The rounds of the rules. A recursive function has the value its definition*)
(* says, for there is a function that has: of the lengths up to which there  *)
(* is none, one would be the smallest.                                       *)

Unrolled(f, source, list, n) ==
  f = [k \in 0..n |-> IF k = 0 THEN {Undefined} ELSE Round(source, list[k], f[k - 1])]

LEMMA UnrolledOnce ==
  ASSUME NEW source, NEW list, NEW f, NEW n \in Nat, NEW next \in Nat, next = n + 1,
         Unrolled(f, source, list, n)
  PROVE  \E g : Unrolled(g, source, list, next)
<1> DEFINE g == [k \in 0..next |-> IF k = next THEN Round(source, list[next], f[n]) ELSE f[k]]
<1>1. DOMAIN g = 0..next
  OBVIOUS
<1>2. ASSUME NEW k \in 0..next
      PROVE  g[k] = IF k = 0 THEN {Undefined} ELSE Round(source, list[k], g[k - 1])
  <2>1. CASE k = next
    <3>1. k # 0 /\ k - 1 = n /\ n \in 0..next /\ n # next
      BY <2>1
    <3>2. g[k] = Round(source, list[k], f[n])
      BY <2>1
    <3>3. g[n] = f[n]
      BY <3>1
    <3> HIDE DEF g
    <3> QED
      BY <3>1, <3>2, <3>3
  <2>2. CASE k # next
    <3>1. k \in 0..n
      BY <2>2
    <3>2. g[k] = f[k]
      BY <2>2
    <3>3. CASE k = 0
      <4>1. f[k] = {Undefined}
        BY <3>1, <3>3 DEF Unrolled
      <4> QED
        BY <3>2, <3>3, <4>1
    <3>4. CASE k # 0
      <4>1. f[k] = Round(source, list[k], f[k - 1])
        BY <3>1, <3>4 DEF Unrolled
      <4>2. k - 1 \in 0..next /\ k - 1 # next
        BY <3>1, <3>4
      <4>3. g[k - 1] = f[k - 1]
        BY <4>2
      <4> HIDE DEF g
      <4> QED
        BY <3>2, <3>4, <4>1, <4>3
    <3> QED
      BY <3>3, <3>4
  <2> QED
    BY <2>1, <2>2
<1>3. g = [k \in 0..next |-> g[k]]
  OBVIOUS
<1> HIDE DEF g
<1>4. Unrolled(g, source, list, next)
  BY <1>2, <1>3 DEF Unrolled
<1> QED
  BY <1>4

LEMMA UnrolledUpTo ==
  ASSUME NEW source, NEW list, NEW n \in Nat
  PROVE  \E f : Unrolled(f, source, list, n)
<1> DEFINE S == {k \in Nat : ~\E f : Unrolled(f, source, list, k)}
<1>1. ASSUME S # {}
      PROVE  FALSE
  <2>1. PICK k \in S : \A j \in S : k <= j
    BY <1>1, SmallestNumber
  <2>2. k # 0
    <3>1. Unrolled([j \in 0..0 |-> {Undefined}], source, list, 0)
      BY DEF Unrolled
    <3>2. 0 \notin S
      BY <3>1
    <3> QED
      BY <3>2
  <2>3. k - 1 \in Nat /\ k - 1 \notin S
    BY <2>1, <2>2
  <2>4. PICK f : Unrolled(f, source, list, k - 1)
    BY <2>3
  <2>5. \E g : Unrolled(g, source, list, k)
    <3> DEFINE m == k - 1
    <3>1. m \in Nat /\ k \in Nat /\ k = m + 1 /\ Unrolled(f, source, list, m)
      BY <2>3, <2>4
    <3> HIDE DEF m
    <3> QED
      BY <3>1, UnrolledOnce
  <2> QED
    BY <2>5
<1> QED
  BY <1>1

LEMMA RoundsUnrolled ==
  ASSUME NEW source, NEW list, Len(list) \in Nat
  PROVE  Unrolled(Rounds(source, list), source, list, Len(list))
<1> DEFINE n == Len(list)
<1>1. PICK f : Unrolled(f, source, list, n)
  BY UnrolledUpTo
<1>2. Rounds(source, list) =
        CHOOSE g : g = [k \in 0..n |-> IF k = 0 THEN {Undefined} ELSE Round(source, list[k], g[k - 1])]
  BY DEF Rounds
<1> QED
  BY <1>1, <1>2 DEF Unrolled

(* What one rule leaves at its path. A field without a value that stays      *)
(* unset may come with an umbrella above it, as it was posted.               *)
Outcome(source, rule) ==
  LET raw == Get(source, rule.path) IN
  IF ~Missing(raw) THEN NormalizedValue(raw, rule)
  ELSE IF rule.default # Undefined THEN {rule.default}
  ELSE IF rule.required THEN {} ELSE {Undefined, raw}

(* Fields that were set below an umbrella have made an object of it.         *)
Composite(value) == <<>> \notin DOMAIN value /\ DOMAIN value # {}

Settled(object, source, rule) ==
  \/ Get(object, rule.path) \in Outcome(source, rule)
  \/ rule.type = "object" /\ Composite(Get(object, rule.path))

(* Neither a field nor below one that was normalised, so far.                *)
Untouched(path, list, n) ==
  \A k \in 1..n : /\ ~IsPrefix(path, list[k].path)
                  /\ IsPrefix(list[k].path, path) => list[k].type = "object"

AsPosted(object, source, path) == Get(object, path) \in {Undefined, Get(source, path)}

(* Whatever is there came with a field that has a value, and what is below   *)
(* an umbrella, but in no field, is there as it was posted.                  *)
HasValue(source, rule) == ~Missing(Get(source, rule.path)) \/ rule.default # Undefined

CameWith(path, source, list, n) ==
  \E k \in 1..n : HasValue(source, list[k]) /\ IsPrefix(list[k].path, path)

Sheltered(path, source, list, n) ==
  \E k \in 1..n : ~Missing(Get(source, list[k].path)) /\ IsPrefix(list[k].path, path)

Kept(object, source, list, n) ==
  /\ \A path \in DOMAIN object : CameWith(path, source, list, n)
  /\ \A path \in KeyPath :
       Untouched(path, list, n) /\ Sheltered(path, source, list, n) =>
         Get(object, path) = Get(source, path)

Progress(object, source, list, n) ==
  /\ IsDocument(object)
  /\ \A k \in 1..n : Settled(object, source, list[k])
  /\ \A path \in KeyPath : Untouched(path, list, n) => AsPosted(object, source, path)
  /\ Kept(object, source, list, n)

(* Every field that has been settled satisfies its rule.                     *)
LEMMA SettledSatisfies ==
  ASSUME NEW source, IsDocument(source), NEW rule, WellFormed(rule), NEW object,
         Settled(object, source, rule)
  PROVE  Satisfies(object, rule)
<1> DEFINE value == Get(object, rule.path)
           raw == Get(source, rule.path)
<1>1. rule.path \in KeyPath /\ rule.type \in FieldTypes
  BY DEF WellFormed, KeyPath
<1>2. IsDocument(raw)
  BY <1>1, GetType
<1>3. Satisfies(object, rule) <=>
        IF Missing(value) THEN ~rule.required /\ rule.default = Undefined
        ELSE NormalizedValue(value, rule) = {value}
  BY DEF Satisfies
<1>4. CASE rule.type = "object" /\ Composite(value)
  <2>1. IsObject(value) /\ ~Missing(value)
    <3>1. value # Undefined /\ ~(<<>> \in DOMAIN value)
      BY <1>4 DEF Composite, Undefined
    <3>2. IsObject(value)
      BY <3>1 DEF IsObject
    <3>3. \A scalar : value # Value(scalar)
      BY <3>1, ValueOfScalar
    <3> QED
      BY <3>1, <3>2, <3>3 DEF Missing
  <2>2. rule.enum = {}
    BY <1>4 DEF WellFormed
  <2>3. OfType(value, rule) = {value}
    <3>1. OfType(value, rule) = {v \in {value} : IsObject(v)}
      BY <1>4 DEF OfType
    <3> HIDE DEF value
    <3> QED
      BY <2>1, <3>1
  <2>4. NormalizedValue(value, rule) = {value}
    <3> HIDE DEF value
    <3> QED
      BY <2>2, <2>3 DEF NormalizedValue
  <2> QED
    BY <1>3, <2>1, <2>4
<1>5. CASE value \in Outcome(source, rule)
  <2>1. CASE ~Missing(raw)
    <3>1. value \in NormalizedValue(raw, rule)
      BY <1>5, <2>1 DEF Outcome
    <3> HIDE DEF value, raw
    <3>2. ~Missing(value) /\ NormalizedValue(value, rule) = {value}
      BY <1>1, <1>2, <2>1, <3>1, NormalizedAgain
    <3> QED
      BY <1>3, <3>2
  <2>2. CASE Missing(raw) /\ rule.default # Undefined
    <3>1. value = rule.default
      BY <1>5, <2>2 DEF Outcome
    <3>2. ~Missing(rule.default) /\ NormalizedValue(rule.default, rule) = {rule.default}
      BY <2>2 DEF WellFormed
    <3> HIDE DEF value
    <3> QED
      BY <1>3, <3>1, <3>2
  <2>3. CASE Missing(raw) /\ ~(rule.default # Undefined)
    <3>1. ~rule.required /\ value \in {Undefined, raw}
      BY <1>5, <2>3 DEF Outcome
    <3>2. Missing(value)
      BY <2>3, <3>1 DEF Missing
    <3> HIDE DEF value
    <3> QED
      BY <1>3, <2>3, <3>1, <3>2
  <2> QED
    BY <2>1, <2>2, <2>3
<1> QED
  BY <1>4, <1>5 DEF Settled

LEMMA FirstRound ==
  ASSUME NEW source, NEW list
  PROVE  Progress(Undefined, source, list, 0)
<1>1. IsDocument(Undefined) /\ DOMAIN Undefined = {}
  BY DEF Undefined, IsDocument
<1>2. ASSUME NEW path \in KeyPath
      PROVE  Get(Undefined, path) = Undefined
  <2> DEFINE v == Get(Undefined, path)
  <2>1. /\ IsDocument(v)
        /\ \A q \in KeyPath : q \in DOMAIN v <=> path \o q \in DOMAIN Undefined
    BY <1>1, GetType
  <2> HIDE DEF v
  <2>2. DOMAIN v = DOMAIN Undefined /\ \A q \in DOMAIN v : v[q] = Undefined[q]
    <3>1. DOMAIN v \subseteq KeyPath
      BY <2>1 DEF IsDocument, KeyPath
    <3>2. DOMAIN v = {}
      BY <1>1, <2>1, <3>1
    <3> QED
      BY <1>1, <3>2
  <2>3. v = Undefined
    BY <1>1, <2>1, <2>2, SameDocument
  <2> QED
    BY <2>3 DEF v
<1>3. \A k \in 1..0 : FALSE
  OBVIOUS
<1>4. Kept(Undefined, source, list, 0)
  BY <1>1, <1>3 DEF Kept, Sheltered
<1> QED
  BY <1>1, <1>2, <1>3, <1>4 DEF Progress, AsPosted

(* One round, in which the value of a field is set.                          *)
LEMMA FieldIsSet ==
  ASSUME NEW source, IsDocument(source), NEW list, Orderly(list),
         NEW n \in Nat, NEW next \in 1..Len(list), next = n + 1,
         NEW before, Progress(before, source, list, n),
         NEW value, value \in Outcome(source, list[next]), ~Missing(value), IsDocument(value),
         list[next].type = "object" => value = Get(source, list[next].path)
  PROVE  Progress(Set(before, list[next].path, value), source, list, next)
<1> DEFINE path == list[next].path
           object == Set(before, path, value)
<1>1. /\ Len(list) \in Nat /\ DOMAIN list = 1..Len(list)
      /\ \A k \in DOMAIN list : WellFormed(list[k])
      /\ \A k \in 1..n : /\ ~IsPrefix(path, list[k].path)
                         /\ IsPrefix(list[k].path, path) => list[k].type = "object"
  BY DEF Orderly
<1>2. path \in KeyPath /\ \A k \in 1..n : list[k].path \in KeyPath
  BY <1>1, SMTT(30) DEF WellFormed, KeyPath
<1>3. IsDocument(before) /\ value # Undefined
  BY DEF Progress, Missing
<1>4. IsDocument(object)
  BY <1>2, <1>3, SetType
<1>5. Settled(object, source, list[next])
  <2>1. Get(object, path) = value
    BY <1>2, <1>3, GetOfSet
  <2> QED
    BY <2>1 DEF Settled
<1>6. ASSUME NEW k \in 1..n
      PROVE  Settled(object, source, list[k])
  <2> DEFINE p == list[k].path
  <2>1. p \in KeyPath /\ ~IsPrefix(path, p) /\ (IsPrefix(p, path) => list[k].type = "object")
    BY <1>1, <1>2
  <2>2. Settled(before, source, list[k])
    BY DEF Progress
  <2>3. CASE IsPrefix(p, path)
    <3>1. p # path
      BY <1>2, <2>1, PrefixOrder
    <3>2. <<>> \notin DOMAIN Get(object, p)
      <4> HIDE DEF p, path
      <4> QED
        BY <1>2, <1>3, <2>1, <2>3, <3>1, GetAboveSet
    <3>3. DOMAIN Get(object, p) # {}
      <4> HIDE DEF p, path
      <4> QED
        BY <1>2, <1>3, <2>1, <2>3, <3>1, GetAboveSet
    <3> QED
      BY <2>1, <2>3, <3>2, <3>3 DEF Settled, Composite
  <2>4. CASE ~IsPrefix(p, path)
    <3>1. Get(object, p) = Get(before, p)
      <4> HIDE DEF p, path
      <4> QED
        BY <1>2, <1>3, <2>1, <2>4, GetBesideSet
    <3> QED
      BY <2>2, <3>1 DEF Settled
  <2> QED
    BY <2>3, <2>4
<1>7. ASSUME NEW q \in KeyPath, Untouched(q, list, next)
      PROVE  /\ AsPosted(object, source, q)
             /\ Sheltered(q, source, list, next) => Get(object, q) = Get(source, q)
  <2>1. /\ ~IsPrefix(q, path)
        /\ IsPrefix(path, q) => list[next].type = "object"
    <3>1. next \in 1..next
      OBVIOUS
    <3> QED
      BY <1>7, <3>1 DEF Untouched
  <2>2. /\ AsPosted(before, source, q)
        /\ Sheltered(q, source, list, n) => Get(before, q) = Get(source, q)
    <3>1. Untouched(q, list, n)
      <4>1. \A k \in 1..n : k \in 1..next
        OBVIOUS
      <4> QED
        BY <1>7, <4>1 DEF Untouched
    <3> QED
      BY <3>1 DEF Progress, Kept
  <2>3. CASE IsPrefix(path, q)
    <3>1. value = Get(source, path)
      BY <2>1, <2>3
    <3>2. Get(object, q) = Get(value, Rest(path, q))
      <4> HIDE DEF path
      <4> QED
        BY <1>2, <1>3, <2>3, GetBelowSet
    <3>3. Rest(path, q) \in KeyPath /\ path \o Rest(path, q) = q
      <4> HIDE DEF path
      <4> QED
        BY <1>2, <2>3, ConcatOfRest
    <3>4. Get(Get(source, path), Rest(path, q)) = Get(source, path \o Rest(path, q))
      <4> HIDE DEF path
      <4> QED
        BY <1>2, <3>3, GetGet
    <3>5. Get(object, q) = Get(source, q)
      <4> HIDE DEF path, object
      <4> QED
        BY <3>1, <3>2, <3>3, <3>4
    <3> QED
      BY <3>5 DEF AsPosted
  <2>4. CASE ~IsPrefix(path, q)
    <3>1. Get(object, q) = Get(before, q)
      <4> HIDE DEF path
      <4> QED
        BY <1>2, <1>3, <2>1, <2>4, GetBesideSet
    <3>2. Sheltered(q, source, list, next) => Sheltered(q, source, list, n)
      <4>1. \A k \in 1..next : k = next \/ k \in 1..n
        OBVIOUS
      <4> QED
        BY <2>4, <4>1 DEF Sheltered
    <3> QED
      BY <2>2, <3>1, <3>2 DEF AsPosted
  <2> QED
    BY <2>3, <2>4
<1>8. ASSUME NEW k \in 1..next
      PROVE  Settled(object, source, list[k])
  <2>1. k = next \/ k \in 1..n
    OBVIOUS
  <2> QED
    BY <1>5, <1>6, <2>1
<1>9. ASSUME NEW p \in DOMAIN object
      PROVE  CameWith(p, source, list, next)
  <2>1. p \in KeyPath
    BY <1>4 DEF IsDocument, KeyPath
  <2>2. CASE IsPrefix(path, p)
    <3>1. HasValue(source, list[next])
      BY DEF Outcome, HasValue, Missing
    <3>2. next \in 1..next
      OBVIOUS
    <3> QED
      BY <2>2, <3>1, <3>2 DEF CameWith
  <2>3. CASE ~IsPrefix(path, p)
    <3>1. p \in DOMAIN before
      <4> HIDE DEF path
      <4> QED
        BY <1>2, <1>3, <2>1, <2>3, SetType
    <3>2. CameWith(p, source, list, n)
      BY <3>1 DEF Progress, Kept
    <3>3. \A k \in 1..n : k \in 1..next
      OBVIOUS
    <3> QED
      BY <3>2, <3>3 DEF CameWith
  <2> QED
    BY <2>2, <2>3
<1>10. Kept(object, source, list, next)
  <2> HIDE DEF object
  <2> QED
    BY <1>7, <1>9 DEF Kept
<1> QED
  BY <1>4, <1>7, <1>8, <1>10 DEF Progress

(* One round, whatever it does.                                              *)
LEMMA OneRound ==
  ASSUME NEW source, IsDocument(source), NEW list, Orderly(list),
         NEW n \in Nat, NEW next \in 1..Len(list), next = n + 1,
         NEW before, Progress(before, source, list, n),
         NEW after \in ApplyRule(source, before, list[next])
  PROVE  Progress(after, source, list, next)
<1> DEFINE rule == list[next]
           raw == Get(source, rule.path)
<1>1. /\ Len(list) \in Nat /\ DOMAIN list = 1..Len(list) /\ WellFormed(rule)
      /\ \A k \in 1..n : ~IsPrefix(rule.path, list[k].path)
                         /\ (IsPrefix(list[k].path, rule.path) => list[k].type = "object")
  BY DEF Orderly
<1>2. rule.path \in KeyPath /\ rule.type \in FieldTypes
  BY <1>1 DEF WellFormed, KeyPath
<1>3. IsDocument(raw)
  BY <1>2, GetType
<1>4. CASE ~Missing(raw)
  <2>1. PICK v \in NormalizedValue(raw, rule) : after = Set(before, rule.path, v)
    BY <1>4 DEF ApplyRule
  <2>2. IsDocument(v) /\ ~Missing(v)
    <3> HIDE DEF rule, raw
    <3> QED
      BY <1>2, <1>3, <1>4, NormalizedAgain
  <2>3. v \in Outcome(source, rule)
    BY <1>4 DEF Outcome
  <2>4. rule.type = "object" => v = raw
    <3> HIDE DEF rule, raw
    <3> QED
      BY DEF NormalizedValue, OfType
  <2> QED
    BY <2>1, <2>2, <2>3, <2>4, FieldIsSet
<1>5. CASE Missing(raw) /\ rule.default # Undefined
  <2>1. after = Set(before, rule.path, rule.default)
    BY <1>5 DEF ApplyRule
  <2>2. IsDocument(rule.default) /\ ~Missing(rule.default) /\ rule.type # "object"
    BY <1>1, <1>5 DEF WellFormed
  <2>3. rule.default \in Outcome(source, rule)
    BY <1>5 DEF Outcome
  <2> QED
    BY <2>1, <2>2, <2>3, FieldIsSet
<1>6. CASE Missing(raw) /\ ~(rule.default # Undefined)
  <2>1. ~rule.required /\ after = before
    BY <1>6 DEF ApplyRule
  <2>2. Outcome(source, rule) = {Undefined, raw}
    BY <1>6, <2>1 DEF Outcome
  <2>3. Untouched(rule.path, list, n)
    BY <1>1 DEF Untouched
  <2>4. Get(before, rule.path) \in {Undefined, raw}
    BY <1>2, <2>3 DEF Progress, AsPosted
  <2>5. Settled(before, source, rule)
    BY <2>2, <2>4 DEF Settled
  <2>6. ASSUME NEW k \in 1..next
        PROVE  Settled(before, source, list[k])
    <3>1. k = next \/ k \in 1..n
      OBVIOUS
    <3> QED
      BY <2>5, <3>1 DEF Progress
  <2>7. ASSUME NEW q \in KeyPath, Untouched(q, list, next)
        PROVE  /\ AsPosted(before, source, q)
               /\ Sheltered(q, source, list, next) => Get(before, q) = Get(source, q)
    <3>1. \A k \in 1..n : k \in 1..next
      OBVIOUS
    <3>2. Untouched(q, list, n)
      BY <2>7, <3>1 DEF Untouched
    <3>3. Sheltered(q, source, list, next) => Sheltered(q, source, list, n)
      <4>1. \A k \in 1..next : k = next \/ k \in 1..n
        OBVIOUS
      <4> QED
        BY <1>6, <4>1 DEF Sheltered
    <3> QED
      BY <3>2, <3>3 DEF Progress, Kept
  <2>8. \A p \in DOMAIN before : CameWith(p, source, list, next)
    <3>1. \A k \in 1..n : k \in 1..next
      OBVIOUS
    <3> QED
      BY <3>1 DEF Progress, Kept, CameWith
  <2>9. IsDocument(before) /\ Kept(before, source, list, next)
    BY <2>7, <2>8 DEF Progress, Kept
  <2> QED
    BY <2>1, <2>6, <2>7, <2>9 DEF Progress
<1> QED
  BY <1>4, <1>5, <1>6

(* After every round: no round could be the first to go wrong.               *)
LEMMA EveryRound ==
  ASSUME NEW source, IsDocument(source), NEW list, Orderly(list),
         NEW n \in 0..Len(list), NEW object \in Rounds(source, list)[n]
  PROVE  Progress(object, source, list, n)
<1> DEFINE rounds == Rounds(source, list)
           Bad == {k \in 0..Len(list) : \E o \in rounds[k] : ~Progress(o, source, list, k)}
<1>1. Len(list) \in Nat
  BY DEF Orderly
<1>2. Unrolled(rounds, source, list, Len(list))
  BY <1>1, RoundsUnrolled
<1> HIDE DEF rounds
<1>3. \A k \in 0..Len(list) :
        rounds[k] = IF k = 0 THEN {Undefined} ELSE Round(source, list[k], rounds[k - 1])
  BY <1>2 DEF Unrolled
<1>4. ASSUME Bad # {}
      PROVE  FALSE
  <2>1. PICK k \in Bad : \A j \in Bad : k <= j
    <3>1. Bad \in SUBSET Nat
      BY <1>1
    <3> HIDE DEF Bad
    <3> QED
      BY <1>4, <3>1, SmallestNumber
  <2>2. PICK o \in rounds[k] : ~Progress(o, source, list, k)
    OBVIOUS
  <2>3. k # 0
    <3>1. ASSUME k = 0
          PROVE  FALSE
      <4>1. o = Undefined
        BY <1>1, <1>3, <2>2, <3>1
      <4> QED
        BY <2>2, <3>1, <4>1, FirstRound
    <3> QED
      BY <3>1
  <2> DEFINE m == k - 1
  <2>4. m \in Nat /\ m \in 0..Len(list) /\ k = m + 1 /\ k \in 1..Len(list) /\ m < k
    BY <1>1, <2>3
  <2>5. o \in Round(source, list[k], rounds[m])
    BY <1>3, <2>2, <2>3, <2>4
  <2>6. PICK b \in rounds[m] : o \in ApplyRule(source, b, list[k])
    BY <2>5 DEF Round
  <2>7. Progress(b, source, list, m)
    <3>1. m \notin Bad
      <4> HIDE DEF Bad
      <4>1. ~(k <= m)
        BY <2>4
      <4> QED
        BY <2>1, <4>1
    <3> QED
      BY <2>4, <3>1
  <2> HIDE DEF m
  <2> QED
    BY <2>2, <2>4, <2>6, <2>7, OneRound
<1>5. n \notin Bad
  BY <1>4
<1> QED
  BY <1>5 DEF rounds

(* What is stored satisfies every rule: the heart of Conforms.               *)
THEOREM NormalizedPayloadConforms ==
  ASSUME NEW source, IsDocument(source), NEW list, Orderly(list),
         NEW object \in NormalizedPayload(source, list)
  PROVE  IsDocument(object) /\ \A n \in DOMAIN list : Satisfies(object, list[n])
<1>1. /\ Len(list) \in Nat /\ DOMAIN list = 1..Len(list)
      /\ \A n \in DOMAIN list : WellFormed(list[n])
  BY DEF Orderly
<1>2. object \in Rounds(source, list)[Len(list)]
  BY DEF NormalizedPayload
<1>3. Progress(object, source, list, Len(list))
  BY <1>1, <1>2, EveryRound
<1>4. ASSUME NEW n \in DOMAIN list
      PROVE  Satisfies(object, list[n])
  <2>1. Settled(object, source, list[n]) /\ WellFormed(list[n])
    BY <1>1, <1>3 DEF Progress
  <2> QED
    BY <2>1, SettledSatisfies
<1> QED
  BY <1>3, <1>4 DEF Progress

(* The paths, one after the other, of the definition the server starts with. *)
LEMMA BuiltInPaths ==
  /\ Len(BuiltIn) = 15 /\ DOMAIN BuiltIn = 1..15
  /\ BuiltIn[1].path = <<"seed">> /\ BuiltIn[2].path = <<"preset">>
  /\ BuiltIn[3].path = <<"target">> /\ BuiltIn[4].path = <<"maxFaces">>
  /\ BuiltIn[5].path = <<"turnaround">>
  /\ BuiltIn[6].path = <<"target", "entityId">> /\ BuiltIn[7].path = <<"target", "entityKind">>
  /\ BuiltIn[8].path = <<"turnaround", "assetUri">>
  /\ BuiltIn[9].path = <<"views", "back", "assetUri">>
  /\ BuiltIn[10].path = <<"views", "left", "assetUri">>
  /\ BuiltIn[11].path = <<"views", "front", "assetUri">>
  /\ BuiltIn[12].path = <<"views", "right", "assetUri">>
  /\ BuiltIn[13].path = <<"target", "depictionIndex">>
  /\ BuiltIn[14].path = <<"turnaround", "normalized">>
  /\ BuiltIn[15].path = <<"turnaround", "formatVersion">>
<1>0. Len(BuiltIn) = 15 /\ DOMAIN BuiltIn = 1..15
  BY DEF BuiltIn
<1>1. /\ BuiltIn[1].path = <<"seed">> /\ BuiltIn[2].path = <<"preset">>
      /\ BuiltIn[3].path = <<"target">> /\ BuiltIn[4].path = <<"maxFaces">>
      /\ BuiltIn[5].path = <<"turnaround">>
  BY DEF BuiltIn, Rule, ViewUri
<1>2. /\ BuiltIn[6].path = <<"target", "entityId">> /\ BuiltIn[7].path = <<"target", "entityKind">>
      /\ BuiltIn[8].path = <<"turnaround", "assetUri">>
      /\ BuiltIn[13].path = <<"target", "depictionIndex">>
      /\ BuiltIn[14].path = <<"turnaround", "normalized">>
      /\ BuiltIn[15].path = <<"turnaround", "formatVersion">>
  BY DEF BuiltIn, Rule, ViewUri
<1>3. /\ BuiltIn[9].path = <<"views", "back", "assetUri">>
      /\ BuiltIn[10].path = <<"views", "left", "assetUri">>
      /\ BuiltIn[11].path = <<"views", "front", "assetUri">>
      /\ BuiltIn[12].path = <<"views", "right", "assetUri">>
  BY DEF BuiltIn, Rule, ViewUri
<1> QED
  BY <1>0, <1>1, <1>2, <1>3

LEMMA ShortSequences ==
  ASSUME NEW S, NEW a \in S, NEW b \in S, NEW c \in S
  PROVE  <<a>> \in Seq(S) /\ <<a, b>> \in Seq(S) /\ <<a, b, c>> \in Seq(S)
<1>1. <<a>> \in Seq(S)
  OBVIOUS
<1>2. <<a, b>> \in Seq(S)
  OBVIOUS
<1>3. <<a, b, c>> \in Seq(S)
  OBVIOUS
<1> QED
  BY <1>1, <1>2, <1>3

LEMMA BuiltInAreKeyPaths == \A n \in 1..15 : BuiltIn[n].path \in KeyPath
<1> DEFINE path(k) == BuiltIn[k].path
<1>1. /\ "seed" \in Keys /\ "preset" \in Keys /\ "target" \in Keys /\ "maxFaces" \in Keys
      /\ "turnaround" \in Keys /\ "views" \in Keys
  BY KeysAssumption
<1>2. /\ "entityId" \in Keys /\ "entityKind" \in Keys /\ "assetUri" \in Keys
      /\ "depictionIndex" \in Keys /\ "normalized" \in Keys /\ "formatVersion" \in Keys
  BY KeysAssumption
<1>3. /\ "back" \in Keys /\ "left" \in Keys /\ "front" \in Keys /\ "right" \in Keys
  BY KeysAssumption
<1>4. /\ path(1) \in Seq(Keys) /\ path(2) \in Seq(Keys) /\ path(3) \in Seq(Keys)
      /\ path(4) \in Seq(Keys) /\ path(5) \in Seq(Keys)
  BY <1>1, BuiltInPaths, ShortSequences
<1>5. /\ path(6) \in Seq(Keys) /\ path(7) \in Seq(Keys) /\ path(8) \in Seq(Keys)
      /\ path(13) \in Seq(Keys) /\ path(14) \in Seq(Keys) /\ path(15) \in Seq(Keys)
  BY <1>1, <1>2, BuiltInPaths, ShortSequences
<1>6. /\ path(9) \in Seq(Keys) /\ path(10) \in Seq(Keys) /\ path(11) \in Seq(Keys)
      /\ path(12) \in Seq(Keys)
  <2>1. \A name \in {"back", "left", "front", "right"} :
          <<"views", name, "assetUri">> \in Seq(Keys)
    BY <1>1, <1>2, <1>3, ShortSequences
  <2>2. /\ <<"views", "back", "assetUri">> \in Seq(Keys)
        /\ <<"views", "left", "assetUri">> \in Seq(Keys)
        /\ <<"views", "front", "assetUri">> \in Seq(Keys)
        /\ <<"views", "right", "assetUri">> \in Seq(Keys)
    BY <2>1
  <2> QED
    BY <2>2, BuiltInPaths
<1> HIDE DEF path
<1>7. \A n \in 1..15 : path(n) \in Seq(Keys)
  <2>1. \A n \in 1..5 : path(n) \in Seq(Keys)
    BY <1>4
  <2>2. \A n \in {6, 7, 8, 13, 14, 15} : path(n) \in Seq(Keys)
    BY <1>5
  <2>3. \A n \in 9..12 : path(n) \in Seq(Keys)
    BY <1>6
  <2>4. \A n \in 1..15 : n \in 1..5 \/ n \in {6, 7, 8, 13, 14, 15} \/ n \in 9..12
    OBVIOUS
  <2> QED
    BY <2>1, <2>2, <2>3, <2>4
<1> QED
  BY <1>7 DEF path, KeyPath

LEMMA BuiltInTypes ==
  /\ \A n \in {3, 5} : BuiltIn[n].type = "object" /\ BuiltIn[n].enum = {}
  /\ \A n \in {1, 4, 13} : BuiltIn[n].type = "integer"
  /\ \A n \in {2, 6, 7, 8, 9, 10, 11, 12, 15} : BuiltIn[n].type = "string"
  /\ BuiltIn[14].type = "boolean"
  /\ \A n \in 1..15 : n # 2 => BuiltIn[n].default = Undefined
  /\ BuiltIn[2].default = Value(Str("standard"))
  /\ BuiltIn[2].enum = {Str("fast"), Str("standard")}
<1>1. /\ BuiltIn[1].type = "integer" /\ BuiltIn[1].default = Undefined
      /\ BuiltIn[2].type = "string" /\ BuiltIn[2].default = Value(Str("standard"))
      /\ BuiltIn[2].enum = {Str("fast"), Str("standard")}
      /\ BuiltIn[3].type = "object" /\ BuiltIn[3].default = Undefined /\ BuiltIn[3].enum = {}
      /\ BuiltIn[4].type = "integer" /\ BuiltIn[4].default = Undefined
      /\ BuiltIn[5].type = "object" /\ BuiltIn[5].default = Undefined /\ BuiltIn[5].enum = {}
  BY ZenonT(60) DEF BuiltIn, Rule, ViewUri
<1>2. /\ BuiltIn[6].type = "string" /\ BuiltIn[6].default = Undefined
      /\ BuiltIn[7].type = "string" /\ BuiltIn[7].default = Undefined
      /\ BuiltIn[8].type = "string" /\ BuiltIn[8].default = Undefined
      /\ BuiltIn[9].type = "string" /\ BuiltIn[9].default = Undefined
      /\ BuiltIn[10].type = "string" /\ BuiltIn[10].default = Undefined
  BY DEF BuiltIn, Rule, ViewUri
<1>3. /\ BuiltIn[11].type = "string" /\ BuiltIn[11].default = Undefined
      /\ BuiltIn[12].type = "string" /\ BuiltIn[12].default = Undefined
      /\ BuiltIn[13].type = "integer" /\ BuiltIn[13].default = Undefined
      /\ BuiltIn[14].type = "boolean" /\ BuiltIn[14].default = Undefined
      /\ BuiltIn[15].type = "string" /\ BuiltIn[15].default = Undefined
  BY DEF BuiltIn, Rule, ViewUri
<1> QED
  BY <1>1, <1>2, <1>3

LEMMA BuiltInOrder ==
  ASSUME NEW m \in 1..15, NEW n \in 1..15, m < n
  PROVE  /\ ~IsPrefix(BuiltIn[n].path, BuiltIn[m].path)
         /\ IsPrefix(BuiltIn[m].path, BuiltIn[n].path) => BuiltIn[m].type = "object"
<1> DEFINE path(k) == BuiltIn[k].path
           Umbrellas == {3, 5}
<1>1. \A k \in 1..15 : path(k) \in KeyPath
  BY BuiltInAreKeyPaths
<1>2. /\ \A k \in 1..5 : Len(path(k)) = 1
      /\ \A k \in {6, 7, 8, 13, 14, 15} : Len(path(k)) = 2
      /\ \A k \in 9..12 : Len(path(k)) = 3
  <2>1. /\ Len(path(1)) = 1 /\ Len(path(2)) = 1 /\ Len(path(3)) = 1 /\ Len(path(4)) = 1
        /\ Len(path(5)) = 1
    BY BuiltInPaths
  <2>2. /\ Len(path(6)) = 2 /\ Len(path(7)) = 2 /\ Len(path(8)) = 2 /\ Len(path(13)) = 2
        /\ Len(path(14)) = 2 /\ Len(path(15)) = 2
    BY BuiltInPaths
  <2>3. /\ Len(path(9)) = 3 /\ Len(path(10)) = 3 /\ Len(path(11)) = 3 /\ Len(path(12)) = 3
    BY BuiltInPaths
  <2> HIDE DEF path
  <2> QED
    BY <2>1, <2>2, <2>3
<1>3. /\ path(1)[1] = "seed" /\ path(2)[1] = "preset" /\ path(3)[1] = "target"
      /\ path(4)[1] = "maxFaces" /\ path(5)[1] = "turnaround"
  BY BuiltInPaths
<1>4. /\ path(6)[1] = "target" /\ path(6)[2] = "entityId"
      /\ path(7)[1] = "target" /\ path(7)[2] = "entityKind"
      /\ path(8)[1] = "turnaround" /\ path(8)[2] = "assetUri"
      /\ path(13)[1] = "target" /\ path(13)[2] = "depictionIndex"
      /\ path(14)[1] = "turnaround" /\ path(14)[2] = "normalized"
      /\ path(15)[1] = "turnaround" /\ path(15)[2] = "formatVersion"
  BY BuiltInPaths
<1>5. /\ path(9)[1] = "views" /\ path(9)[2] = "back"
      /\ path(10)[1] = "views" /\ path(10)[2] = "left"
      /\ path(11)[1] = "views" /\ path(11)[2] = "front"
      /\ path(12)[1] = "views" /\ path(12)[2] = "right"
  BY BuiltInPaths
<1> HIDE DEF path
<1>6. ASSUME NEW i \in 1..15, NEW j \in 1..15, IsPrefix(path(i), path(j))
      PROVE  /\ Len(path(i)) <= Len(path(j))
             /\ path(i)[1] = path(j)[1]
             /\ Len(path(i)) >= 2 => path(i)[2] = path(j)[2]
  <2>1. path(i) \in KeyPath /\ path(j) \in KeyPath /\ Len(path(i)) \in {1, 2, 3}
    BY <1>1, <1>2
  <2>2. /\ Len(path(i)) <= Len(path(j))
        /\ \A k \in 1..Len(path(i)) : path(i)[k] = path(j)[k]
    BY <1>6, <2>1, PrefixAgrees
  <2> QED
    BY <2>1, <2>2
<1>7. ASSUME NEW i \in 1..15, NEW j \in 1..15, i # j, IsPrefix(path(i), path(j))
      PROVE  i < j /\ i \in Umbrellas
  <2>1. /\ Len(path(i)) <= Len(path(j))
        /\ path(i)[1] = path(j)[1]
        /\ Len(path(i)) >= 2 => path(i)[2] = path(j)[2]
    BY <1>6, <1>7
  <2>2. CASE i \in 1..5
    <3>1. CASE j \in 1..5
      BY <1>3, <1>7, <2>1, <2>2, <3>1
    <3>2. CASE j \in 6..15
      BY <1>3, <1>4, <1>5, <2>1, <2>2, <3>2, SMTT(30)
    <3> QED
      BY <3>1, <3>2
  <2>3. CASE i \in {6, 7, 8, 13, 14, 15}
    <3>1. Len(path(i)) = 2 /\ ~(j \in 1..5)
      <4>1. Len(path(i)) = 2
        BY <1>2, <2>3
      <4>2. Len(path(j)) # 1
        BY <2>1, <4>1
      <4> QED
        BY <1>2, <4>1, <4>2
    <3>2. path(i)[1] = path(j)[1] /\ path(i)[2] = path(j)[2]
      BY <2>1, <3>1
    <3>3. CASE j \in {6, 7, 8, 13, 14, 15}
      BY <1>4, <1>7, <2>3, <3>2, <3>3
    <3>4. CASE j \in 9..12
      BY <1>4, <1>5, <2>3, <3>2, <3>4
    <3> QED
      BY <3>1, <3>3, <3>4
  <2>4. CASE i \in 9..12
    <3>1. Len(path(i)) = 3
      BY <1>2, <2>4
    <3>2. j \in 9..12
      <4> DEFINE length == Len(path(j))
      <4>1. 3 <= length /\ length \in {1, 2, 3}
        BY <1>2, <2>1, <3>1
      <4> HIDE DEF length
      <4>2. j \in 1..5 \/ j \in {6, 7, 8, 13, 14, 15} \/ j \in 9..12
        OBVIOUS
      <4>3. length = 3
        BY <4>1
      <4> QED
        BY <1>2, <4>2, <4>3 DEF length
    <3>3. path(i)[2] = path(j)[2]
      BY <2>1, <3>1
    <3> QED
      BY <1>5, <1>7, <2>4, <3>2, <3>3
  <2> QED
    BY <2>2, <2>3, <2>4
<1>8. ~IsPrefix(path(n), path(m))
  BY <1>7
<1>9. IsPrefix(path(m), path(n)) => BuiltIn[m].type = "object"
  BY <1>7, BuiltInTypes
<1> QED
  BY <1>8, <1>9 DEF path

LEMMA BuiltInIsOrderly == Orderly(BuiltIn)
<1>1. /\ Len(BuiltIn) = 15 /\ DOMAIN BuiltIn = 1..15
      /\ \A n \in 1..15 : BuiltIn[n].path \in Seq(Keys)
  BY BuiltInPaths, BuiltInAreKeyPaths DEF KeyPath
<1>2. \A n \in 1..15 : BuiltIn[n].type \in FieldTypes
  BY BuiltInTypes DEF FieldTypes
<1>3. \A n \in 1..15 : BuiltIn[n].type = "object" =>
        BuiltIn[n].enum = {} /\ BuiltIn[n].default = Undefined
  BY BuiltInTypes
<1>4. LET preset == BuiltIn[2] IN
      /\ IsDocument(preset.default) /\ ~Missing(preset.default)
      /\ NormalizedValue(preset.default, preset) = {preset.default}
  <2> DEFINE rule == BuiltIn[2]
             value == Value(Str("standard"))
  <2>1. rule.type = "string" /\ rule.default = value /\ rule.enum = {Str("fast"), Str("standard")}
    BY BuiltInTypes
  <2> HIDE DEF rule
  <2>2. /\ Str("standard") # EmptyObject /\ Str("standard") # Null /\ Str("standard") # Str("")
        /\ Str("standard") \notin {Num(0), Bool(FALSE), Null}
        /\ Str("standard")[1] = "string" /\ Str("standard")[2] = "standard"
    BY DEF Str, EmptyObject, Null, Num, Bool
  <2>3. /\ IsDocument(value) /\ ~Missing(value) /\ ~IsObject(value)
        /\ value[<<>>] = Str("standard")
    BY <2>2, ValueOfScalar
  <2>4. Text(value) = "standard"
    BY <2>2, <2>3 DEF Text
  <2>5. OfType(value, rule) = {value}
    <3>1. OfType(value, rule) = {Value(Str(text)) : text \in {"standard"} \ {""}}
      BY <2>1, <2>4 DEF OfType
    <3> QED
      BY <3>1
  <2>6. value \in {Value(e) : e \in rule.enum}
    BY <2>1
  <2>7. NormalizedValue(value, rule) = {value}
    <3> HIDE DEF value
    <3> QED
      BY <2>5, <2>6 DEF NormalizedValue
  <2> HIDE DEF value
  <2>8. IsDocument(rule.default) /\ ~Missing(rule.default) /\ NormalizedValue(rule.default, rule) = {rule.default}
    BY <2>1, <2>3, <2>7
  <2> QED
    BY <2>8 DEF rule
<1>5. \A n \in 1..15 : WellFormed(BuiltIn[n])
  <2>1. ASSUME NEW n \in 1..15
        PROVE  WellFormed(BuiltIn[n])
    <3>1. CASE n = 2
      BY <1>1, <1>2, <1>3, <1>4, <3>1 DEF WellFormed
    <3>2. CASE n # 2
      <4>1. BuiltIn[n].default = Undefined
        BY <3>2, BuiltInTypes
      <4> QED
        BY <1>1, <1>2, <1>3, <4>1 DEF WellFormed
    <3> QED
      BY <3>1, <3>2
  <2> QED
    BY <2>1
<1>6. \A m, n \in 1..15 : m < n =>
        /\ ~IsPrefix(BuiltIn[n].path, BuiltIn[m].path)
        /\ IsPrefix(BuiltIn[m].path, BuiltIn[n].path) => BuiltIn[m].type = "object"
  BY BuiltInOrder
<1>7. Len(BuiltIn) \in Nat
  BY <1>1
<1> QED
  BY <1>1, <1>5, <1>6, <1>7 DEF Orderly

-----------------------------------------------------------------------------
(* The way of a payload to its task: it is normalised by an orderly          *)
(* definition, and nobody touches what was stored.                           *)
StoredAsNormalized ==
  /\ stage \in {"starting", "serving", "accepted", "rejected", "hydrated"} =>
       IsDocument(payload) /\ Orderly(rules)
  /\ stage \in {"accepted", "rejected", "hydrated"} =>
       stored \in NormalizedPayload(payload, rules)

LEMMA IntakeInitStored == IntakeInit => StoredAsNormalized
  BY PayloadsAssumption, RulesAssumption DEF IntakeInit, StoredAsNormalized

LEMMA IntakeNextStored ==
  StoredAsNormalized /\ [IntakeNext]_intakeVars => StoredAsNormalized'
<1> SUFFICES ASSUME StoredAsNormalized, [IntakeNext]_intakeVars
             PROVE  StoredAsNormalized'
  OBVIOUS
<1>1. CASE EnsureDefinition
  <2>1. stage = "starting" /\ stage' = "serving" /\ payload' = payload
        /\ rules' \in {BuiltIn, rules}
    BY <1>1 DEF EnsureDefinition
  <2>2. IsDocument(payload') /\ Orderly(rules')
    BY <2>1, BuiltInIsOrderly DEF StoredAsNormalized
  <2> QED
    BY <2>1, <2>2 DEF StoredAsNormalized
<1>2. CASE Post
  <2>1. /\ stage = "serving" /\ rules' = rules /\ payload' = payload
        /\ \/ stage' = "refused"
           \/ stage' = "accepted" /\ stored' \in NormalizedPayload(payload, rules)
    BY <1>2 DEF Post
  <2> QED
    BY <2>1 DEF StoredAsNormalized
<1>3. CASE Hydrate
  <2>1. /\ stage = "accepted" /\ stage' \in {"rejected", "hydrated", "failed"}
        /\ rules' = rules /\ payload' = payload /\ stored' = stored
    BY <1>3 DEF Hydrate
  <2> QED
    BY <2>1 DEF StoredAsNormalized
<1>4. CASE Resolve \/ SliceSheet \/ SliceFails \/ UseViews
  <2>1. stage' \in {"resolving", "staged", "noFront", "failed"}
    BY <1>4 DEF Resolve, SliceSheet, SliceFails, UseViews, Stages3D
  <2> QED
    BY <2>1 DEF StoredAsNormalized
<1>5. CASE UNCHANGED intakeVars
  BY <1>5 DEF intakeVars, StoredAsNormalized
<1> QED
  BY <1>1, <1>2, <1>3, <1>4, <1>5 DEF IntakeNext

(* Whatever is posted and whichever orderly definition an earlier release    *)
(* left: what a task stores satisfies every rule of the enabled definition.  *)
THEOREM IntakeConforms == IntakeSpec => []Conforms
<1>1. StoredAsNormalized => Conforms
  <2> SUFFICES ASSUME StoredAsNormalized, stage \in {"accepted", "rejected", "hydrated"},
                      NEW n \in DOMAIN rules
               PROVE  Satisfies(stored, rules[n])
    BY DEF Conforms
  <2>1. /\ IsDocument(payload) /\ Orderly(rules)
        /\ stored \in NormalizedPayload(payload, rules)
    BY DEF StoredAsNormalized
  <2> QED
    BY <2>1, NormalizedPayloadConforms
<1> QED
  BY <1>1, IntakeInitStored, IntakeNextStored, PTL DEF IntakeSpec

-----------------------------------------------------------------------------
(* What the definition accepts.  No round is the last one if every rule has  *)
(* an outcome,                                                               *)
LEMMA RoundGoesOn ==
  ASSUME NEW source, NEW before, NEW rule, Outcome(source, rule) # {}
  PROVE  ApplyRule(source, before, rule) # {}
<1> DEFINE raw == Get(source, rule.path)
<1>1. CASE ~Missing(raw)
  <2>1. PICK v : v \in NormalizedValue(raw, rule)
    BY <1>1 DEF Outcome
  <2>2. Set(before, rule.path, v) \in ApplyRule(source, before, rule)
    BY <1>1, <2>1 DEF ApplyRule
  <2> QED
    BY <2>2
<1>2. CASE Missing(raw)
  BY <1>2 DEF Outcome, ApplyRule
<1> QED
  BY <1>1, <1>2

LEMMA RoundsGoOn ==
  ASSUME NEW source, NEW list, Len(list) \in Nat,
         \A k \in 1..Len(list) : Outcome(source, list[k]) # {},
         NEW n \in 0..Len(list)
  PROVE  Rounds(source, list)[n] # {}
<1> DEFINE rounds == Rounds(source, list)
           Bad == {k \in 0..Len(list) : rounds[k] = {}}
<1>1. Unrolled(rounds, source, list, Len(list))
  BY RoundsUnrolled
<1> HIDE DEF rounds
<1>2. \A k \in 0..Len(list) :
        rounds[k] = IF k = 0 THEN {Undefined} ELSE Round(source, list[k], rounds[k - 1])
  BY <1>1 DEF Unrolled
<1>3. ASSUME Bad # {}
      PROVE  FALSE
  <2>1. PICK k \in Bad : \A j \in Bad : k <= j
    <3>1. Bad \in SUBSET Nat
      OBVIOUS
    <3> HIDE DEF Bad
    <3> QED
      BY <1>3, <3>1, SmallestNumber
  <2>2. k # 0
    <3>1. 0 \in 0..Len(list)
      OBVIOUS
    <3>2. rounds[0] = {Undefined}
      BY <1>2, <3>1
    <3> QED
      BY <3>2
  <2> DEFINE m == k - 1
  <2>3. m \in 0..Len(list) /\ k \in 1..Len(list) /\ m < k
    BY <2>2
  <2>4. m \notin Bad
    <3>1. ~(k <= m)
      BY <2>3
    <3> HIDE DEF Bad
    <3> QED
      BY <2>1, <3>1
  <2>5. PICK b : b \in rounds[m]
    BY <2>3, <2>4
  <2>6. PICK o : o \in ApplyRule(source, b, list[k])
    BY <2>3, RoundGoesOn
  <2>7. o \in Round(source, list[k], rounds[m])
    BY <2>5, <2>6 DEF Round
  <2>8. rounds[k] = Round(source, list[k], rounds[m])
    BY <1>2, <2>2
  <2> QED
    BY <2>7, <2>8
<1> QED
  BY <1>3 DEF rounds

(* and no field is unknown if no leaf is.                                    *)
LEMMA FieldsAllowed ==
  ASSUME NEW object, IsDocument(object), NEW list,
         \A n \in DOMAIN list : list[n].path \in KeyPath,
         \A p \in DOMAIN object : Allowed(p, list),
         NEW path \in Paths(object)
  PROVE  path \in KeyPath /\ Len(path) >= 1 /\ Allowed(path, list)
<1>1. PICK p \in DOMAIN object : \E n \in 1..Len(p) : path = SubSeq(p, 1, n)
  BY DEF Paths
<1>2. PICK n \in 1..Len(p) : path = SubSeq(p, 1, n)
  BY <1>1
<1>3. p \in KeyPath /\ Len(p) \in Nat
  BY DEF IsDocument, KeyPath
<1>4. path \in KeyPath /\ Len(path) = n /\ \A i \in 1..n : path[i] = p[i]
  BY <1>2, <1>3, SubSeqProperties DEF KeyPath
<1>5. IsPrefix(path, p)
  BY <1>3, <1>4, PrefixAgrees
<1>6. PICK k \in DOMAIN list : IsPrefix(list[k].path, p) \/ IsPrefix(p, list[k].path)
  BY DEF Allowed
<1>7. IsPrefix(list[k].path, path) \/ IsPrefix(path, list[k].path)
  BY <1>3, <1>4, <1>5, <1>6, PrefixOrder
<1> QED
  BY <1>4, <1>7 DEF Allowed

(* The first keys of the fields of the definition.                           *)
LEMMA BuiltInHeads ==
  ASSUME NEW n \in 1..15
  PROVE  /\ BuiltIn[n].path[1] \in {"seed", "preset", "target", "maxFaces", "turnaround", "views"}
         /\ BuiltIn[n].path[1] = "target" => n \in {3, 6, 7, 13}
         /\ BuiltIn[n].path[1] = "turnaround" => n \in {5, 8, 14, 15}
         /\ BuiltIn[n].path[1] = "views" => n \in 9..12
<1> DEFINE head(k) == BuiltIn[k].path[1]
<1>1. /\ head(1) = "seed" /\ head(2) = "preset" /\ head(3) = "target"
      /\ head(4) = "maxFaces" /\ head(5) = "turnaround"
  BY BuiltInPaths
<1>2. /\ head(6) = "target" /\ head(7) = "target" /\ head(8) = "turnaround"
      /\ head(13) = "target" /\ head(14) = "turnaround" /\ head(15) = "turnaround"
  BY BuiltInPaths
<1>3. head(9) = "views" /\ head(10) = "views" /\ head(11) = "views" /\ head(12) = "views"
  BY BuiltInPaths
<1> HIDE DEF head
<1>4. n \in 1..5 \/ n \in {6, 7, 8, 13, 14, 15} \/ n \in 9..12
  OBVIOUS
<1>5. /\ head(n) \in {"seed", "preset", "target", "maxFaces", "turnaround", "views"}
      /\ head(n) = "target" => n \in {3, 6, 7, 13}
      /\ head(n) = "turnaround" => n \in {5, 8, 14, 15}
      /\ head(n) = "views" => n \in 9..12
  <2>1. CASE n \in 1..5
    BY <1>1, <2>1
  <2>2. CASE n \in {6, 7, 8, 13, 14, 15}
    BY <1>2, <2>2
  <2>3. CASE n \in 9..12
    BY <1>3, <2>3
  <2> QED
    BY <1>4, <2>1, <2>2, <2>3
<1> QED
  BY <1>5 DEF head

LEMMA BuiltInLengths ==
  ASSUME NEW n \in 1..15
  PROVE  Len(BuiltIn[n].path) = IF n \in 1..5 THEN 1 ELSE IF n \in 9..12 THEN 3 ELSE 2
<1> DEFINE length(k) == Len(BuiltIn[k].path)
<1>1. length(1) = 1 /\ length(2) = 1 /\ length(3) = 1 /\ length(4) = 1 /\ length(5) = 1
  BY BuiltInPaths
<1>2. /\ length(6) = 2 /\ length(7) = 2 /\ length(8) = 2
      /\ length(13) = 2 /\ length(14) = 2 /\ length(15) = 2
  BY BuiltInPaths
<1>3. length(9) = 3 /\ length(10) = 3 /\ length(11) = 3 /\ length(12) = 3
  BY BuiltInPaths
<1> HIDE DEF length
<1>4. length(n) = IF n \in 1..5 THEN 1 ELSE IF n \in 9..12 THEN 3 ELSE 2
  BY <1>1, <1>2, <1>3
<1> QED
  BY <1>4 DEF length

(* A path at or below a field begins with the field's first key.             *)
LEMMA BelowField ==
  ASSUME NEW n \in 1..15, NEW path \in KeyPath, IsPrefix(BuiltIn[n].path, path)
  PROVE  /\ BuiltIn[n].path[1] = path[1]
         /\ Len(BuiltIn[n].path) <= Len(path) /\ Len(path) \in Nat
         /\ n \in 9..12 => BuiltIn[n].path[2] = path[2]
<1>1. BuiltIn[n].path \in KeyPath
  BY BuiltInAreKeyPaths
<1>2. /\ Len(BuiltIn[n].path) <= Len(path)
      /\ \A i \in 1..Len(BuiltIn[n].path) : BuiltIn[n].path[i] = path[i]
  BY <1>1, PrefixAgrees
<1>3. 1 \in 1..Len(BuiltIn[n].path) /\ (n \in 9..12 => 2 \in 1..Len(BuiltIn[n].path))
  <2> DEFINE length == Len(BuiltIn[n].path)
  <2>1. length = IF n \in 1..5 THEN 1 ELSE IF n \in 9..12 THEN 3 ELSE 2
    BY BuiltInLengths
  <2> HIDE DEF length
  <2>2. 1 \in 1..length
    BY <2>1
  <2>3. n \in 9..12 => 2 \in 1..length
    <3>1. n \in 9..12 => ~(n \in 1..5)
      OBVIOUS
    <3> QED
      BY <2>1, <3>1
  <2> QED
    BY <2>2, <2>3 DEF length
<1> QED
  BY <1>2, <1>3 DEF KeyPath

LEMMA NotReserved ==
  ASSUME NEW path \in KeyPath, Len(path) >= 1, Allowed(path, BuiltIn)
  PROVE  path[1] \notin Reserved
<1>1. PICK n \in 1..15 : IsPrefix(BuiltIn[n].path, path) \/ IsPrefix(path, BuiltIn[n].path)
  BY BuiltInPaths DEF Allowed
<1>2. path[1] = BuiltIn[n].path[1]
  <2>1. CASE IsPrefix(BuiltIn[n].path, path)
    BY <2>1, BelowField
  <2>2. CASE IsPrefix(path, BuiltIn[n].path)
    <3>1. \A i \in 1..Len(path) : path[i] = BuiltIn[n].path[i]
      BY <2>2, BuiltInAreKeyPaths, PrefixAgrees
    <3>2. 1 \in 1..Len(path)
      BY DEF KeyPath
    <3> QED
      BY <3>1, <3>2
  <2> QED
    BY <1>1, <2>1, <2>2
<1> QED
  BY <1>2, BuiltInHeads DEF Reserved

(* So a payload of known fields is accepted if every rule has an outcome.    *)
LEMMA Accepted ==
  ASSUME NEW object, IsDocument(object), \A p \in DOMAIN object : Allowed(p, BuiltIn),
         \A n \in 1..15 : Outcome(object, BuiltIn[n]) # {}
  PROVE  NormalizedPayload(object, BuiltIn) # {}
<1>1. Len(BuiltIn) = 15 /\ DOMAIN BuiltIn = 1..15
  BY BuiltInPaths
<1>2. ASSUME NEW p \in Paths(object)
      PROVE  p[1] \notin Reserved /\ Allowed(p, BuiltIn)
  <2>1. p \in KeyPath /\ Len(p) >= 1 /\ Allowed(p, BuiltIn)
    BY <1>1, BuiltInAreKeyPaths, FieldsAllowed
  <2> QED
    BY <2>1, NotReserved
<1>3. Rounds(object, BuiltIn)[15] # {}
  <2>1. /\ Len(BuiltIn) \in Nat /\ 15 \in 0..Len(BuiltIn)
        /\ \A n \in 1..Len(BuiltIn) : Outcome(object, BuiltIn[n]) # {}
    BY <1>1
  <2> QED
    BY <2>1, RoundsGoOn
<1> QED
  BY <1>1, <1>2, <1>3 DEF NormalizedPayload

-----------------------------------------------------------------------------
(* What the definition and the worker take a value for.                      *)

LEMMA TextOfString ==
  ASSUME NEW text
  PROVE  Text(Value(Str(text))) = text /\ ~Omitted(Value(Str(text)))
         /\ TextGiven(Value(Str(text))) = text
<1> DEFINE value == Value(Str(text))
<1>1. /\ Str(text) # EmptyObject /\ Str(text) # Null
      /\ Str(text) # Num(0) /\ Str(text) # Bool(FALSE)
      /\ Str(text)[1] = "string" /\ Str(text)[2] = text
  BY DEF Str, EmptyObject, Null, Num, Bool
<1>2. ~IsObject(value) /\ value[<<>>] = Str(text) /\ value # Undefined
  BY <1>1, ValueOfScalar
<1>3. Text(value) = text
  <2> HIDE DEF value
  <2> QED
    BY <1>1, <1>2 DEF Text
<1>4. value # Value(Null) /\ value # Value(Num(0)) /\ value # Value(Bool(FALSE))
  <2>1. ASSUME NEW t, value = Value(t)
        PROVE  t = Str(text)
    BY <2>1, ValueOfScalar
  <2> QED
    BY <1>1, <2>1
<1> HIDE DEF value
<1>5. ~Omitted(value) /\ TextGiven(value) = text
  BY <1>2, <1>3, <1>4 DEF Omitted, TextGiven
<1> QED
  BY <1>3, <1>5 DEF value

(* 0 and FALSE are the values that have a text for the worker only.          *)
LEMMA TextsAlike ==
  ASSUME NEW value
  PROVE  /\ Missing(value) => TextGiven(value) = ""
         /\ ~Missing(value) /\ Text(value) # "" => TextGiven(value) = Text(value)
         /\ TextGiven(value) \notin {"", "0", "FALSE"} =>
              ~Missing(value) /\ Text(value) = TextGiven(value)
<1>1. Missing(value) => TextGiven(value) = ""
  <2>1. CASE Omitted(value)
    BY <2>1 DEF TextGiven
  <2>2. CASE value = Value(Str(""))
    BY <2>2, TextOfString
  <2> QED
    BY <2>1, <2>2 DEF Missing, Omitted
<1>2. value \in {Value(Num(0)), Value(Bool(FALSE))} => Text(value) = ""
  <2>1. ASSUME NEW s, s \in {Num(0), Bool(FALSE), Null}, s # EmptyObject,
               s[1] \notin {"string", "padded"}
        PROVE  Text(Value(s)) = ""
    <3> DEFINE v == Value(s)
    <3>1. ~IsObject(v) /\ v[<<>>] = s
      BY <2>1, ValueOfScalar
    <3> HIDE DEF v
    <3>2. Text(v) = ""
      BY <2>1, <3>1 DEF Text
    <3> QED
      BY <3>2 DEF v
  <2>2. Num(0) # EmptyObject /\ Num(0)[1] \notin {"string", "padded"}
    BY DEF EmptyObject, Num
  <2>3. Bool(FALSE) # EmptyObject /\ Bool(FALSE)[1] \notin {"string", "padded"}
    BY DEF EmptyObject, Bool
  <2>4. Text(Value(Num(0))) = "" /\ Text(Value(Bool(FALSE))) = ""
    BY <2>1, <2>2, <2>3
  <2> QED
    BY <2>4
<1>3. ~Missing(value) => ~Omitted(value)
  BY DEF Missing, Omitted
<1>4. ~Omitted(value) =>
        \/ TextGiven(value) \in {"0", "FALSE"}
        \/ TextGiven(value) = Text(value)
  BY DEF TextGiven
<1>5. TextGiven(value) # "" => ~Omitted(value)
  BY DEF TextGiven
<1>6. ~Missing(value) /\ Text(value) # "" => TextGiven(value) = Text(value)
  BY <1>2, <1>3 DEF TextGiven
<1> QED
  BY <1>1, <1>4, <1>5, <1>6

(* A text is trimmed, and is the same text for the worker as before.         *)
LEMMA TextOutcome ==
  ASSUME NEW source, NEW rule, rule.type = "string", rule.default = Undefined,
         NEW got \in Outcome(source, rule)
  PROVE  /\ TextGiven(got) = TextGiven(Get(source, rule.path))
         /\ ~Missing(Get(source, rule.path)) => ~Omitted(got)
         /\ Omitted(Get(source, rule.path)) => Omitted(got)
<1> DEFINE raw == Get(source, rule.path)
<1>1. CASE ~Missing(raw)
  <2>1. got \in OfType(raw, rule)
    BY <1>1 DEF Outcome, NormalizedValue
  <2>2. PICK text \in {Text(raw)} \ {""} : got = Value(Str(text))
    <3> HIDE DEF raw
    <3> QED
      BY <2>1 DEF OfType
  <2>3. TextGiven(raw) = text
    <3> HIDE DEF raw
    <3> QED
      BY <1>1, <2>2, TextsAlike
  <2>4. TextGiven(got) = text /\ ~Omitted(got)
    BY <2>2, TextOfString
  <2>5. ~Omitted(raw)
    BY <1>1 DEF Missing, Omitted
  <2> QED
    BY <2>3, <2>4, <2>5
<1>2. CASE Missing(raw)
  <2>1. got \in {Undefined, raw}
    BY <1>2 DEF Outcome
  <2>2. Missing(got)
    BY <1>2, <2>1 DEF Missing
  <2>3. TextGiven(got) = "" /\ TextGiven(raw) = ""
    BY <1>2, <2>2, TextsAlike
  <2> QED
    BY <1>2, <2>1, <2>3 DEF Omitted
<1> QED
  BY <1>1, <1>2

(* A text that is not empty for the worker is a value for the rule.          *)
TextFits(value, rule) ==
  \/ Missing(value) /\ ~rule.required
  \/ /\ ~Missing(value) /\ Text(value) # ""
     /\ rule.enum # {} => Str(Text(value)) \in rule.enum

LEMMA TextIsTaken ==
  ASSUME NEW source, NEW rule, rule.type = "string", TextFits(Get(source, rule.path), rule)
  PROVE  Outcome(source, rule) # {}
<1> DEFINE raw == Get(source, rule.path)
<1>1. CASE Missing(raw)
  BY <1>1 DEF Outcome, TextFits
<1>2. CASE ~Missing(raw)
  <2> DEFINE v == Value(Str(Text(raw)))
  <2>1. Text(raw) # "" /\ (rule.enum # {} => Str(Text(raw)) \in rule.enum)
    BY <1>2 DEF TextFits
  <2>2. v \in OfType(raw, rule)
    <3> HIDE DEF raw
    <3> QED
      BY <2>1 DEF OfType
  <2>3. v \in NormalizedValue(raw, rule)
    <3>1. rule.enum # {} => v \in {Value(e) : e \in rule.enum}
      BY <2>1
    <3> HIDE DEF raw, v
    <3> QED
      BY <2>2, <3>1 DEF NormalizedValue
  <2>4. v \in Outcome(source, rule)
    BY <1>2, <2>3 DEF Outcome
  <2> QED
    BY <2>4
<1> QED
  BY <1>1, <1>2

(* A number is cut to an integer by both, and by the worker only once.       *)
LEMMA NumberIsOne ==
  ASSUME NEW value, NEW m \in NumberOf(value), NEW n \in NumberOf(value)
  PROVE  m = n
<1>1. CASE IsObject(value)
  BY <1>1 DEF NumberOf
<1>2. CASE ~IsObject(value)
  <2> DEFINE scalar == value[<<>>]
             Zeros == {Num(0), Padded(""), Bool(FALSE), Padded("0"), Str("0")}
             Sevens == {Str("7"), Padded("7")}
             Thousands == {Str("2000"), Padded("2000")}
  <2>1. NumberOf(value) =
         CASE scalar[1] \in {"number", "fraction"} -> {scalar}
           [] scalar \in Zeros -> {Num(0)}
           [] scalar = Bool(TRUE) -> {Num(1)}
           [] scalar \in Sevens -> {Num(7)}
           [] scalar \in Thousands -> {Num(2000)}
           [] OTHER -> {}
    BY <1>2 DEF NumberOf
  <2>2. scalar[1] \in {"number", "fraction"} =>
           /\ scalar \notin Sevens \cup Thousands /\ scalar # Bool(TRUE)
           /\ scalar \in Zeros => scalar = Num(0)
    <3>1. /\ Str("7")[1] = "string" /\ Padded("7")[1] = "padded" /\ Bool(TRUE)[1] = "boolean"
          /\ Str("2000")[1] = "string" /\ Padded("2000")[1] = "padded"
      BY DEF Padded, Bool, Str
    <3>2. /\ Padded("")[1] = "padded" /\ Bool(FALSE)[1] = "boolean" /\ Padded("0")[1] = "padded"
          /\ Str("0")[1] = "string"
      BY DEF Padded, Bool, Str
    <3> HIDE DEF scalar
    <3>3. scalar[1] \in {"number", "fraction"} =>
            scalar \notin Sevens /\ scalar \notin Thousands /\ scalar # Bool(TRUE)
      BY <3>1
    <3>4. scalar[1] \in {"number", "fraction"} /\ scalar \in Zeros => scalar = Num(0)
      BY <3>2
    <3> QED
      BY <3>3, <3>4
  <2>3. Bool(TRUE) \notin Zeros \cup Sevens \cup Thousands
    BY DEF Padded, Bool, Str, Num
  <2>4. Zeros \cap Sevens = {}
    BY DEF Padded, Bool, Str, Num
  <2>5. Zeros \cap Thousands = {} /\ Sevens \cap Thousands = {}
    BY DEF Padded, Bool, Str, Num
  <2> DEFINE zero == {Num(0)}
             one == {Num(1)}
             seven == {Num(7)}
             thousands == {Num(2000)}
             own == {scalar}
  <2>6. scalar = Num(0) => own = zero
    OBVIOUS
  <2>7. /\ \A x, y \in own : x = y
        /\ \A x, y \in zero : x = y
        /\ \A x, y \in one : x = y
        /\ \A x, y \in seven : x = y
        /\ \A x, y \in thousands : x = y
    OBVIOUS
  <2> HIDE DEF scalar, Zeros, Sevens, Thousands, zero, one, seven, thousands, own
  <2>8. NumberOf(value) \in {own, zero, one, seven, thousands, {}}
    BY <2>1, <2>2, <2>3, <2>4, <2>5, <2>6 DEF own, zero, one, seven, thousands
  <2> QED
    BY <2>7, <2>8
<1> QED
  BY <1>1, <1>2

LEMMA NumberOfInteger ==
  ASSUME NEW n
  PROVE  /\ NumberOf(Value(Num(n))) = {Num(n)} /\ Floor(Num(n)) = n
         /\ ~Missing(Value(Num(n)))
<1>1. /\ Num(n) # EmptyObject /\ Num(n) # Null /\ Num(n) # Str("")
      /\ Num(n)[1] = "number" /\ Floor(Num(n)) = n
  BY DEF Num, EmptyObject, Null, Str, Floor
<1>2. ~IsObject(Value(Num(n))) /\ Value(Num(n))[<<>>] = Num(n) /\ ~Missing(Value(Num(n)))
  BY <1>1, ValueOfScalar
<1>3. NumberOf(Value(Num(n))) = {Num(n)}
  <2> DEFINE value == Value(Num(n))
  <2>1. ~IsObject(value) /\ value[<<>>] = Num(n)
    BY <1>2
  <2> HIDE DEF value
  <2>2. NumberOf(value) = {Num(n)}
    BY <1>1, <2>1 DEF NumberOf, Num, Padded, Bool, Str
  <2> QED
    BY <2>2 DEF value
<1> QED
  BY <1>1, <1>2, <1>3

LEMMA IntegerOutcome ==
  ASSUME NEW source, NEW rule, rule.type = "integer", rule.default = Undefined,
         NEW m, rule.minimum = {m}, rule.maximum = {},
         NEW got \in Outcome(source, rule)
  PROVE  OptionalInteger(got, m) = OptionalInteger(Get(source, rule.path), m)
<1> DEFINE raw == Get(source, rule.path)
<1>1. CASE ~Missing(raw)
  <2>1. got \in OfType(raw, rule)
    BY <1>1 DEF Outcome, NormalizedValue
  <2>2. PICK n \in NumberOf(raw) : got = Value(Num(Floor(n))) /\ Floor(n) >= m
    <3> HIDE DEF raw
    <3> QED
      BY <2>1 DEF OfType, InBounds
  <2>3. NumberOf(raw) = {n}
    <3> HIDE DEF raw
    <3> QED
      BY <2>2, NumberIsOne
  <2> DEFINE k == Floor(n)
  <2>4. NumberOf(got) = {Num(k)} /\ Floor(Num(k)) = k /\ ~Missing(got)
    BY <2>2, NumberOfInteger
  <2>5. k >= m /\ k = Floor(n)
    BY <2>2
  <2> HIDE DEF k, raw
  <2>6. OptionalInteger(raw, m) = {{k}}
    BY <1>1, <2>3, <2>5 DEF OptionalInteger
  <2>7. OptionalInteger(got, m) = {{k}}
    BY <2>4, <2>5 DEF OptionalInteger
  <2> QED
    BY <2>6, <2>7 DEF raw
<1>2. CASE Missing(raw)
  <2>1. got \in {Undefined, raw}
    BY <1>2 DEF Outcome
  <2>2. Missing(got)
    BY <1>2, <2>1 DEF Missing
  <2> QED
    BY <1>2, <2>2 DEF OptionalInteger
<1> QED
  BY <1>1, <1>2

LEMMA IntegerIsTaken ==
  ASSUME NEW source, NEW rule, rule.type = "integer", rule.enum = {}, ~rule.required,
         NEW m, rule.minimum = {m}, rule.maximum = {},
         OptionalInteger(Get(source, rule.path), m) # {}
  PROVE  Outcome(source, rule) # {}
<1> DEFINE raw == Get(source, rule.path)
<1>1. CASE Missing(raw)
  BY <1>1 DEF Outcome
<1>2. CASE ~Missing(raw)
  <2>1. PICK n \in NumberOf(raw) : Floor(n) >= m
    <3> HIDE DEF raw
    <3> QED
      BY <1>2 DEF OptionalInteger, raw
  <2>2. Value(Num(Floor(n))) \in OfType(raw, rule)
    <3> HIDE DEF raw
    <3> QED
      BY <2>1 DEF OfType, InBounds
  <2>3. Value(Num(Floor(n))) \in Outcome(source, rule)
    BY <1>2, <2>2 DEF Outcome, NormalizedValue
  <2> QED
    BY <2>3
<1> QED
  BY <1>1, <1>2

-----------------------------------------------------------------------------
(* Fields of fields.                                                         *)

LEMMA KeyConcat ==
  ASSUME NEW S, NEW a \in S, NEW b \in S, NEW c \in S
  PROVE  <<a>> \o <<b>> = <<a, b>> /\ <<a, b>> \o <<c>> = <<a, b, c>>
<1>1. /\ <<a>> \in Seq(S) /\ Len(<<a>>) = 1 /\ <<a>>[1] = a
      /\ <<a, b>> \in Seq(S) /\ Len(<<a, b>>) = 2 /\ <<a, b>>[1] = a /\ <<a, b>>[2] = b
  OBVIOUS
<1>2. /\ <<a, b, c>> \in Seq(S) /\ Len(<<a, b, c>>) = 3
      /\ <<a, b, c>>[1] = a /\ <<a, b, c>>[2] = b /\ <<a, b, c>>[3] = c
  OBVIOUS
<1> DEFINE one == <<a>>
           two == <<a, b>>
           three == <<a, b, c>>
           first == Append(one, b)
           second == Append(two, c)
<1>3. first = one \o <<b>> /\ second = two \o <<c>>
  BY <1>1, AppendIsConcat
<1> HIDE DEF one, two, three
<1>4. /\ first \in Seq(S) /\ Len(first) = Len(one) + 1
      /\ \A i \in 1..Len(one) : first[i] = one[i]
      /\ first[Len(one) + 1] = b
  BY <1>1, AppendProperties DEF one
<1>5. /\ second \in Seq(S) /\ Len(second) = Len(two) + 1
      /\ \A i \in 1..Len(two) : second[i] = two[i]
      /\ second[Len(two) + 1] = c
  BY <1>1, AppendProperties DEF two
<1> HIDE DEF first, second
<1>6. first = two
  <2>1. Len(first) = 2 /\ first[1] = a /\ first[2] = b
    BY <1>1, <1>4 DEF one
  <2>2. Len(first) = Len(two) /\ \A i \in 1..Len(first) : first[i] = two[i]
    BY <1>1, <2>1 DEF two
  <2> QED
    BY <1>1, <1>4, <2>2, SeqEqual DEF two
<1>7. second = three
  <2>1. Len(second) = 3 /\ second[1] = a /\ second[2] = b /\ second[3] = c
    BY <1>1, <1>5 DEF two
  <2>2. Len(second) = Len(three) /\ \A i \in 1..Len(second) : second[i] = three[i]
    BY <1>2, <2>1 DEF three
  <2> QED
    BY <1>2, <1>5, <2>2, SeqEqual DEF three
<1> QED
  BY <1>3, <1>6, <1>7 DEF one, two, three

LEMMA GetInside ==
  ASSUME NEW object, IsDocument(object), NEW a \in Keys, NEW b \in Keys
  PROVE  Get(Get(object, <<a>>), <<b>>) = Get(object, <<a, b>>)
<1>1. <<a>> \in KeyPath /\ <<b>> \in KeyPath
  BY ShortSequences DEF KeyPath
<1>2. Get(Get(object, <<a>>), <<b>>) = Get(object, <<a>> \o <<b>>)
  BY <1>1, GetGet
<1> QED
  BY <1>2, KeyConcat

LEMMA GetDeepInside ==
  ASSUME NEW object, IsDocument(object), NEW a \in Keys, NEW b \in Keys, NEW c \in Keys
  PROVE  Get(Get(object, <<a, b>>), <<c>>) = Get(object, <<a, b, c>>)
<1>1. <<c>> \in KeyPath /\ <<a, b>> \in KeyPath
  BY ShortSequences DEF KeyPath
<1>2. Get(Get(object, <<a, b>>), <<c>>) = Get(object, <<a, b>> \o <<c>>)
  BY <1>1, GetGet
<1> QED
  BY <1>2, KeyConcat

(* Null and what is not there have no fields.                                *)
LEMMA GetOfOmitted ==
  ASSUME NEW value, Omitted(value), NEW a \in Keys
  PROVE  Get(value, <<a>>) = Undefined
<1> DEFINE v == Get(value, <<a>>)
<1>1. <<a>> \in KeyPath
  BY ShortSequences DEF KeyPath
<1>2. IsDocument(Undefined) /\ DOMAIN Undefined = {}
  BY DEF Undefined, IsDocument
<1>3. IsDocument(value) /\ DOMAIN value \subseteq {<<>>}
  BY <1>2, ValueOfScalar DEF Omitted
<1>4. /\ IsDocument(v)
      /\ \A q \in KeyPath : q \in DOMAIN v <=> <<a>> \o q \in DOMAIN value
  BY <1>1, <1>3, GetType
<1> HIDE DEF v
<1>5. ASSUME NEW q \in KeyPath
      PROVE  q \notin DOMAIN v
  <2>1. <<a>> \o q # <<>>
    <3>1. IsPrefix(<<a>>, <<a>> \o q)
      BY <1>1, RestOfConcat
    <3>2. Len(<<a>>) <= Len(<<a>> \o q)
      BY <3>1 DEF IsPrefix
    <3>3. Len(<<a>>) = 1 /\ Len(<<>>) = 0
      OBVIOUS
    <3> QED
      BY <3>2, <3>3
  <2> QED
    BY <1>3, <1>4, <2>1
<1>6. DOMAIN v = {}
  BY <1>4, <1>5 DEF IsDocument, KeyPath
<1>7. v = Undefined
  BY <1>2, <1>4, <1>6, SameDocument
<1> QED
  BY <1>7 DEF v

LEMMA OmittedIsMissing ==
  ASSUME NEW value
  PROVE  /\ Omitted(value) => Missing(value) /\ ~IsObject(value)
         /\ IsObject(value) => ~Missing(value)
<1>1. ASSUME NEW s \in {Null, Str("")}
      PROVE  ~IsObject(Value(s))
  <2>1. Null # EmptyObject /\ Str("") # EmptyObject
    BY DEF Null, Str, EmptyObject
  <2> QED
    BY <2>1, ValueOfScalar
<1>2. ~IsObject(Undefined)
  BY DEF IsObject
<1> QED
  BY <1>1, <1>2 DEF Omitted, Missing

(* A document with nothing in it is none.                                    *)
LEMMA NothingThere ==
  ASSUME NEW value, IsDocument(value), value # Undefined
  PROVE  \E p \in KeyPath : p \in DOMAIN value
<1>1. IsDocument(Undefined) /\ DOMAIN Undefined = {}
  BY DEF Undefined, IsDocument
<1>2. DOMAIN value # {}
  BY <1>1, SameDocument
<1> QED
  BY <1>2 DEF IsDocument, KeyPath

(* The rules, for what follows.                                              *)
LEMMA BuiltInRules ==
  /\ \A n \in {6, 8, 9, 10, 11, 12, 15} : BuiltIn[n].enum = {}
  /\ BuiltIn[7].enum = {Str(k) : k \in Kinds}
  /\ \A n \in {1, 4, 13} : BuiltIn[n].enum = {} /\ BuiltIn[n].maximum = {}
  /\ BuiltIn[14].enum = {}
  /\ BuiltIn[1].minimum = {0} /\ BuiltIn[4].minimum = {1000} /\ BuiltIn[13].minimum = {0}
  /\ \A n \in {1, 2, 4, 5, 8, 9, 10, 11, 12, 13, 14, 15} : BuiltIn[n].required = FALSE
  /\ \A n \in {3, 6, 7} : BuiltIn[n].required = TRUE
<1>1. /\ BuiltIn[1].enum = {} /\ BuiltIn[1].maximum = {} /\ BuiltIn[1].minimum = {0}
      /\ BuiltIn[1].required = FALSE /\ BuiltIn[2].required = FALSE
      /\ BuiltIn[3].required = TRUE /\ BuiltIn[5].required = FALSE
      /\ BuiltIn[4].enum = {} /\ BuiltIn[4].maximum = {} /\ BuiltIn[4].minimum = {1000}
      /\ BuiltIn[4].required = FALSE
  BY ZenonT(60) DEF BuiltIn, Rule, ViewUri
<1>2. /\ BuiltIn[6].enum = {} /\ BuiltIn[6].required = TRUE
      /\ BuiltIn[7].enum = {Str(k) : k \in Kinds} /\ BuiltIn[7].required = TRUE
      /\ BuiltIn[8].enum = {} /\ BuiltIn[8].required = FALSE
      /\ BuiltIn[9].enum = {} /\ BuiltIn[9].required = FALSE
      /\ BuiltIn[10].enum = {} /\ BuiltIn[10].required = FALSE
  BY DEF BuiltIn, Rule, ViewUri
<1>3. /\ BuiltIn[11].enum = {} /\ BuiltIn[11].required = FALSE
      /\ BuiltIn[12].enum = {} /\ BuiltIn[12].required = FALSE
      /\ BuiltIn[13].enum = {} /\ BuiltIn[13].maximum = {} /\ BuiltIn[13].minimum = {0}
      /\ BuiltIn[13].required = FALSE
      /\ BuiltIn[14].enum = {} /\ BuiltIn[14].required = FALSE
      /\ BuiltIn[15].enum = {} /\ BuiltIn[15].required = FALSE
  BY DEF BuiltIn, Rule, ViewUri
<1> QED
  BY <1>1, <1>2, <1>3

-----------------------------------------------------------------------------
(* What the worker reads of a payload, taken apart.                          *)

Worker(sheets, views, targets, box, hashes, inputs, protects, presets, seeds, faceCounts) ==
  {[turnaround |-> SheetInUse(given, v), views |-> v, target |-> who,
    bboxM |-> box, physicalInputHash |-> hash, physicalInput |-> input,
    protectGeneratedCurrent |-> protect,
    scalePolicy |-> IF who.kind = "character" THEN "articulated_height" ELSE "rigid_bbox",
    preset |-> preset, seed |-> seed, maxFaces |-> faces] :
     given \in {s \in sheets : s.given \/ \E v \in views : "front" \in v},
     v \in views, who \in targets, hash \in hashes, input \in inputs, protect \in protects,
     preset \in presets, seed \in seeds, faces \in faceCounts}

(* A field of the target, and the inputs its physicalInput may stand for.    *)
OfTarget(object, key) == Get(Get(object, <<"target">>), <<key>>)

Inputs(value, targets) == UNION {PhysicalInput(value, w.entityId) : w \in targets}

LEMMA HydratedInParts ==
  ASSUME NEW object
  PROVE  Hydrated(object) =
           Worker(Turnaround(object), Views(object), Target(Get(object, <<"target">>)),
                  BboxM(OfTarget(object, "bboxM")),
                  PhysicalInputHash(OfTarget(object, "physicalInputHash")),
                  Inputs(OfTarget(object, "physicalInput"), Target(Get(object, <<"target">>))),
                  OptionalBoolean(OfTarget(object, "protectGeneratedCurrent")),
                  Preset(Get(object, <<"preset">>)),
                  OptionalInteger(Get(object, <<"seed">>), 0),
                  OptionalInteger(Get(object, <<"maxFaces">>), 1000))
  BY DEF Hydrated, Worker, OfTarget, Inputs

Readable(object) ==
  /\ Turnaround(object) # {} /\ Views(object) # {} /\ Target(Get(object, <<"target">>)) # {}
  /\ Preset(Get(object, <<"preset">>)) # {}
  /\ OptionalInteger(Get(object, <<"seed">>), 0) # {}
  /\ OptionalInteger(Get(object, <<"maxFaces">>), 1000) # {}

LEMMA HydratedIsReadable ==
  ASSUME NEW object, Hydrated(object) # {}
  PROVE  Readable(object)
<1>1. \A sheets, views, targets, box, hashes, inputs, protects, presets, seeds, faceCounts :
        Worker(sheets, views, targets, box, hashes, inputs, protects, presets, seeds, faceCounts) # {}
          => sheets # {} /\ views # {} /\ targets # {} /\ presets # {} /\ seeds # {} /\ faceCounts # {}
  BY DEF Worker
<1> QED
  BY <1>1, HydratedInParts DEF Readable

(* What has to be text for the worker has one for the definition.            *)
LEMMA UriFits ==
  ASSUME NEW value, TextGiven(value) \in AssetUris, NEW rule, rule.enum = {}
  PROVE  TextFits(value, rule)
<1>1. TextGiven(value) \notin {"", "0", "FALSE"}
  BY AssetUrisAssumption
<1> QED
  BY <1>1, TextsAlike DEF TextFits

LEMMA NothingFits ==
  ASSUME NEW rule, rule.required = FALSE
  PROVE  TextFits(Undefined, rule)
  BY DEF TextFits, Missing

(* An object is taken as it is.                                              *)
ObjectFits(value, rule) == IsObject(value) \/ (Missing(value) /\ ~rule.required)

LEMMA ObjectIsTaken ==
  ASSUME NEW source, NEW rule, rule.type = "object", rule.enum = {},
         ObjectFits(Get(source, rule.path), rule)
  PROVE  Outcome(source, rule) # {}
<1> DEFINE raw == Get(source, rule.path)
<1>1. CASE IsObject(raw)
  <2>1. ~Missing(raw)
    BY <1>1, OmittedIsMissing
  <2>2. raw \in NormalizedValue(raw, rule)
    <3> HIDE DEF raw
    <3> QED
      BY <1>1 DEF NormalizedValue, OfType
  <2>3. raw \in Outcome(source, rule)
    BY <2>1, <2>2 DEF Outcome
  <2> QED
    BY <2>3
<1>2. CASE ~IsObject(raw)
  BY <1>2 DEF Outcome, ObjectFits
<1> QED
  BY <1>1, <1>2

(* Every field of a payload that the worker can read is taken.               *)
LEMMA ViewsTaken ==
  ASSUME NEW object, IsDocument(object), Views(object) # {},
         NEW view \in {"front", "left", "right", "back"}, NEW rule, rule.enum = {},
         rule.required = FALSE
  PROVE  TextFits(Get(object, <<"views", view, "assetUri">>), rule)
<1> DEFINE source == Get(object, <<"views">>)
           spec == Get(object, <<"views", view>>)
           uri == Get(object, <<"views", view, "assetUri">>)
<1>1. "views" \in Keys /\ view \in Keys /\ "assetUri" \in Keys
  BY KeysAssumption
<1>2. Get(source, <<view>>) = spec /\ Get(spec, <<"assetUri">>) = uri
  <2>1. Get(source, <<view>>) = spec
    BY <1>1, GetInside
  <2>2. Get(spec, <<"assetUri">>) = uri
    BY <1>1, GetDeepInside
  <2> QED
    BY <2>1, <2>2
<1>3. view \in ToSet(Slots)
  BY DEF ToSet, Slots
<1>4. CASE Omitted(source)
  <2>1. spec = Undefined
    BY <1>1, <1>2, <1>4, GetOfOmitted
  <2>2. uri = Undefined
    BY <1>1, <1>2, <2>1, GetOfOmitted DEF Omitted
  <2> QED
    BY <2>2, NothingFits
<1>5. CASE ~Omitted(source) /\ Omitted(spec)
  <2>1. uri = Undefined
    BY <1>1, <1>2, <1>5, GetOfOmitted
  <2> QED
    BY <2>1, NothingFits
<1>6. CASE ~Omitted(source) /\ ~Omitted(spec)
  <2>1. AssetUri(Get(source, <<view>>))
    <3> HIDE DEF uri, spec
    <3> QED
      BY <1>2, <1>3, <1>6 DEF Views
  <2>2. TextGiven(uri) \in AssetUris
    BY <1>2, <2>1 DEF AssetUri
  <2> QED
    BY <2>2, UriFits
<1> QED
  BY <1>4, <1>5, <1>6

(* Of a sheet, its picture and its version are.                              *)
LEMMA SheetTaken ==
  ASSUME NEW object, IsDocument(object), Turnaround(object) # {},
         NEW rule, rule.enum = {}, rule.required = FALSE
  PROVE  /\ TextFits(Get(object, <<"turnaround", "assetUri">>), rule)
         /\ TextFits(Get(object, <<"turnaround", "formatVersion">>), rule)
         /\ IsObject(Get(object, <<"turnaround">>)) \/ Omitted(Get(object, <<"turnaround">>))
<1> DEFINE spec == Get(object, <<"turnaround">>)
           uri == Get(object, <<"turnaround", "assetUri">>)
           version == Get(object, <<"turnaround", "formatVersion">>)
<1>1. "turnaround" \in Keys /\ "formatVersion" \in Keys /\ "assetUri" \in Keys
  BY KeysAssumption
<1>2. Get(spec, <<"assetUri">>) = uri /\ Get(spec, <<"formatVersion">>) = version
  <2>1. Get(spec, <<"assetUri">>) = uri
    BY <1>1, GetInside
  <2>2. Get(spec, <<"formatVersion">>) = version
    BY <1>1, GetInside
  <2> QED
    BY <2>1, <2>2
<1>3. CASE Omitted(spec)
  <2>1. uri = Undefined /\ version = Undefined
    BY <1>1, <1>2, <1>3, GetOfOmitted
  <2> QED
    BY <1>3, <2>1, NothingFits
<1>4. CASE ~Omitted(spec)
  <2>1. IsObject(spec) /\ TextGiven(uri) \in AssetUris
    <3> HIDE DEF uri, version
    <3> QED
      BY <1>2, <1>4 DEF Turnaround, AssetUri
  <2>2. Omitted(version) \/ TextGiven(version) \in {"v1", "constructor"}
    <3> HIDE DEF uri, version
    <3>1. Omitted(version) \/ TextGiven(version) \in DOMAIN Profiles \cup Inherited
      BY <1>2, <1>4 DEF Turnaround
    <3> QED
      BY <3>1 DEF Profiles, Inherited
  <2>3. TextFits(uri, rule)
    BY <2>1, UriFits
  <2>4. TextFits(version, rule)
    <3>1. CASE Omitted(version)
      BY <3>1, OmittedIsMissing DEF TextFits
    <3>2. CASE TextGiven(version) \in {"v1", "constructor"}
      <4>1. TextGiven(version) \notin {"", "0", "FALSE"}
        BY <3>2
      <4> QED
        BY <3>2, <4>1, TextsAlike DEF TextFits
    <3> QED
      BY <2>2, <3>1, <3>2
  <2> QED
    BY <2>1, <2>3, <2>4
<1> QED
  BY <1>3, <1>4

(* The kind and the id of the target, which is an object, are.               *)
Targets(kinds, ids, depictions) ==
  {[kind |-> kind, entityId |-> id, depictionIndex |-> depiction] :
     kind \in kinds, id \in ids, depiction \in depictions}

LEMMA TargetInParts ==
  ASSUME NEW target
  PROVE  Target(target) =
           IF ~IsObject(target) THEN {}
           ELSE Targets({TextGiven(Get(target, <<"entityKind">>))} \cap Kinds,
                        {TextGiven(Get(target, <<"entityId">>))} \ {""},
                        OptionalInteger(Get(target, <<"depictionIndex">>), 0))
  BY DEF Target, Targets

LEMMA TargetRead ==
  ASSUME NEW target, Target(target) # {}
  PROVE  /\ IsObject(target)
         /\ TextGiven(Get(target, <<"entityKind">>)) \in Kinds
         /\ TextGiven(Get(target, <<"entityId">>)) # ""
         /\ OptionalInteger(Get(target, <<"depictionIndex">>), 0) # {}
<1>1. ASSUME NEW kinds, NEW ids, NEW depictions, Targets(kinds, ids, depictions) # {}
      PROVE  kinds # {} /\ ids # {} /\ depictions # {}
  BY <1>1 DEF Targets
<1>2. IsObject(target)
  BY TargetInParts
<1> DEFINE kinds == {TextGiven(Get(target, <<"entityKind">>))} \cap Kinds
           ids == {TextGiven(Get(target, <<"entityId">>))} \ {""}
           depictions == OptionalInteger(Get(target, <<"depictionIndex">>), 0)
<1>3. Targets(kinds, ids, depictions) # {}
  BY <1>2, TargetInParts
<1>4. kinds # {} /\ ids # {} /\ depictions # {}
  <2> HIDE DEF kinds, ids, depictions
  <2> QED
    BY <1>1, <1>3
<1> QED
  BY <1>2, <1>4

LEMMA TargetTaken ==
  ASSUME NEW object, IsDocument(object), Target(Get(object, <<"target">>)) # {}
  PROVE  /\ IsObject(Get(object, <<"target">>))
         /\ ~Missing(Get(object, <<"target", "entityId">>))
         /\ ~Missing(Get(object, <<"target", "entityKind">>))
         /\ Text(Get(object, <<"target", "entityKind">>)) \in Kinds
         /\ OptionalInteger(Get(object, <<"target", "depictionIndex">>), 0) # {}
<1> DEFINE target == Get(object, <<"target">>)
           id == Get(object, <<"target", "entityId">>)
           kind == Get(object, <<"target", "entityKind">>)
           depiction == Get(object, <<"target", "depictionIndex">>)
<1>1. /\ "target" \in Keys /\ "entityId" \in Keys /\ "entityKind" \in Keys
      /\ "depictionIndex" \in Keys
  BY KeysAssumption
<1>2. /\ Get(target, <<"entityId">>) = id /\ Get(target, <<"entityKind">>) = kind
      /\ Get(target, <<"depictionIndex">>) = depiction
  <2>1. Get(target, <<"entityId">>) = id
    BY <1>1, GetInside
  <2>2. Get(target, <<"entityKind">>) = kind
    BY <1>1, GetInside
  <2>3. Get(target, <<"depictionIndex">>) = depiction
    BY <1>1, GetInside
  <2> QED
    BY <2>1, <2>2, <2>3
<1>3. /\ IsObject(target) /\ TextGiven(kind) \in Kinds /\ TextGiven(id) # ""
      /\ OptionalInteger(depiction, 0) # {}
  <2>1. Target(target) # {}
    OBVIOUS
  <2> HIDE DEF target, id, kind, depiction
  <2> QED
    BY <1>2, <2>1, TargetRead
<1>4. ~Missing(id)
  BY <1>3, TextsAlike
<1>5. TextGiven(kind) \notin {"", "0", "FALSE"}
  BY <1>3 DEF Kinds
<1> QED
  BY <1>3, <1>4, <1>5, TextsAlike

(* The preset has a text, or is the usual one.                               *)
LEMMA PresetTaken ==
  ASSUME NEW object, Preset(Get(object, <<"preset">>)) # {},
         Missing(Get(object, <<"preset">>)) \/ Text(Get(object, <<"preset">>)) # "",
         NEW rule, rule.enum = {Str("fast"), Str("standard")}, rule.required = FALSE
  PROVE  TextFits(Get(object, <<"preset">>), rule)
<1> DEFINE preset == Get(object, <<"preset">>)
<1>1. CASE Missing(preset)
  BY <1>1 DEF TextFits
<1>2. CASE ~Missing(preset)
  <2>1. Text(preset) # ""
    BY <1>2
  <2>2. TextGiven(preset) = Text(preset)
    BY <1>2, <2>1, TextsAlike
  <2>3. Text(preset) \in {"fast", "standard"}
    <3> HIDE DEF preset
    <3> QED
      BY <2>1, <2>2 DEF Preset, preset
  <2> QED
    BY <1>2, <2>1, <2>3 DEF TextFits
<1> QED
  BY <1>1, <1>2

LEMMA BooleanIsKept ==
  ASSUME NEW b \in BOOLEAN, NEW rule, rule.type = "boolean", rule.enum = {}
  PROVE  NormalizedValue(Value(Bool(b)), rule) = {Value(Bool(b))} /\ ~Missing(Value(Bool(b)))
<1> DEFINE value == Value(Bool(b))
<1>1. Bool(b) # EmptyObject /\ Bool(b) # Null /\ Bool(b) # Str("") /\ Bool(b)[1] = "boolean"
  BY DEF Bool, EmptyObject, Null, Str
<1>2. ~IsObject(value) /\ value[<<>>] = Bool(b) /\ ~Missing(value)
  BY <1>1, ValueOfScalar
<1> HIDE DEF value
<1>3. OfType(value, rule) = {value}
  BY <1>1, <1>2 DEF OfType
<1>4. NormalizedValue(value, rule) = {value}
  BY <1>3 DEF NormalizedValue
<1> QED
  BY <1>2, <1>4 DEF value

(* What the worker can read is accepted.                                     *)
LEMMA ReadableIsAccepted ==
  ASSUME NEW object, IsDocument(object), KnownFields(object), Readable(object)
  PROVE  NormalizedPayload(object, BuiltIn) # {}
<1> DEFINE taken(n) == Outcome(object, BuiltIn[n]) # {}
           raw(n) == Get(object, BuiltIn[n].path)
<1>0. /\ Turnaround(object) # {} /\ Views(object) # {} /\ Target(Get(object, <<"target">>)) # {}
      /\ Preset(Get(object, <<"preset">>)) # {}
  BY DEF Readable
<1>1. taken(1) /\ taken(4) /\ taken(13)
  <2>1. /\ OptionalInteger(raw(1), 0) # {} /\ OptionalInteger(raw(4), 1000) # {}
        /\ OptionalInteger(raw(13), 0) # {}
    <3>1. OptionalInteger(Get(object, <<"target", "depictionIndex">>), 0) # {}
      BY <1>0, TargetTaken
    <3> QED
      BY <3>1, BuiltInPaths DEF Readable
  <2>2. ASSUME NEW n \in {1, 4, 13}
        PROVE  BuiltIn[n].type = "integer" /\ BuiltIn[n].enum = {} /\ BuiltIn[n].maximum = {}
               /\ BuiltIn[n].required = FALSE
    BY BuiltInTypes, BuiltInRules
  <2>3. /\ BuiltIn[1].minimum = {0} /\ BuiltIn[4].minimum = {1000} /\ BuiltIn[13].minimum = {0}
    BY BuiltInRules
  <2>4. ASSUME NEW n \in {1, 4, 13}, NEW m, BuiltIn[n].minimum = {m},
               OptionalInteger(raw(n), m) # {}
        PROVE  taken(n)
    <3> DEFINE rule == BuiltIn[n]
    <3>1. /\ rule.type = "integer" /\ rule.enum = {} /\ rule.maximum = {} /\ ~rule.required
          /\ rule.minimum = {m} /\ OptionalInteger(Get(object, rule.path), m) # {}
      BY <2>2, <2>4
    <3> HIDE DEF rule
    <3>2. Outcome(object, rule) # {}
      BY <3>1, IntegerIsTaken
    <3> QED
      BY <3>2 DEF rule
  <2> QED
    BY <2>1, <2>3, <2>4
<1>2. taken(2)
  <2>1. raw(2) = Get(object, <<"preset">>)
    BY BuiltInPaths
  <2>2. /\ BuiltIn[2].type = "string" /\ BuiltIn[2].enum = {Str("fast"), Str("standard")}
        /\ BuiltIn[2].required = FALSE
    BY BuiltInTypes, BuiltInRules
  <2>3. Missing(Get(object, <<"preset">>)) \/ Text(Get(object, <<"preset">>)) # ""
    BY DEF KnownFields, KnownPaths, TextsHaveText
  <2>4. TextFits(raw(2), BuiltIn[2])
    BY <1>0, <2>1, <2>2, <2>3, PresetTaken
  <2> QED
    BY <2>2, <2>4, TextIsTaken
<1>3. taken(3)
  <2>1. raw(3) = Get(object, <<"target">>)
    BY BuiltInPaths
  <2>2. BuiltIn[3].type = "object" /\ BuiltIn[3].enum = {}
    BY BuiltInTypes
  <2>3. ObjectFits(raw(3), BuiltIn[3])
    BY <1>0, <2>1, TargetTaken DEF ObjectFits
  <2> QED
    BY <2>2, <2>3, ObjectIsTaken
<1>4. taken(5)
  <2>1. raw(5) = Get(object, <<"turnaround">>)
    BY BuiltInPaths
  <2>2. BuiltIn[5].type = "object" /\ BuiltIn[5].enum = {} /\ ~BuiltIn[5].required
    BY BuiltInTypes, BuiltInRules
  <2>3. IsObject(raw(5)) \/ Omitted(raw(5))
    <3>1. BuiltIn[8].enum = {} /\ BuiltIn[8].required = FALSE
      BY BuiltInRules
    <3> QED
      BY <1>0, <2>1, <3>1, SheetTaken
  <2>4. ObjectFits(raw(5), BuiltIn[5])
    BY <2>2, <2>3, OmittedIsMissing DEF ObjectFits
  <2> QED
    BY <2>2, <2>4, ObjectIsTaken
<1>5. taken(6)
  <2>1. raw(6) = Get(object, <<"target", "entityId">>)
    BY BuiltInPaths
  <2>2. BuiltIn[6].type = "string" /\ BuiltIn[6].enum = {}
    BY BuiltInTypes, BuiltInRules
  <2>3. ~Missing(raw(6))
    BY <1>0, <2>1, TargetTaken
  <2>4. Missing(raw(6)) \/ Text(raw(6)) # ""
    <3>1. LET text == Get(object, <<"target", "entityId">>) IN Missing(text) \/ Text(text) # ""
      BY DEF KnownFields, KnownPaths, TextsHaveText
    <3> QED
      BY <2>1, <3>1
  <2>5. TextFits(raw(6), BuiltIn[6])
    BY <2>2, <2>3, <2>4 DEF TextFits
  <2> QED
    BY <2>2, <2>5, TextIsTaken
<1>6. taken(7)
  <2>1. raw(7) = Get(object, <<"target", "entityKind">>)
    BY BuiltInPaths
  <2>2. BuiltIn[7].type = "string" /\ BuiltIn[7].enum = {Str(k) : k \in Kinds}
    BY BuiltInTypes, BuiltInRules
  <2>3. ~Missing(raw(7)) /\ Text(raw(7)) \in Kinds
    BY <1>0, <2>1, TargetTaken
  <2>4. Text(raw(7)) # "" /\ Str(Text(raw(7))) \in {Str(k) : k \in Kinds}
    BY <2>3 DEF Kinds
  <2>5. TextFits(raw(7), BuiltIn[7])
    BY <2>2, <2>3, <2>4 DEF TextFits
  <2> QED
    BY <2>2, <2>5, TextIsTaken
<1>7. taken(8) /\ taken(15)
  <2>1. /\ raw(8) = Get(object, <<"turnaround", "assetUri">>)
        /\ raw(15) = Get(object, <<"turnaround", "formatVersion">>)
    BY BuiltInPaths
  <2>2. ASSUME NEW n \in {8, 15}
        PROVE  BuiltIn[n].type = "string" /\ BuiltIn[n].enum = {} /\ BuiltIn[n].required = FALSE
    BY BuiltInTypes, BuiltInRules
  <2>3. TextFits(raw(8), BuiltIn[8])
    BY <1>0, <2>1, <2>2, SheetTaken
  <2>4. TextFits(raw(15), BuiltIn[15])
    BY <1>0, <2>1, <2>2, SheetTaken
  <2> QED
    BY <2>2, <2>3, <2>4, TextIsTaken
<1>8. \A n \in 9..12 : taken(n)
  <2>1. /\ raw(9) = Get(object, <<"views", "back", "assetUri">>)
        /\ raw(10) = Get(object, <<"views", "left", "assetUri">>)
        /\ raw(11) = Get(object, <<"views", "front", "assetUri">>)
        /\ raw(12) = Get(object, <<"views", "right", "assetUri">>)
    BY BuiltInPaths
  <2>2. ASSUME NEW n \in {9, 10, 11, 12}
        PROVE  BuiltIn[n].type = "string" /\ BuiltIn[n].enum = {} /\ BuiltIn[n].required = FALSE
    BY BuiltInTypes, BuiltInRules
  <2>3. ASSUME NEW n \in {9, 10, 11, 12}, NEW view \in {"front", "left", "right", "back"}
        PROVE  TextFits(Get(object, <<"views", view, "assetUri">>), BuiltIn[n])
    BY <1>0, <2>2, ViewsTaken
  <2>4. /\ TextFits(raw(9), BuiltIn[9]) /\ TextFits(raw(10), BuiltIn[10])
        /\ TextFits(raw(11), BuiltIn[11]) /\ TextFits(raw(12), BuiltIn[12])
    BY <2>1, <2>3
  <2>5. ASSUME NEW n \in {9, 10, 11, 12}, TextFits(raw(n), BuiltIn[n])
        PROVE  taken(n)
    BY <2>2, <2>5, TextIsTaken
  <2>6. \A n \in 9..12 : n \in {9, 10, 11, 12}
    OBVIOUS
  <2> HIDE DEF taken, raw
  <2> QED
    BY <2>4, <2>5, <2>6
<1>9. taken(14)
  <2>1. raw(14) = Get(object, <<"turnaround", "normalized">>)
    BY BuiltInPaths
  <2>2. BuiltIn[14].type = "boolean" /\ BuiltIn[14].enum = {} /\ ~BuiltIn[14].required
    BY BuiltInTypes, BuiltInRules
  <2>3. Omitted(raw(14)) \/ raw(14) \in {Value(Bool(b)) : b \in BOOLEAN}
    BY <2>1 DEF KnownFields, KnownPaths, TextsHaveText
  <2>4. CASE Omitted(raw(14))
    BY <2>2, <2>4, OmittedIsMissing DEF Outcome
  <2>5. CASE raw(14) \in {Value(Bool(b)) : b \in BOOLEAN}
    <3>1. PICK b \in BOOLEAN : raw(14) = Value(Bool(b))
      BY <2>5
    <3>2. raw(14) \in NormalizedValue(raw(14), BuiltIn[14]) /\ ~Missing(raw(14))
      BY <2>2, <3>1, BooleanIsKept
    <3> QED
      BY <3>2 DEF Outcome
  <2> QED
    BY <2>3, <2>4, <2>5
<1> HIDE DEF taken
<1>10. \A n \in 1..15 : taken(n)
  <2>1. taken(1) /\ taken(2) /\ taken(3) /\ taken(4) /\ taken(5)
    BY <1>1, <1>2, <1>3, <1>4
  <2>2. taken(6) /\ taken(7) /\ taken(8) /\ taken(13) /\ taken(14) /\ taken(15)
    BY <1>1, <1>5, <1>6, <1>7, <1>9
  <2>3. \A n \in 1..15 : n \in 1..5 \/ n \in {6, 7, 8, 13, 14, 15} \/ n \in 9..12
    OBVIOUS
  <2>4. \A n \in 1..5 : taken(n)
    BY <2>1
  <2>5. \A n \in {6, 7, 8, 13, 14, 15} : taken(n)
    BY <2>2
  <2> QED
    BY <1>8, <2>3, <2>4, <2>5
<1>11. \A p \in DOMAIN object : Allowed(p, BuiltIn)
  BY DEF KnownFields, KnownPaths, TextsHaveText
<1> QED
  BY <1>10, <1>11, Accepted DEF taken

-----------------------------------------------------------------------------
(* The worker takes what was stored for the same as what was posted.         *)

Normal(got, object) == IsDocument(object) /\ Progress(got, object, BuiltIn, 15)

LEMMA StoredIsNormal ==
  ASSUME NEW object, IsDocument(object), NEW got \in NormalizedPayload(object, BuiltIn)
  PROVE  Normal(got, object)
<1>1. Len(BuiltIn) = 15 /\ 15 \in 0..Len(BuiltIn)
  BY BuiltInPaths
<1>2. got \in Rounds(object, BuiltIn)[15]
  BY <1>1 DEF NormalizedPayload
<1> QED
  BY <1>1, <1>2, BuiltInIsOrderly, EveryRound DEF Normal

LEMMA NormalParts ==
  ASSUME NEW object, NEW got, Normal(got, object), NEW n \in 1..15
  PROVE  /\ IsDocument(got) /\ IsDocument(object)
         /\ BuiltIn[n].type # "object" => Get(got, BuiltIn[n].path) \in Outcome(object, BuiltIn[n])
         /\ \/ Get(got, BuiltIn[n].path) \in Outcome(object, BuiltIn[n])
            \/ Composite(Get(got, BuiltIn[n].path))
  BY DEF Normal, Progress, Settled

(* The texts, the integers and the objects among the fields.                 *)
LEMMA TextsRead ==
  ASSUME NEW object, NEW got, Normal(got, object), NEW n \in {6, 7, 8, 9, 10, 11, 12, 15}
  PROVE  /\ TextGiven(Get(got, BuiltIn[n].path)) = TextGiven(Get(object, BuiltIn[n].path))
         /\ ~Missing(Get(object, BuiltIn[n].path)) => ~Omitted(Get(got, BuiltIn[n].path))
         /\ Omitted(Get(object, BuiltIn[n].path)) => Omitted(Get(got, BuiltIn[n].path))
<1> DEFINE rule == BuiltIn[n]
<1>1. rule.type = "string" /\ rule.default = Undefined
  BY BuiltInTypes
<1>2. Get(got, rule.path) \in Outcome(object, rule)
  BY <1>1, NormalParts
<1> HIDE DEF rule
<1> QED
  BY <1>1, <1>2, TextOutcome DEF rule

LEMMA IntegersRead ==
  ASSUME NEW object, NEW got, Normal(got, object), NEW n \in {1, 4, 13},
         NEW m, BuiltIn[n].minimum = {m}
  PROVE  OptionalInteger(Get(got, BuiltIn[n].path), m) =
           OptionalInteger(Get(object, BuiltIn[n].path), m)
<1> DEFINE rule == BuiltIn[n]
<1>1. /\ rule.type = "integer" /\ rule.default = Undefined
      /\ rule.minimum = {m} /\ rule.maximum = {}
  BY BuiltInTypes, BuiltInRules
<1>2. Get(got, rule.path) \in Outcome(object, rule)
  BY <1>1, NormalParts
<1> HIDE DEF rule
<1> QED
  BY <1>1, <1>2, IntegerOutcome DEF rule

LEMMA ObjectsRead ==
  ASSUME NEW object, NEW got, Normal(got, object), NEW n \in {3, 5},
         IsObject(Get(object, BuiltIn[n].path))
  PROVE  IsObject(Get(got, BuiltIn[n].path))
<1> DEFINE rule == BuiltIn[n]
           raw == Get(object, rule.path)
           value == Get(got, rule.path)
<1>1. rule.type = "object" /\ IsObject(raw) /\ ~Missing(raw)
  BY BuiltInTypes, OmittedIsMissing
<1>2. value \in Outcome(object, rule) \/ Composite(value)
  BY NormalParts
<1>3. CASE value \in Outcome(object, rule)
  <2>1. value \in OfType(raw, rule)
    BY <1>1, <1>3 DEF Outcome, NormalizedValue
  <2>2. value = raw
    <3> HIDE DEF value, raw, rule
    <3> QED
      BY <1>1, <2>1 DEF OfType
  <2> HIDE DEF value, raw
  <2> QED
    BY <1>1, <2>2 DEF value
<1>4. CASE Composite(value)
  BY <1>4 DEF Composite, IsObject, Undefined
<1> QED
  BY <1>2, <1>3, <1>4

(* What is below an umbrella, but in no field, comes as it was posted.       *)
LEMMA OutOfFields ==
  ASSUME NEW a \in {"target", "turnaround"},
         NEW b \in Keys \ {"entityId", "entityKind", "depictionIndex",
                           "assetUri", "normalized", "formatVersion"}
  PROVE  <<a, b>> \in KeyPath /\ Untouched(<<a, b>>, BuiltIn, 15)
<1> DEFINE path == <<a, b>>
           at(k) == BuiltIn[k].path
           length(k) == Len(at(k))
<1>1. path \in KeyPath /\ Len(path) = 2 /\ path[1] = a /\ path[2] = b
  <2>1. a \in Keys
    BY KeysAssumption
  <2> QED
    BY <2>1, ShortSequences DEF KeyPath
<1> HIDE DEF path
<1>2. \A k \in {6, 7, 8, 13, 14, 15} :
        at(k)[2] \in {"entityId", "entityKind", "depictionIndex",
                      "assetUri", "normalized", "formatVersion"}
  <2>1. /\ at(6)[2] = "entityId" /\ at(7)[2] = "entityKind" /\ at(13)[2] = "depictionIndex"
        /\ at(8)[2] = "assetUri" /\ at(14)[2] = "normalized" /\ at(15)[2] = "formatVersion"
    BY BuiltInPaths
  <2> HIDE DEF at
  <2> QED
    BY <2>1
<1>3. ASSUME NEW k \in 1..15
      PROVE  ~IsPrefix(path, at(k)) /\ (IsPrefix(at(k), path) => BuiltIn[k].type = "object")
  <2>1. at(k) \in KeyPath
    BY BuiltInAreKeyPaths
  <2>2. length(k) = IF k \in 1..5 THEN 1 ELSE IF k \in 9..12 THEN 3 ELSE 2
    BY BuiltInLengths
  <2>3. at(k)[1] = a => k \in {3, 5, 6, 7, 8, 13, 14, 15}
    <3>1. at(k)[1] \in {"target", "turnaround"} => k \in {3, 6, 7, 13} \/ k \in {5, 8, 14, 15}
      BY BuiltInHeads
    <3> HIDE DEF at
    <3> QED
      BY <3>1
  <2>4. at(k)[1] = a /\ at(k)[2] = b => k \in {3, 5}
    <3> HIDE DEF at
    <3> QED
      BY <1>2, <2>3
  <2>5. k \in {3, 5} => length(k) = 1
    <3> HIDE DEF length
    <3> QED
      BY <2>2
  <2>6. k \in {3, 5} => BuiltIn[k].type = "object"
    BY BuiltInTypes
  <2>7. ~IsPrefix(path, at(k))
    <3>1. SUFFICES ASSUME IsPrefix(path, at(k))
                   PROVE  FALSE
      OBVIOUS
    <3>2. 2 <= length(k) /\ path[1] = at(k)[1] /\ path[2] = at(k)[2]
      BY <1>1, <2>1, <3>1, PrefixAgrees
    <3> HIDE DEF length, at
    <3> QED
      BY <1>1, <2>4, <2>5, <3>2
  <2>8. IsPrefix(at(k), path) => k \in {3, 5}
    <3>1. SUFFICES ASSUME IsPrefix(at(k), path)
                   PROVE  k \in {3, 5}
      OBVIOUS
    <3>2. length(k) <= 2 /\ \A i \in 1..length(k) : at(k)[i] = path[i]
      BY <1>1, <2>1, <3>1, PrefixAgrees
    <3> HIDE DEF length, at
    <3>3. length(k) \in {1, 2}
      BY <2>2, <3>2
    <3>4. at(k)[1] = a
      BY <1>1, <3>2, <3>3
    <3>5. length(k) = 2 => at(k)[2] = b
      BY <1>1, <3>2
    <3>6. k \in {3, 5, 6, 7, 8, 13, 14, 15}
      BY <2>3, <3>4
    <3>7. length(k) = 1 => k \in 1..5
      BY <2>2
    <3> QED
      BY <2>4, <3>3, <3>4, <3>5, <3>6, <3>7
  <2> QED
    BY <2>6, <2>7, <2>8
<1> HIDE DEF at
<1>4. Untouched(path, BuiltIn, 15)
  BY <1>3 DEF Untouched, at
<1> QED
  BY <1>1, <1>4 DEF path

LEMMA KeptAsPosted ==
  ASSUME NEW object, NEW got, Normal(got, object),
         NEW a \in {"target", "turnaround"}, IsObject(Get(object, <<a>>)),
         NEW b \in Keys \ {"entityId", "entityKind", "depictionIndex",
                           "assetUri", "normalized", "formatVersion"}
  PROVE  Get(Get(got, <<a>>), <<b>>) = Get(Get(object, <<a>>), <<b>>)
<1>1. <<a, b>> \in KeyPath /\ Untouched(<<a, b>>, BuiltIn, 15)
  BY OutOfFields
<1>2. a \in Keys /\ b \in Keys
  BY KeysAssumption
<1>3. Sheltered(<<a, b>>, object, BuiltIn, 15)
  <2>1. PICK k \in {3, 5} : BuiltIn[k].path = <<a>>
    BY BuiltInPaths
  <2>2. ~Missing(Get(object, BuiltIn[k].path))
    BY <2>1, OmittedIsMissing
  <2>3. IsPrefix(<<a>>, <<a, b>>)
    <3>1. <<a>> \in KeyPath /\ <<b>> \in KeyPath
      BY <1>2, ShortSequences DEF KeyPath
    <3>2. IsPrefix(<<a>>, <<a>> \o <<b>>)
      BY <3>1, RestOfConcat
    <3>3. <<a>> \o <<b>> = <<a, b>>
      BY <1>2, KeyConcat
    <3> QED
      BY <3>2, <3>3
  <2>4. k \in 1..15 /\ IsPrefix(BuiltIn[k].path, <<a, b>>)
    BY <2>1, <2>3
  <2> QED
    BY <2>2, <2>4 DEF Sheltered
<1>4. Get(got, <<a, b>>) = Get(object, <<a, b>>)
  BY <1>1, <1>3 DEF Normal, Progress, Kept
<1>5. IsDocument(got) /\ IsDocument(object)
  BY DEF Normal, Progress
<1>6. /\ Get(Get(got, <<a>>), <<b>>) = Get(got, <<a, b>>)
      /\ Get(Get(object, <<a>>), <<b>>) = Get(object, <<a, b>>)
  <2>1. Get(Get(got, <<a>>), <<b>>) = Get(got, <<a, b>>)
    BY <1>2, <1>5, GetInside
  <2>2. Get(Get(object, <<a>>), <<b>>) = Get(object, <<a, b>>)
    BY <1>2, <1>5, GetInside
  <2> QED
    BY <2>1, <2>2
<1> QED
  BY <1>4, <1>6

(* Nothing comes from nowhere.                                               *)
LEMMA NothingComes ==
  ASSUME NEW object, NEW got, Normal(got, object), NEW p \in KeyPath,
         \A k \in 1..15 : HasValue(object, BuiltIn[k]) =>
           \A q \in KeyPath : ~IsPrefix(BuiltIn[k].path, p \o q)
  PROVE  Get(got, p) = Undefined
<1> DEFINE value == Get(got, p)
<1>1. IsDocument(got) /\ \A path \in DOMAIN got : CameWith(path, object, BuiltIn, 15)
  BY DEF Normal, Progress, Kept
<1>2. /\ IsDocument(value)
      /\ \A q \in KeyPath : q \in DOMAIN value <=> p \o q \in DOMAIN got
  BY <1>1, GetType
<1>3. \A q \in KeyPath : q \notin DOMAIN value
  <2>1. ASSUME NEW q \in KeyPath, p \o q \in DOMAIN got
        PROVE  FALSE
    BY <1>1, <2>1 DEF CameWith
  <2> HIDE DEF value
  <2> QED
    BY <1>2, <2>1
<1> HIDE DEF value
<1>4. value = Undefined
  BY <1>2, <1>3, NothingThere
<1> QED
  BY <1>4 DEF value

(* The first keys of what lies below a field, and below that.                *)
LEMMA KeysOfConcat ==
  ASSUME NEW a \in Keys, NEW b \in Keys, NEW q \in KeyPath
  PROVE  /\ <<a>> \o q \in KeyPath /\ (<<a>> \o q)[1] = a
         /\ <<a, b>> \o q \in KeyPath /\ (<<a, b>> \o q)[1] = a /\ (<<a, b>> \o q)[2] = b
<1>1. <<a>> \in Seq(Keys) /\ <<a, b>> \in Seq(Keys) /\ Len(<<a>>) = 1 /\ Len(<<a, b>>) = 2
      /\ <<a>>[1] = a /\ <<a, b>>[1] = a /\ <<a, b>>[2] = b
  BY ShortSequences
<1> DEFINE one == <<a>>
           two == <<a, b>>
           first == one \o q
           second == two \o q
<1> HIDE DEF one, two
<1>2. first \in Seq(Keys) /\ \A i \in 1..Len(one) : first[i] = one[i]
  BY <1>1, ConcatProperties DEF KeyPath, one
<1>3. second \in Seq(Keys) /\ \A i \in 1..Len(two) : second[i] = two[i]
  BY <1>1, ConcatProperties DEF KeyPath, two
<1> HIDE DEF first, second
<1>4. first[1] = a /\ second[1] = a /\ second[2] = b
  <2>1. 1 \in 1..Len(one) /\ 1 \in 1..Len(two) /\ 2 \in 1..Len(two)
    BY <1>1 DEF one, two
  <2> QED
    BY <1>1, <1>2, <1>3, <2>1 DEF one, two
<1> QED
  BY <1>2, <1>3, <1>4 DEF first, second, one, two, KeyPath

(* No sheet comes from nowhere,                                              *)
LEMMA NoSheetComes ==
  ASSUME NEW object, NEW got, Normal(got, object), Omitted(Get(object, <<"turnaround">>))
  PROVE  Get(got, <<"turnaround">>) = Undefined
<1>1. "turnaround" \in Keys /\ <<"turnaround">> \in KeyPath
  BY KeysAssumption, ShortSequences DEF KeyPath
<1>2. IsDocument(object)
  BY DEF Normal
<1>3. ASSUME NEW k \in {5, 8, 14, 15}
      PROVE  ~HasValue(object, BuiltIn[k])
  <2>1. BuiltIn[k].default = Undefined
    BY BuiltInTypes
  <2>2. /\ "assetUri" \in Keys /\ "normalized" \in Keys /\ "formatVersion" \in Keys
    BY KeysAssumption
  <2>3. ASSUME NEW key \in Keys
        PROVE  Get(object, <<"turnaround", key>>) = Undefined
    <3>1. Get(Get(object, <<"turnaround">>), <<key>>) = Undefined
      BY GetOfOmitted
    <3> QED
      BY <1>1, <1>2, <3>1, GetInside
  <2>4. Omitted(Get(object, BuiltIn[k].path))
    <3>1. /\ Get(object, BuiltIn[8].path) = Undefined
          /\ Get(object, BuiltIn[14].path) = Undefined
          /\ Get(object, BuiltIn[15].path) = Undefined
      BY <2>2, <2>3, BuiltInPaths
    <3>2. Omitted(Get(object, BuiltIn[5].path))
      BY BuiltInPaths
    <3>3. k = 5 \/ k = 8 \/ k = 14 \/ k = 15
      OBVIOUS
    <3> QED
      BY <3>1, <3>2, <3>3 DEF Omitted
  <2>5. Missing(Get(object, BuiltIn[k].path))
    BY <2>4, OmittedIsMissing
  <2> QED
    BY <2>1, <2>5 DEF HasValue
<1>4. ASSUME NEW k \in 1..15, NEW q \in KeyPath, IsPrefix(BuiltIn[k].path, <<"turnaround">> \o q)
      PROVE  k \in {5, 8, 14, 15}
  <2>1. <<"turnaround">> \o q \in KeyPath /\ (<<"turnaround">> \o q)[1] = "turnaround"
    BY <1>1, KeysOfConcat
  <2>2. BuiltIn[k].path[1] = "turnaround"
    BY <1>4, <2>1, BelowField
  <2> QED
    BY <2>2, BuiltInHeads
<1> QED
  BY <1>1, <1>3, <1>4, NothingComes

(* and no view: what is below views came with the picture of a view.         *)
LEMMA FieldsOfViews ==
  ASSUME NEW k \in 1..15, NEW path \in KeyPath, IsPrefix(BuiltIn[k].path, path),
         path[1] = "views"
  PROVE  /\ k \in 9..12 /\ Len(path) >= 3
         /\ BuiltIn[k].path = <<"views", path[2], "assetUri">>
<1>1. /\ BuiltIn[k].path[1] = path[1]
      /\ Len(BuiltIn[k].path) <= Len(path) /\ Len(path) \in Nat
      /\ k \in 9..12 => BuiltIn[k].path[2] = path[2]
  BY BelowField
<1>2. k \in 9..12
  BY <1>1, BuiltInHeads
<1>3. Len(BuiltIn[k].path) = 3
  <2>1. Len(BuiltIn[k].path) = IF k \in 1..5 THEN 1 ELSE IF k \in 9..12 THEN 3 ELSE 2
    BY BuiltInLengths
  <2>2. k \notin 1..5
    BY <1>2
  <2> QED
    BY <1>2, <2>1, <2>2
<1>4. Len(path) >= 3
  BY <1>1, <1>3
<1>5. BuiltIn[k].path = <<"views", BuiltIn[k].path[2], "assetUri">>
  <2>1. k = 9 \/ k = 10 \/ k = 11 \/ k = 12
    BY <1>2
  <2> QED
    BY <2>1, BuiltInPaths
<1>6. BuiltIn[k].path[2] = path[2]
  BY <1>1, <1>2
<1> QED
  BY <1>2, <1>4, <1>5, <1>6

LEMMA NoViewComes ==
  ASSUME NEW object, NEW got, Normal(got, object), NEW view \in Keys,
         Omitted(Get(object, <<"views", view>>))
  PROVE  Get(got, <<"views", view>>) = Undefined
<1>1. "views" \in Keys /\ "assetUri" \in Keys /\ <<"views", view>> \in KeyPath
  BY KeysAssumption, ShortSequences DEF KeyPath
<1>2. IsDocument(object)
  BY DEF Normal
<1>3. Get(object, <<"views", view, "assetUri">>) = Undefined
  <2>1. Get(Get(object, <<"views", view>>), <<"assetUri">>) = Undefined
    BY <1>1, GetOfOmitted
  <2> QED
    BY <1>1, <1>2, <2>1, GetDeepInside
<1>4. ASSUME NEW k \in 1..15, NEW q \in KeyPath, IsPrefix(BuiltIn[k].path, <<"views", view>> \o q)
      PROVE  ~HasValue(object, BuiltIn[k])
  <2> DEFINE path == <<"views", view>> \o q
  <2>1. path \in KeyPath /\ path[1] = "views" /\ path[2] = view
    <3>1. "views" \in Keys
      BY <1>1
    <3>2. path \in KeyPath
      BY <3>1, KeysOfConcat
    <3>3. path[1] = "views"
      BY <3>1, KeysOfConcat
    <3>4. path[2] = view
      BY <3>1, KeysOfConcat
    <3> QED
      BY <3>2, <3>3, <3>4
  <2>2. k \in 9..12 /\ BuiltIn[k].path = <<"views", path[2], "assetUri">>
    <3>1. IsPrefix(BuiltIn[k].path, path)
      BY <1>4
    <3> HIDE DEF path
    <3> QED
      BY <2>1, <3>1, FieldsOfViews
  <2>3. BuiltIn[k].path = <<"views", view, "assetUri">>
    BY <2>1, <2>2
  <2>4. BuiltIn[k].default = Undefined
    <3>1. k # 2
      BY <2>2
    <3> QED
      BY <3>1, BuiltInTypes
  <2> QED
    BY <1>3, <2>3, <2>4 DEF HasValue, Missing
<1> QED
  BY <1>1, <1>4, NothingComes

LEMMA NoViewsCome ==
  ASSUME NEW object, NEW got, Normal(got, object), Omitted(Get(object, <<"views">>))
  PROVE  Get(got, <<"views">>) = Undefined
<1>1. "views" \in Keys /\ "assetUri" \in Keys /\ <<"views">> \in KeyPath
  BY KeysAssumption, ShortSequences DEF KeyPath
<1>2. IsDocument(object)
  BY DEF Normal
<1>3. ASSUME NEW view \in Keys
      PROVE  Get(object, <<"views", view, "assetUri">>) = Undefined
  <2>1. Get(Get(object, <<"views">>), <<view>>) = Undefined
    BY GetOfOmitted
  <2>2. Get(object, <<"views", view>>) = Undefined
    BY <1>1, <1>2, <2>1, GetInside
  <2>3. Get(Undefined, <<"assetUri">>) = Undefined
    BY <1>1, GetOfOmitted DEF Omitted
  <2> QED
    BY <1>1, <1>2, <2>2, <2>3, GetDeepInside
<1>4. ASSUME NEW k \in 1..15, NEW q \in KeyPath, IsPrefix(BuiltIn[k].path, <<"views">> \o q)
      PROVE  ~HasValue(object, BuiltIn[k])
  <2> DEFINE path == <<"views">> \o q
  <2>1. path \in KeyPath /\ path[1] = "views"
    BY <1>1, KeysOfConcat
  <2>2. k \in 9..12
    <3>1. IsPrefix(BuiltIn[k].path, path)
      BY <1>4
    <3> HIDE DEF path
    <3> QED
      BY <2>1, <3>1, FieldsOfViews
  <2>3. /\ BuiltIn[9].path = <<"views", "back", "assetUri">>
        /\ BuiltIn[10].path = <<"views", "left", "assetUri">>
        /\ BuiltIn[11].path = <<"views", "front", "assetUri">>
        /\ BuiltIn[12].path = <<"views", "right", "assetUri">>
        /\ "back" \in Keys /\ "left" \in Keys /\ "front" \in Keys /\ "right" \in Keys
    BY BuiltInPaths, KeysAssumption
  <2>4. k = 9 \/ k = 10 \/ k = 11 \/ k = 12
    BY <2>2
  <2>5. Get(object, BuiltIn[k].path) = Undefined
    BY <1>3, <2>3, <2>4
  <2>6. BuiltIn[k].default = Undefined
    <3>1. k # 2
      BY <2>2
    <3> QED
      BY <3>1, BuiltInTypes
  <2> QED
    BY <2>5, <2>6 DEF HasValue, Missing
<1> QED
  BY <1>1, <1>4, NothingComes

(* What is there of a view is an object.                                     *)
LEMMA ViewsAreNoLeaves ==
  ASSUME NEW object, NEW got, Normal(got, object), NEW view \in Keys
  PROVE  /\ <<>> \notin DOMAIN Get(got, <<"views">>)
         /\ <<>> \notin DOMAIN Get(got, <<"views", view>>)
<1>1. /\ "views" \in Keys /\ <<"views">> \in KeyPath /\ <<"views", view>> \in KeyPath
      /\ <<>> \in KeyPath
  BY KeysAssumption, ShortSequences DEF KeyPath
<1>2. IsDocument(got) /\ \A path \in DOMAIN got : CameWith(path, object, BuiltIn, 15)
  BY DEF Normal, Progress, Kept
<1>3. ASSUME NEW path \in KeyPath, path[1] = "views", path \in DOMAIN got
      PROVE  Len(path) >= 3
  <2>1. PICK k \in 1..15 : IsPrefix(BuiltIn[k].path, path)
    BY <1>2, <1>3 DEF CameWith
  <2> QED
    BY <1>3, <2>1, FieldsOfViews
<1>4. <<"views">> \notin DOMAIN got /\ <<"views", view>> \notin DOMAIN got
  <2>1. /\ <<"views">>[1] = "views" /\ Len(<<"views">>) = 1
        /\ <<"views", view>>[1] = "views" /\ Len(<<"views", view>>) = 2
    OBVIOUS
  <2>2. ~(Len(<<"views">>) >= 3) /\ ~(Len(<<"views", view>>) >= 3)
    BY <2>1
  <2> QED
    BY <1>1, <1>3, <2>1, <2>2
<1>5. ASSUME NEW p \in KeyPath, p \notin DOMAIN got
      PROVE  <<>> \notin DOMAIN Get(got, p)
  <2>1. <<>> \in DOMAIN Get(got, p) <=> p \o <<>> \in DOMAIN got
    BY <1>1, <1>2, GetType
  <2>2. p \o <<>> = p
    BY <1>1, ConcatOrder
  <2> QED
    BY <1>5, <2>1, <2>2
<1> QED
  BY <1>1, <1>4, <1>5

LEMMA NoLeafIsAnObject ==
  ASSUME NEW value, <<>> \notin DOMAIN value
  PROVE  /\ IsObject(value) <=> value # Undefined
         /\ Omitted(value) <=> value = Undefined
<1>1. value # Value(Null)
  BY ValueOfScalar
<1> QED
  BY <1>1 DEF IsObject, Omitted

(* The same views,                                                           *)
GivenViews(source) == {view \in ToSet(Slots) : ~Omitted(Get(source, <<view>>))}

ViewIsFine(source, view) == IsObject(Get(source, <<view>>)) /\ AssetUri(Get(source, <<view>>))

LEMMA ViewsInParts ==
  ASSUME NEW object
  PROVE  LET source == Get(object, <<"views">>) IN
         Views(object) = IF Omitted(source) THEN {{}}
                         ELSE IF IsObject(source) /\ \A v \in GivenViews(source) : ViewIsFine(source, v)
                              THEN {GivenViews(source)}
                         ELSE {}
  BY DEF Views, GivenViews, ViewIsFine

LEMMA UriKeeps ==
  ASSUME NEW object, NEW got, Normal(got, object), NEW n \in {8, 9, 10, 11, 12},
         TextGiven(Get(object, BuiltIn[n].path)) \in AssetUris
  PROVE  /\ TextGiven(Get(got, BuiltIn[n].path)) \in AssetUris
         /\ ~Omitted(Get(got, BuiltIn[n].path))
<1> DEFINE raw == Get(object, BuiltIn[n].path)
           value == Get(got, BuiltIn[n].path)
<1>1. /\ TextGiven(value) = TextGiven(raw)
      /\ ~Missing(raw) => ~Omitted(value)
  BY TextsRead
<1>2. TextGiven(raw) \notin {"", "0", "FALSE"}
  BY AssetUrisAssumption
<1>3. ~Missing(raw)
  BY <1>2, TextsAlike
<1> QED
  BY <1>1, <1>3

LEMMA ViewRead ==
  ASSUME NEW object, NEW got, Normal(got, object), NEW view \in ToSet(Slots),
         ViewIsFine(Get(object, <<"views">>), view)
  PROVE  ViewIsFine(Get(got, <<"views">>), view) /\ ~Omitted(Get(Get(got, <<"views">>), <<view>>))
<1>1. view \in {"front", "left", "right", "back"}
  BY DEF ToSet, Slots
<1>2. "views" \in Keys /\ view \in Keys /\ "assetUri" \in Keys
  BY <1>1, KeysAssumption
<1>3. IsDocument(object) /\ IsDocument(got)
  BY DEF Normal, Progress
<1>4. PICK n \in {9, 10, 11, 12} : BuiltIn[n].path = <<"views", view, "assetUri">>
  BY <1>1, BuiltInPaths
<1> DEFINE raw == Get(object, <<"views", view>>)
           value == Get(got, <<"views", view>>)
<1>5. Get(Get(object, <<"views">>), <<view>>) = raw /\ Get(Get(got, <<"views">>), <<view>>) = value
  <2>1. Get(Get(object, <<"views">>), <<view>>) = raw
    BY <1>2, <1>3, GetInside
  <2>2. Get(Get(got, <<"views">>), <<view>>) = value
    BY <1>2, <1>3, GetInside
  <2> QED
    BY <2>1, <2>2
<1>6. /\ Get(raw, <<"assetUri">>) = Get(object, BuiltIn[n].path)
      /\ Get(value, <<"assetUri">>) = Get(got, BuiltIn[n].path)
  <2>1. Get(raw, <<"assetUri">>) = Get(object, <<"views", view, "assetUri">>)
    BY <1>2, <1>3, GetDeepInside
  <2>2. Get(value, <<"assetUri">>) = Get(got, <<"views", view, "assetUri">>)
    BY <1>2, <1>3, GetDeepInside
  <2> HIDE DEF raw, value
  <2> QED
    BY <1>4, <2>1, <2>2
<1>7. TextGiven(Get(object, BuiltIn[n].path)) \in AssetUris
  <2> HIDE DEF raw, value
  <2> QED
    BY <1>5, <1>6 DEF ViewIsFine, AssetUri
<1>8. /\ TextGiven(Get(got, BuiltIn[n].path)) \in AssetUris
      /\ ~Omitted(Get(got, BuiltIn[n].path))
  BY <1>7, UriKeeps
<1>9. AssetUri(value)
  <2> HIDE DEF raw, value
  <2> QED
    BY <1>6, <1>8 DEF AssetUri
<1>10. value # Undefined
  <2>1. ASSUME value = Undefined
        PROVE  FALSE
    <3>1. Get(value, <<"assetUri">>) = Undefined
      BY <1>2, <2>1, GetOfOmitted DEF Omitted
    <3> HIDE DEF raw, value
    <3> QED
      BY <1>6, <1>8, <3>1 DEF Omitted
  <2> QED
    BY <2>1
<1>11. <<>> \notin DOMAIN value
  BY <1>2, ViewsAreNoLeaves
<1>12. IsObject(value) /\ ~Omitted(value)
  <2> HIDE DEF raw, value
  <2> QED
    BY <1>10, <1>11, NoLeafIsAnObject
<1> HIDE DEF raw, value
<1> QED
  BY <1>5, <1>9, <1>12 DEF ViewIsFine

LEMMA ViewsAlike ==
  ASSUME NEW object, NEW got, Normal(got, object), Views(object) # {}
  PROVE  Views(got) = Views(object)
<1> DEFINE source == Get(object, <<"views">>)
           taken == Get(got, <<"views">>)
<1>1. IsDocument(object) /\ IsDocument(got)
  BY DEF Normal, Progress
<1>2. \A v \in ToSet(Slots) : v \in Keys
  BY KeysAssumption DEF ToSet, Slots
<1>3. "views" \in Keys
  BY KeysAssumption
<1>4. CASE Omitted(source)
  <2>1. taken = Undefined
    BY <1>4, NoViewsCome
  <2>2. Omitted(taken)
    BY <2>1 DEF Omitted
  <2>3. Views(object) = {{}}
    BY <1>4, ViewsInParts
  <2>4. Views(got) = {{}}
    BY <2>2, ViewsInParts
  <2> QED
    BY <2>3, <2>4
<1>5. CASE ~Omitted(source)
  <2>1. \A v \in GivenViews(source) : ViewIsFine(source, v)
    BY <1>5, ViewsInParts
  <2>2. Views(object) = {GivenViews(source)}
    BY <1>5, ViewsInParts
  <2>3. ASSUME NEW v \in ToSet(Slots), Omitted(Get(source, <<v>>))
        PROVE  Omitted(Get(taken, <<v>>))
    <3>1. Get(source, <<v>>) = Get(object, <<"views", v>>)
      BY <1>1, <1>2, <1>3, GetInside
    <3>2. Omitted(Get(object, <<"views", v>>))
      BY <2>3, <3>1
    <3>3. Get(got, <<"views", v>>) = Undefined
      BY <1>2, <3>2, NoViewComes
    <3>4. Get(taken, <<v>>) = Get(got, <<"views", v>>)
      BY <1>1, <1>2, <1>3, GetInside
    <3> QED
      BY <3>3, <3>4 DEF Omitted
  <2>4. ASSUME NEW v \in ToSet(Slots), ~Omitted(Get(source, <<v>>))
        PROVE  ViewIsFine(taken, v) /\ ~Omitted(Get(taken, <<v>>))
    <3>1. ViewIsFine(source, v)
      BY <2>1, <2>4 DEF GivenViews
    <3> QED
      BY <3>1, ViewRead
  <2> HIDE DEF source, taken
  <2>5. GivenViews(taken) = GivenViews(source)
    BY <2>3, <2>4 DEF GivenViews
  <2>6. \A v \in GivenViews(taken) : ViewIsFine(taken, v)
    BY <2>4, <2>5 DEF GivenViews
  <2>7. CASE taken = Undefined
    <3>1. Omitted(taken)
      BY <2>7 DEF Omitted
    <3>2. GivenViews(taken) = {}
      <4>1. \A v \in ToSet(Slots) : Get(taken, <<v>>) = Undefined
        BY <1>2, <3>1, GetOfOmitted
      <4> QED
        BY <4>1 DEF GivenViews, Omitted
    <3>3. Views(got) = {{}}
      BY <3>1, ViewsInParts DEF taken
    <3> QED
      BY <2>2, <2>5, <3>2, <3>3
  <2>8. CASE taken # Undefined
    <3>1. "front" \in Keys
      BY KeysAssumption
    <3>2. <<>> \notin DOMAIN taken
      BY <3>1, ViewsAreNoLeaves DEF taken
    <3>3. IsObject(taken) /\ ~Omitted(taken)
      BY <2>8, <3>2, NoLeafIsAnObject
    <3>4. Views(got) = {GivenViews(taken)}
      BY <2>6, <3>3, ViewsInParts DEF taken
    <3> QED
      BY <2>2, <2>5, <3>4
  <2> QED
    BY <2>7, <2>8
<1> QED
  BY <1>4, <1>5

(* the same sheet,                                                           *)
LEMMA VersionAlike ==
  ASSUME NEW object, NEW got, Normal(got, object),
         Omitted(Get(object, BuiltIn[15].path))
           \/ TextGiven(Get(object, BuiltIn[15].path)) \in DOMAIN Profiles \cup Inherited
  PROVE  /\ TextGiven(Get(got, BuiltIn[15].path)) = TextGiven(Get(object, BuiltIn[15].path))
         /\ Omitted(Get(got, BuiltIn[15].path)) <=> Omitted(Get(object, BuiltIn[15].path))
<1> DEFINE raw == Get(object, BuiltIn[15].path)
           value == Get(got, BuiltIn[15].path)
<1>1. /\ TextGiven(value) = TextGiven(raw)
      /\ ~Missing(raw) => ~Omitted(value)
      /\ Omitted(raw) => Omitted(value)
  BY TextsRead
<1>2. ~Omitted(raw) => ~Missing(raw)
  <2>1. SUFFICES ASSUME ~Omitted(raw)
                 PROVE  ~Missing(raw)
    OBVIOUS
  <2>2. TextGiven(raw) \in {"v1", "constructor"}
    <3> HIDE DEF raw
    <3>1. TextGiven(raw) \in DOMAIN Profiles \cup Inherited
      BY <2>1 DEF raw
    <3> QED
      BY <3>1 DEF Profiles, Inherited
  <2>3. TextGiven(raw) \notin {"", "0", "FALSE"}
    BY <2>2
  <2> QED
    BY <2>3, TextsAlike
<1> QED
  BY <1>1, <1>2

LEMMA PromiseAlike ==
  ASSUME NEW object, NEW got, Normal(got, object), KnownFields(object)
  PROVE  Get(got, BuiltIn[14].path) = Value(Bool(TRUE))
           <=> Get(object, BuiltIn[14].path) = Value(Bool(TRUE))
<1> DEFINE rule == BuiltIn[14]
           raw == Get(object, rule.path)
           value == Get(got, rule.path)
<1>1. rule.type = "boolean" /\ rule.enum = {} /\ rule.default = Undefined
  BY BuiltInTypes, BuiltInRules
<1>2. value \in Outcome(object, rule)
  BY <1>1, NormalParts
<1>3. Omitted(raw) \/ raw \in {Value(Bool(b)) : b \in BOOLEAN}
  BY BuiltInPaths DEF KnownFields, KnownPaths, TextsHaveText
<1>4. CASE raw \in {Value(Bool(b)) : b \in BOOLEAN}
  <2>1. NormalizedValue(raw, rule) = {raw} /\ ~Missing(raw)
    BY <1>1, <1>4, BooleanIsKept
  <2>2. value \in NormalizedValue(raw, rule)
    BY <1>2, <2>1 DEF Outcome
  <2>3. value = raw
    BY <2>1, <2>2
  <2> QED
    BY <2>3
<1>5. CASE Omitted(raw)
  <2>1. Missing(raw)
    BY <1>5, OmittedIsMissing
  <2>2. value \in {Undefined, raw}
    BY <1>1, <1>2, <2>1 DEF Outcome
  <2>3. value \in {Undefined, Value(Null)} /\ raw \in {Undefined, Value(Null)}
    BY <1>5, <2>2 DEF Omitted
  <2>4. Value(Bool(TRUE)) \notin {Undefined, Value(Null)}
    <3>1. Bool(TRUE) # Null
      BY DEF Bool, Null
    <3>2. Value(Bool(TRUE))[<<>>] = Bool(TRUE) /\ Value(Null)[<<>>] = Null
      BY ValueOfScalar
    <3>3. Value(Bool(TRUE)) # Undefined
      BY ValueOfScalar
    <3>4. Value(Bool(TRUE)) # Value(Null)
      BY <3>1, <3>2
    <3> QED
      BY <3>3, <3>4
  <2> QED
    BY <2>3, <2>4
<1> QED
  BY <1>3, <1>4, <1>5

LEMMA SheetsAlike ==
  ASSUME NEW object, NEW got, Normal(got, object), KnownFields(object), Turnaround(object) # {}
  PROVE  Turnaround(got) = Turnaround(object)
<1> DEFINE spec == Get(object, <<"turnaround">>)
           taken == Get(got, <<"turnaround">>)
<1>1. IsDocument(object) /\ IsDocument(got)
  BY DEF Normal, Progress
<1>2. CASE Omitted(spec)
  <2>1. taken = Undefined
    BY <1>2, NoSheetComes
  <2>2. Omitted(taken)
    BY <2>1 DEF Omitted
  <2> HIDE DEF spec, taken
  <2> QED
    BY <1>2, <2>2 DEF Turnaround, spec, taken
<1>3. CASE ~Omitted(spec)
  <2>1. /\ "turnaround" \in Keys /\ "assetUri" \in Keys /\ "formatVersion" \in Keys
        /\ "normalized" \in Keys /\ "views" \in Keys
    BY KeysAssumption
  <2>2. /\ BuiltIn[5].path = <<"turnaround">> /\ BuiltIn[8].path = <<"turnaround", "assetUri">>
        /\ BuiltIn[14].path = <<"turnaround", "normalized">>
        /\ BuiltIn[15].path = <<"turnaround", "formatVersion">>
    BY BuiltInPaths
  <2>3. /\ Get(spec, <<"assetUri">>) = Get(object, BuiltIn[8].path)
        /\ Get(taken, <<"assetUri">>) = Get(got, BuiltIn[8].path)
    <3>1. Get(spec, <<"assetUri">>) = Get(object, <<"turnaround", "assetUri">>)
      BY <1>1, <2>1, GetInside
    <3>2. Get(taken, <<"assetUri">>) = Get(got, <<"turnaround", "assetUri">>)
      BY <1>1, <2>1, GetInside
    <3> HIDE DEF spec, taken
    <3> QED
      BY <2>2, <3>1, <3>2
  <2>4. /\ Get(spec, <<"normalized">>) = Get(object, BuiltIn[14].path)
        /\ Get(taken, <<"normalized">>) = Get(got, BuiltIn[14].path)
    <3>1. Get(spec, <<"normalized">>) = Get(object, <<"turnaround", "normalized">>)
      BY <1>1, <2>1, GetInside
    <3>2. Get(taken, <<"normalized">>) = Get(got, <<"turnaround", "normalized">>)
      BY <1>1, <2>1, GetInside
    <3> HIDE DEF spec, taken
    <3> QED
      BY <2>2, <3>1, <3>2
  <2>5. /\ Get(spec, <<"formatVersion">>) = Get(object, BuiltIn[15].path)
        /\ Get(taken, <<"formatVersion">>) = Get(got, BuiltIn[15].path)
    <3>1. Get(spec, <<"formatVersion">>) = Get(object, <<"turnaround", "formatVersion">>)
      BY <1>1, <2>1, GetInside
    <3>2. Get(taken, <<"formatVersion">>) = Get(got, <<"turnaround", "formatVersion">>)
      BY <1>1, <2>1, GetInside
    <3> HIDE DEF spec, taken
    <3> QED
      BY <2>2, <3>1, <3>2
  <2> DEFINE given == Get(spec, <<"formatVersion">>)
             version == TextGiven(given)
  <2>6. /\ IsObject(spec) /\ AssetUri(spec)
        /\ Omitted(given) \/ (version \in DOMAIN Profiles \cup Inherited /\ ViewsMatch(spec, version))
    BY <1>3 DEF Turnaround
  <2>7. IsObject(taken) /\ ~Omitted(taken)
    <3>1. IsObject(taken)
      BY <2>2, <2>6, ObjectsRead
    <3> QED
      BY <3>1, OmittedIsMissing
  <2>8. AssetUri(taken)
    <3>1. TextGiven(Get(object, BuiltIn[8].path)) \in AssetUris
      <4> HIDE DEF spec, taken
      <4> QED
        BY <2>3, <2>6 DEF AssetUri
    <3>2. TextGiven(Get(got, BuiltIn[8].path)) \in AssetUris
      BY <3>1, UriKeeps
    <3> HIDE DEF spec, taken
    <3> QED
      BY <2>3, <3>2 DEF AssetUri
  <2>9. /\ TextGiven(Get(taken, <<"formatVersion">>)) = version
        /\ Omitted(Get(taken, <<"formatVersion">>)) <=> Omitted(given)
    <3>1. Omitted(Get(object, BuiltIn[15].path))
            \/ TextGiven(Get(object, BuiltIn[15].path)) \in DOMAIN Profiles \cup Inherited
      <4> HIDE DEF spec, taken
      <4> QED
        BY <2>5, <2>6
    <3>2. /\ TextGiven(Get(got, BuiltIn[15].path)) = TextGiven(Get(object, BuiltIn[15].path))
          /\ Omitted(Get(got, BuiltIn[15].path)) <=> Omitted(Get(object, BuiltIn[15].path))
      BY <3>1, VersionAlike
    <3> HIDE DEF spec, taken
    <3> QED
      BY <2>5, <3>2
  <2>10. Get(taken, <<"normalized">>) = Value(Bool(TRUE))
           <=> Get(spec, <<"normalized">>) = Value(Bool(TRUE))
    <3>1. Get(got, BuiltIn[14].path) = Value(Bool(TRUE))
            <=> Get(object, BuiltIn[14].path) = Value(Bool(TRUE))
      BY PromiseAlike
    <3> HIDE DEF spec, taken
    <3> QED
      BY <2>4, <3>1
  <2>11. Get(taken, <<"views">>) = Get(spec, <<"views">>)
    BY <2>1, <2>6, KeptAsPosted
  <2> HIDE DEF spec, taken, given, version
  <2>12. ViewsMatch(taken, version) <=> ViewsMatch(spec, version)
    BY <2>11 DEF ViewsMatch
  <2> DEFINE promised == Get(spec, <<"normalized">>) = Value(Bool(TRUE))
             sheetOf(text) == [given |-> TRUE, formatVersion |-> {text}, normalized |-> promised]
             old == [NoSheet EXCEPT !.given = TRUE]
  <2>13. Turnaround(object) = IF Omitted(given) THEN {old} ELSE {sheetOf(version)}
    BY <1>3, <2>6 DEF Turnaround, spec, given, version
  <2>14. Turnaround(got) = IF Omitted(given) THEN {old} ELSE {sheetOf(version)}
    <3> DEFINE givenNow == Get(taken, <<"formatVersion">>)
               versionNow == TextGiven(givenNow)
               promisedNow == Get(taken, <<"normalized">>) = Value(Bool(TRUE))
               sheetNow == [given |-> TRUE, formatVersion |-> {versionNow},
                            normalized |-> promisedNow]
    <3>1. /\ versionNow = version /\ (Omitted(givenNow) <=> Omitted(given))
          /\ promisedNow = promised
      BY <2>9, <2>10
    <3>2. Turnaround(got) =
            IF Omitted(givenNow) THEN {old}
            ELSE IF versionNow \in DOMAIN Profiles \cup Inherited /\ ViewsMatch(taken, versionNow)
                 THEN {sheetNow} ELSE {}
      BY <2>7, <2>8 DEF Turnaround, taken
    <3>3. ~Omitted(given) => /\ versionNow \in DOMAIN Profiles \cup Inherited
                             /\ ViewsMatch(taken, versionNow)
      BY <2>6, <2>12, <3>1
    <3>4. sheetNow = sheetOf(version)
      BY <3>1
    <3> HIDE DEF givenNow, versionNow, promisedNow, sheetNow, sheetOf, old
    <3> QED
      BY <3>1, <3>2, <3>3, <3>4
  <2> QED
    BY <2>13, <2>14
<1> QED
  BY <1>2, <1>3

(* the same target,                                                          *)
LEMMA TargetsAlike ==
  ASSUME NEW object, NEW got, Normal(got, object), Target(Get(object, <<"target">>)) # {}
  PROVE  Target(Get(got, <<"target">>)) = Target(Get(object, <<"target">>))
<1> DEFINE target == Get(object, <<"target">>)
           taken == Get(got, <<"target">>)
<1>1. IsDocument(object) /\ IsDocument(got)
  BY DEF Normal, Progress
<1>2. /\ "target" \in Keys /\ "entityId" \in Keys /\ "entityKind" \in Keys
      /\ "depictionIndex" \in Keys
  BY KeysAssumption
<1>3. /\ BuiltIn[3].path = <<"target">> /\ BuiltIn[6].path = <<"target", "entityId">>
      /\ BuiltIn[7].path = <<"target", "entityKind">>
      /\ BuiltIn[13].path = <<"target", "depictionIndex">>
  BY BuiltInPaths
<1>4. IsObject(target) /\ IsObject(taken)
  <2>1. IsObject(target)
    BY TargetRead
  <2>2. IsObject(taken)
    BY <1>3, <2>1, ObjectsRead
  <2> QED
    BY <2>1, <2>2
<1>5. ASSUME NEW key \in Keys
      PROVE  /\ Get(target, <<key>>) = Get(object, <<"target", key>>)
             /\ Get(taken, <<key>>) = Get(got, <<"target", key>>)
  <2>1. Get(target, <<key>>) = Get(object, <<"target", key>>)
    BY <1>1, <1>2, GetInside
  <2>2. Get(taken, <<key>>) = Get(got, <<"target", key>>)
    BY <1>1, <1>2, GetInside
  <2> QED
    BY <2>1, <2>2
<1>6. TextGiven(Get(taken, <<"entityId">>)) = TextGiven(Get(target, <<"entityId">>))
  <2>1. TextGiven(Get(got, BuiltIn[6].path)) = TextGiven(Get(object, BuiltIn[6].path))
    BY TextsRead
  <2> HIDE DEF target, taken
  <2> QED
    BY <1>2, <1>3, <1>5, <2>1
<1>7. TextGiven(Get(taken, <<"entityKind">>)) = TextGiven(Get(target, <<"entityKind">>))
  <2>1. TextGiven(Get(got, BuiltIn[7].path)) = TextGiven(Get(object, BuiltIn[7].path))
    BY TextsRead
  <2> HIDE DEF target, taken
  <2> QED
    BY <1>2, <1>3, <1>5, <2>1
<1>8. OptionalInteger(Get(taken, <<"depictionIndex">>), 0) =
        OptionalInteger(Get(target, <<"depictionIndex">>), 0)
  <2>1. BuiltIn[13].minimum = {0}
    BY BuiltInRules
  <2>2. OptionalInteger(Get(got, BuiltIn[13].path), 0) =
          OptionalInteger(Get(object, BuiltIn[13].path), 0)
    BY <2>1, IntegersRead
  <2> HIDE DEF target, taken
  <2> QED
    BY <1>2, <1>3, <1>5, <2>2
<1> HIDE DEF target, taken
<1>9. Target(taken) = Target(target)
  BY <1>4, <1>6, <1>7, <1>8, TargetInParts
<1> QED
  BY <1>9 DEF target, taken

(* the same preset,                                                          *)
HasText(value) == Missing(value) \/ Text(value) # ""

LEMMA PresetAlike ==
  ASSUME NEW object, NEW got, Normal(got, object), HasText(Get(object, <<"preset">>))
  PROVE  Preset(Get(got, <<"preset">>)) = Preset(Get(object, <<"preset">>))
<1> DEFINE rule == BuiltIn[2]
           raw == Get(object, rule.path)
           value == Get(got, rule.path)
<1>1. /\ rule.path = <<"preset">> /\ rule.type = "string"
      /\ rule.default = Value(Str("standard"))
  <2>1. rule.path = <<"preset">>
    BY BuiltInPaths
  <2>2. rule.type = "string" /\ rule.default = Value(Str("standard"))
    BY BuiltInTypes
  <2> QED
    BY <2>1, <2>2
<1>2. value \in Outcome(object, rule)
  <2>1. rule.type # "object"
    BY <1>1
  <2> QED
    BY <2>1, NormalParts
<1>3. rule.default # Undefined
  BY <1>1, ValueOfScalar
<1>4. CASE Missing(raw)
  <2>1. value = Value(Str("standard"))
    BY <1>1, <1>2, <1>3, <1>4 DEF Outcome
  <2>2. TextGiven(value) = "standard" /\ TextGiven(raw) = ""
    BY <1>4, <2>1, TextOfString, TextsAlike
  <2> HIDE DEF value, raw
  <2>3. Preset(value) = Preset(raw)
    BY <2>2 DEF Preset
  <2> QED
    BY <1>1, <2>3 DEF value, raw
<1>5. CASE ~Missing(raw)
  <2>1. Text(raw) # ""
    <3>1. HasText(raw)
      BY <1>1
    <3> QED
      BY <1>5, <3>1 DEF HasText
  <2>2. value \in OfType(raw, rule)
    BY <1>2, <1>5 DEF Outcome, NormalizedValue
  <2>3. value = Value(Str(Text(raw)))
    <3> HIDE DEF value, raw, rule
    <3> QED
      BY <1>1, <2>2 DEF OfType
  <2>4. TextGiven(value) = Text(raw)
    BY <2>3, TextOfString
  <2>5. TextGiven(raw) = Text(raw)
    BY <1>5, <2>1, TextsAlike
  <2> HIDE DEF value, raw
  <2>6. Preset(value) = Preset(raw)
    BY <2>4, <2>5 DEF Preset
  <2> QED
    BY <1>1, <2>6 DEF value, raw
<1> QED
  BY <1>4, <1>5

(* and the same job.                                                         *)
LEMMA OfTargetAlike ==
  ASSUME NEW object, NEW got, Normal(got, object), IsObject(Get(object, <<"target">>)),
         NEW key \in {"bboxM", "physicalInputHash", "physicalInput", "protectGeneratedCurrent"}
  PROVE  OfTarget(got, key) = OfTarget(object, key)
<1>1. key \in Keys \ {"entityId", "entityKind", "depictionIndex",
                      "assetUri", "normalized", "formatVersion"}
  BY KeysAssumption
<1>2. Get(Get(got, <<"target">>), <<key>>) = Get(Get(object, <<"target">>), <<key>>)
  BY <1>1, KeptAsPosted
<1> QED
  BY <1>2 DEF OfTarget

LEMMA HydratedAlike ==
  ASSUME NEW object, KnownFields(object), Readable(object),
         NEW got, Normal(got, object)
  PROVE  Hydrated(got) = Hydrated(object)
<1>1. /\ Turnaround(object) # {} /\ Views(object) # {} /\ Target(Get(object, <<"target">>)) # {}
  BY DEF Readable
<1>2. Turnaround(got) = Turnaround(object) /\ Views(got) = Views(object)
  BY <1>1, SheetsAlike, ViewsAlike
<1>3. Target(Get(got, <<"target">>)) = Target(Get(object, <<"target">>))
  BY <1>1, TargetsAlike
<1>4. IsObject(Get(object, <<"target">>))
  BY <1>1, TargetRead
<1>5. /\ OfTarget(got, "bboxM") = OfTarget(object, "bboxM")
      /\ OfTarget(got, "physicalInputHash") = OfTarget(object, "physicalInputHash")
      /\ OfTarget(got, "physicalInput") = OfTarget(object, "physicalInput")
      /\ OfTarget(got, "protectGeneratedCurrent") = OfTarget(object, "protectGeneratedCurrent")
  BY <1>4, OfTargetAlike
<1>6. Preset(Get(got, <<"preset">>)) = Preset(Get(object, <<"preset">>))
  <2>1. HasText(Get(object, <<"preset">>))
    BY DEF KnownFields, KnownPaths, TextsHaveText, HasText
  <2> QED
    BY <2>1, PresetAlike
<1>7. /\ OptionalInteger(Get(got, <<"seed">>), 0) = OptionalInteger(Get(object, <<"seed">>), 0)
      /\ OptionalInteger(Get(got, <<"maxFaces">>), 1000) =
           OptionalInteger(Get(object, <<"maxFaces">>), 1000)
  <2>1. /\ BuiltIn[1].path = <<"seed">> /\ BuiltIn[1].minimum = {0}
        /\ BuiltIn[4].path = <<"maxFaces">> /\ BuiltIn[4].minimum = {1000}
    BY BuiltInPaths, BuiltInRules
  <2>2. OptionalInteger(Get(got, BuiltIn[1].path), 0) = OptionalInteger(Get(object, BuiltIn[1].path), 0)
    BY <2>1, IntegersRead
  <2>3. OptionalInteger(Get(got, BuiltIn[4].path), 1000) =
          OptionalInteger(Get(object, BuiltIn[4].path), 1000)
    BY <2>1, IntegersRead
  <2> QED
    BY <2>1, <2>2, <2>3
<1> QED
  BY <1>2, <1>3, <1>5, <1>6, <1>7, HydratedInParts

(* The definition and the worker agree, whatever is posted: what the worker  *)
(* could use as it is is accepted, and read as it was posted.                *)
THEOREM WorkerAndDefinitionAgree ==
  ASSUME NEW object, IsDocument(object), KnownFields(object), Hydrated(object) # {}
  PROVE  /\ NormalizedPayload(object, BuiltIn) # {}
         /\ \A got \in NormalizedPayload(object, BuiltIn) : Hydrated(got) = Hydrated(object)
<1>1. Readable(object)
  BY HydratedIsReadable
<1>2. ASSUME NEW got \in NormalizedPayload(object, BuiltIn)
      PROVE  Hydrated(got) = Hydrated(object)
  <2>1. Normal(got, object)
    BY StoredIsNormal
  <2> QED
    BY <1>1, <2>1, HydratedAlike
<1> QED
  BY <1>1, <1>2, ReadableIsAccepted

-----------------------------------------------------------------------------
(* From the posted payload to the job: the definition and the worker agree   *)
(* on it, and there is a front view ahead.                                   *)
Agreed ==
  /\ stage = "starting" => rules \in StoredRules
  /\ stage \in {"starting", "serving", "refused", "accepted", "rejected", "hydrated"} =>
       IsDocument(payload)
  /\ stage \in {"serving", "refused", "accepted", "rejected", "hydrated"} => rules = BuiltIn
  /\ stage = "refused" => NormalizedPayload(payload, rules) = {}
  /\ stage \in {"accepted", "rejected", "hydrated"} =>
       stored \in NormalizedPayload(payload, rules)

FrontAhead ==
  /\ stage = "resolving" => job.sheet.given \/ "front" \in job.views
  /\ stage # "noFront"

LEMMA IntakeInitAgreed == IntakeInit => Agreed /\ FrontAhead
  BY PayloadsAssumption DEF IntakeInit, Agreed, FrontAhead

LEMMA IntakeNextAgreed ==
  ASSUME Upgraded, Agreed, [IntakeNext]_intakeVars
  PROVE  Agreed'
<1>1. CASE EnsureDefinition
  <2>1. /\ stage = "starting" /\ stage' = "serving" /\ payload' = payload
        /\ rules' = IF Outdated(rules) THEN BuiltIn ELSE rules
    BY <1>1 DEF EnsureDefinition
  <2>2. rules' = BuiltIn
    BY <2>1 DEF Agreed, Upgraded
  <2>3. IsDocument(payload')
    BY <2>1 DEF Agreed
  <2> QED
    BY <2>1, <2>2, <2>3 DEF Agreed
<1>2. CASE Post
  <2>1. /\ stage = "serving" /\ rules' = rules /\ payload' = payload
        /\ \/ stage' = "refused" /\ NormalizedPayload(payload, rules) = {}
           \/ stage' = "accepted" /\ stored' \in NormalizedPayload(payload, rules)
    BY <1>2 DEF Post
  <2> QED
    BY <2>1 DEF Agreed
<1>3. CASE Hydrate
  <2>1. /\ stage = "accepted" /\ stage' \in {"rejected", "hydrated", "failed"}
        /\ rules' = rules /\ payload' = payload /\ stored' = stored
    BY <1>3 DEF Hydrate
  <2> QED
    BY <2>1 DEF Agreed
<1>4. CASE Resolve \/ SliceSheet \/ SliceFails \/ UseViews
  <2>1. stage' \in {"resolving", "staged", "noFront", "failed"}
    BY <1>4 DEF Resolve, SliceSheet, SliceFails, UseViews, Stages3D
  <2> QED
    BY <2>1 DEF Agreed
<1>5. CASE UNCHANGED intakeVars
  BY <1>5 DEF intakeVars, Agreed
<1> QED
  BY <1>1, <1>2, <1>3, <1>4, <1>5 DEF IntakeNext

(* The views are the same for every job that is read from a payload.         *)
LEMMA JobHasFront ==
  ASSUME NEW object, NEW h \in Hydrated(object)
  PROVE  h.turnaround.given \/ "front" \in h.views
<1>1. Views(object) = {} \/ \E v : Views(object) = {v}
  BY ViewsInParts
<1>2. \E given \in {s \in Turnaround(object) : s.given \/ \E v \in Views(object) : "front" \in v},
         views \in Views(object) :
         h.turnaround = SheetInUse(given, views) /\ h.views = views
  <2>1. ASSUME NEW sheets, NEW vs, NEW targets, NEW box, NEW hashes, NEW inputs, NEW protects,
               NEW presets, NEW seeds, NEW faceCounts,
               NEW g \in Worker(sheets, vs, targets, box, hashes, inputs, protects,
                                presets, seeds, faceCounts)
        PROVE  \E given \in {s \in sheets : s.given \/ \E v \in vs : "front" \in v}, views \in vs :
                 g.turnaround = SheetInUse(given, views) /\ g.views = views
    BY DEF Worker
  <2> QED
    BY <2>1, HydratedInParts
<1>3. PICK given \in Turnaround(object), views \in Views(object) :
         /\ given.given \/ \E v \in Views(object) : "front" \in v
         /\ h.turnaround = SheetInUse(given, views) /\ h.views = views
  BY <1>2
<1>4. CASE "front" \in views
  BY <1>3, <1>4 DEF SheetInUse, NoSheet
<1>5. CASE "front" \notin views
  BY <1>1, <1>3, <1>5 DEF SheetInUse
<1> QED
  BY <1>3, <1>4, <1>5

LEMMA IntakeNextFront ==
  ASSUME FrontAhead, [IntakeNext]_intakeVars
  PROVE  FrontAhead'
<1>1. CASE EnsureDefinition \/ Post \/ Hydrate \/ SliceFails
  <2>1. stage' \in {"serving", "refused", "accepted", "rejected", "hydrated", "failed"}
    BY <1>1 DEF EnsureDefinition, Post, Hydrate, SliceFails
  <2> QED
    BY <2>1 DEF FrontAhead
<1>2. CASE Resolve
  <2>1. PICK h \in Hydrated(stored) :
          /\ stage' = "resolving"
          /\ job' = [sheet |-> h.turnaround, kind |-> h.target.kind,
                     views |-> IF h.turnaround.given THEN {} ELSE h.views]
    BY <1>2 DEF Resolve
  <2>2. h.turnaround.given \/ "front" \in h.views
    BY JobHasFront
  <2>3. job'.sheet.given \/ "front" \in job'.views
    BY <2>1, <2>2
  <2> QED
    BY <2>1, <2>3 DEF FrontAhead
<1>3. CASE SliceSheet
  <2>1. Supported /\ Stages3D(Slices(sheet', Layout, Background, job.sheet.normalized))
    BY <1>3 DEF SliceSheet
  <2>2. "front" \in ToSet(Layout)
    <3>1. Layout \in Layouts
      BY <2>1, LayoutType
    <3>2. \A slots \in Layouts : "front" \in ToSet(slots)
      BY DEF Layouts, ToSet
    <3> QED
      BY <3>1, <3>2
  <2>3. "front" \in DOMAIN Slices(sheet', Layout, Background, job.sheet.normalized)
    BY <2>2 DEF Slices
  <2>4. stage' = "staged"
    BY <2>1, <2>3 DEF Stages3D
  <2> QED
    BY <2>4 DEF FrontAhead
<1>4. CASE UseViews
  <2>1. /\ stage = "resolving" /\ ~job.sheet.given
        /\ Stages3D([view \in job.views |-> <<0, Width>>])
    BY <1>4 DEF UseViews
  <2>2. "front" \in job.views
    BY <2>1 DEF FrontAhead
  <2>3. stage' = "staged"
    BY <2>1, <2>2 DEF Stages3D
  <2> QED
    BY <2>3 DEF FrontAhead
<1>5. CASE UNCHANGED intakeVars
  BY <1>5 DEF intakeVars, FrontAhead
<1> QED
  BY <1>1, <1>2, <1>3, <1>4, <1>5 DEF IntakeNext

(* Whatever the sheet and whatever is posted, the worker never stands there  *)
(* without a front view.                                                     *)
THEOREM IntakeHasFront == IntakeSpec => [](stage # "noFront")
<1>1. FrontAhead => stage # "noFront"
  BY DEF FrontAhead
<1> QED
  BY <1>1, IntakeInitAgreed, IntakeNextFront, PTL DEF IntakeSpec

(* If the server replaces every definition but its own when it starts, then  *)
(* no payload that the worker could use as it is is refused, and what was    *)
(* stored is read as it was posted.                                          *)
THEOREM IntakeRefusesNothingConsumed ==
  ASSUME Upgraded
  PROVE  IntakeSpec => []NothingConsumedIsRefused
<1>1. Agreed /\ FrontAhead => NothingConsumedIsRefused
  <2> SUFFICES ASSUME Agreed, FrontAhead,
                      stage \in {"refused", "accepted", "rejected", "hydrated"},
                      KnownFields(payload), Hydrated(payload) # {}
               PROVE  stage # "refused" /\ Hydrated(stored) = Hydrated(payload)
    BY DEF NothingConsumedIsRefused, FrontAhead
  <2>1. IsDocument(payload) /\ rules = BuiltIn
    BY DEF Agreed
  <2>2. /\ NormalizedPayload(payload, BuiltIn) # {}
        /\ \A got \in NormalizedPayload(payload, BuiltIn) : Hydrated(got) = Hydrated(payload)
    BY <2>1, WorkerAndDefinitionAgree
  <2>3. stage # "refused"
    BY <2>1, <2>2 DEF Agreed
  <2>4. stored \in NormalizedPayload(payload, BuiltIn)
    BY <2>1, <2>3 DEF Agreed
  <2> QED
    BY <2>2, <2>3, <2>4
<1>2. Agreed /\ FrontAhead /\ [IntakeNext]_intakeVars => (Agreed /\ FrontAhead)'
  BY IntakeNextAgreed, IntakeNextFront
<1> QED
  BY <1>1, <1>2, IntakeInitAgreed, PTL DEF IntakeSpec
==============================================================================
