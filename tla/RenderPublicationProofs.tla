----------------------- MODULE RenderPublicationProofs -----------------------
(***************************************************************************)
(* What a run of render_panel leaves behind: its task's log, row and        *)
(* attempts, and the outputs of the panel.                                  *)
(*                                                                          *)
(* Four invariants, each on top of RunsOK, which says what a run has done   *)
(* by the step it is at.  LogOK: the numbers of a log have no gap and none  *)
(* that a run has read is beyond the next one, so that an insert that the   *)
(* unique index accepts continues the log.  RecordsOK: what the one run     *)
(* that is at work has recorded so far.  SidecarOK: the temporary file is   *)
(* never the sidecar, and a run that is alone between its read and its      *)
(* rename writes what is listed, and itself.  Reported: what a run says has *)
(* succeeded is published.                                                  *)
(***************************************************************************)
EXTENDS RenderPublication, FiniteSetTheorems, SequenceTheorems, TLAPS

-----------------------------------------------------------------------------
(* The runs.  What comes before a run has an outcome, and after.            *)

Early == {"running", "upload", "asset", "save90", "publish", "read", "open", "write",
          "rename", "metadata"}

Recording == {"save", "log", "attempt"}

Steps == {"never", "idle"} \cup Ended \cup Early \cup Recording

Results == {"none", "succeeded"} \cup Failures

RunTypes ==
  /\ mishaps \in Nat
  /\ platform \in BOOLEAN
  /\ DOMAIN row = Tasks
  /\ at \in [Runs -> Steps]
  /\ attempt \in [Runs -> 1..MaxAttempts]
  /\ outcome \in [Runs -> Results]
  /\ uploaded \subseteq Runs
  /\ raced \in BOOLEAN

(* A run that has not come to its end has no outcome, one that has done so  *)
(* has one; only the platform takes artifacts.                              *)
InOrder ==
  \A r \in Runs :
    /\ at[r] \in {"never", "idle"} \cup Early => outcome[r] = "none"
    /\ at[r] \in Recording => outcome[r] # "none"
    /\ at[r] \in Early \ {"running", "upload"} => r \in uploaded
    /\ at[r] = "publish" => platform
    /\ at[r] \in {"read", "open", "write", "rename"} => ~platform

RunsOK == RunTypes /\ InOrder

(* At the start nobody has done anything.                                   *)
LEMMA RunsStart == Init => RunsOK
<1> SUFFICES ASSUME Init PROVE RunsOK
  OBVIOUS
<1>1. RunTypes
  <2>1. at \in [Runs -> {"never", "idle"}]
    BY DEF Init
  <2>2. at \in [Runs -> Steps]
    BY <2>1 DEF Steps
  <2>3. attempt \in [Runs -> 1..MaxAttempts]
    BY RunsAssumption DEF Init
  <2>4. outcome \in [Runs -> Results]
    BY DEF Init, Results
  <2> QED
    BY <2>2, <2>3, <2>4 DEF Init, OutputsInit, RunTypes
<1>2. InOrder
  BY DEF Init, InOrder, Early, Recording
<1> QED
  BY <1>1, <1>2 DEF RunsOK

(* How a run goes on from a step that is over.                              *)
GoesOn(r) == Proceed(r) \/ (\E failure \in Failures : Catch(r, failure)) \/ EndAbruptly(r)

(* A step that is over leaves a run in order.                               *)
LEMMA GoesOnKeepsRuns ==
  ASSUME RunsOK, NEW r \in Runs, at[r] \in Calls \cup Appends, GoesOn(r),
         uploaded' = uploaded \/ uploaded' = uploaded \cup {r},
         at[r] = "upload" /\ Proceed(r) => r \in uploaded',
         mishaps' \in Nat, DOMAIN row' = Tasks, UNCHANGED platform
  PROVE  RunsOK'
<1>1. CASE Proceed(r)
  <2>1. RunTypes'
    BY <1>1 DEF RunsOK, RunTypes, Proceed, Goes, Then, Steps, Ended, Early, Recording, Calls,
       Appends, Results, Failures
  <2>2. \A s \in Runs \ {r} : at'[s] = at[s] /\ outcome'[s] = outcome[s]
    BY <1>1 DEF RunsOK, RunTypes, Proceed, Goes
  <2>3. /\ at'[r] = Then(r)
        /\ outcome'[r] = IF at[r] = "metadata" THEN "succeeded" ELSE outcome[r]
    BY <1>1 DEF RunsOK, RunTypes, Proceed, Goes
  <2>4. InOrder'
    <3>1. ASSUME NEW s \in Runs \ {r}
          PROVE  /\ at'[s] \in {"never", "idle"} \cup Early => outcome'[s] = "none"
                 /\ at'[s] \in Recording => outcome'[s] # "none"
                 /\ at'[s] \in Early \ {"running", "upload"} => s \in uploaded'
                 /\ at'[s] = "publish" => platform'
                 /\ at'[s] \in {"read", "open", "write", "rename"} => ~platform'
      BY <2>2 DEF RunsOK, InOrder
    <3>2. /\ at'[r] \in {"never", "idle"} \cup Early => outcome'[r] = "none"
          /\ at'[r] \in Recording => outcome'[r] # "none"
          /\ at'[r] \in Early \ {"running", "upload"} => r \in uploaded'
      BY <1>1, <2>3 DEF RunsOK, InOrder, Then, Early, Recording, Ended, Calls, Appends
    <3>3. /\ at'[r] = "publish" => platform'
          /\ at'[r] \in {"read", "open", "write", "rename"} => ~platform'
      BY <2>3 DEF RunsOK, InOrder, Then, Calls, Appends
    <3> QED
      BY <3>1, <3>2, <3>3 DEF InOrder
  <2> QED
    BY <2>1, <2>4 DEF RunsOK
<1>2. ASSUME NEW failure \in Failures, Catch(r, failure)
      PROVE  RunsOK'
  <2>1. RunTypes'
    BY <1>2 DEF RunsOK, RunTypes, Catch, Goes, history, Steps, Ended, Early, Recording, Results,
       Failures
  <2>2. InOrder'
    BY <1>2 DEF RunsOK, RunTypes, InOrder, Catch, Goes, Steps, Ended, Early, Recording, Results,
       Failures
  <2> QED
    BY <2>1, <2>2 DEF RunsOK
<1>3. CASE EndAbruptly(r)
  BY <1>3 DEF RunsOK, RunTypes, InOrder, EndAbruptly, Goes, Steps, Ended, Early, Recording,
     Results, Failures
<1> QED
  BY <1>1, <1>2, <1>3 DEF GoesOn

LEMMA FailureType ==
  ASSUME NEW r
  PROVE  Failure(r) \in Failures
  BY DEF Failure, Failures

(* What the steps of a run are: it starts, waits, goes on or dies.          *)
Waits(r) == at[r] \in Appends /\ (ReadSequence(r) \/ TryAgain(r))

LEMMA EffectUploads ==
  ASSUME NEW r \in Runs, at[r] \in Calls, Effect(r)
  PROVE  /\ uploaded' = IF at[r] = "upload" THEN uploaded \cup {r} ELSE uploaded
         /\ UNCHANGED platform
         /\ DOMAIN row' = DOMAIN row
  BY DEF Effect, Calls, SaveRow, Upload, AddArtifact, ReadSidecar, OpenTemporary,
     WriteTemporary, Rename, SaveAttempt, outputVars, fileVars

(* The runs stay in order.                                                  *)
LEMMA RunsStep == RunsOK /\ [Next]_vars => RunsOK'
<1> SUFFICES ASSUME RunsOK, [Next]_vars
             PROVE  RunsOK'
  OBVIOUS
<1>1. CASE UNCHANGED vars
  BY <1>1 DEF RunsOK, RunTypes, InOrder, vars, outputVars, runVars, history
<1>2. ASSUME NEW r \in Runs, Begin(r)
      PROVE  RunsOK'
  BY <1>2 DEF Begin, RunsOK, RunTypes, InOrder, Goes, outputVars, Steps, Early, Recording, Ended
<1>3. ASSUME NEW r \in Runs, Call(r)
      PROVE  RunsOK'
  BY <1>3, GoesOnKeepsRuns, EffectUploads DEF Call, GoesOn, RunsOK, RunTypes
<1>4. ASSUME NEW r \in Runs, AppendEvent(r)
      PROVE  RunsOK'
  <2>1. CASE UNCHANGED <<at, outcome, attempt, history>>
    BY <1>4, <2>1 DEF AppendEvent, RunsOK, RunTypes, InOrder, outputVars, history
  <2>2. CASE Proceed(r)
    BY <1>4, <2>2, GoesOnKeepsRuns DEF AppendEvent, GoesOn, RunsOK, RunTypes, outputVars, Appends
  <2>3. CASE Fails(r)
    BY <1>4, <2>3, GoesOnKeepsRuns, FailureType
       DEF AppendEvent, GoesOn, Fails, RunsOK, RunTypes, outputVars, Appends
  <2> QED
    BY <1>4, <2>1, <2>2, <2>3 DEF AppendEvent
<1>5. ASSUME NEW r \in Runs, Refused(r)
      PROVE  RunsOK'
  BY <1>5, GoesOnKeepsRuns, FailureType
     DEF Refused, BatchRefused, GoesOn, RunsOK, RunTypes, outputVars, Calls, Catch, Proceed, Goes,
     Then
<1>6. ASSUME NEW r \in Runs, RenameFails(r)
      PROVE  RunsOK'
  BY <1>6, GoesOnKeepsRuns, FailureType
     DEF RenameFails, GoesOn, RunsOK, RunTypes, outputVars, Calls
<1>7. ASSUME NEW r \in Runs, Throws(r)
      PROVE  RunsOK'
  <2>1. GoesOn(r)
    BY <1>7, FailureType DEF Throws, Fails, GoesOn
  <2>5. at[r] = "upload" => ~Proceed(r)
    BY <1>7, FailureType
       DEF Throws, Fails, Catch, EndAbruptly, Proceed, RunsOK, RunTypes, InOrder, Early, Failures
  <2>2. mishaps' \in Nat
    BY <1>7 DEF Throws, Mishap, RunsOK, RunTypes
  <2>3. CASE at[r] \in Calls
    BY <1>7, <2>1, <2>2, <2>5, <2>3, GoesOnKeepsRuns, EffectUploads
       DEF Throws, RunsOK, RunTypes, outputVars, Appends, Calls
  <2>4. CASE at[r] \in Appends
    BY <1>7, <2>1, <2>2, <2>4, GoesOnKeepsRuns
       DEF Throws, RunsOK, RunTypes, outputVars, Calls, Appends
  <2> QED
    BY <1>7, <2>3, <2>4 DEF Throws
<1>8. ASSUME NEW r \in Runs, Rejects(r)
      PROVE  RunsOK'
  <2>1. mishaps' \in Nat /\ "rejected" \in Failures
    BY <1>8 DEF Rejects, Mishap, RunsOK, RunTypes, Failures
  <2> QED
    BY <1>8, <2>1, GoesOnKeepsRuns
       DEF Rejects, Upload, GoesOn, RunsOK, RunTypes, outputVars, Calls, logVars
<1>9. ASSUME NEW r \in Runs, Crash(r)
      PROVE  RunsOK'
  BY <1>9 DEF Crash, Mishap, RunsOK, RunTypes, InOrder, Goes, Steps, Ended, Early, Recording,
     outputVars
<1> QED
  BY <1>1, <1>2, <1>3, <1>4, <1>5, <1>6, <1>7, <1>8, <1>9 DEF Next

-----------------------------------------------------------------------------
(* The numbers of the events.                                               *)

(* The last number.                                                         *)
LEMMA MaxOfInterval ==
  ASSUME NEW k \in Nat \ {0}
  PROVE  Max(1..k) = k
<1>1. k \in 1..k /\ \A y \in 1..k : k >= y
  OBVIOUS
<1>2. Max(1..k) \in 1..k /\ \A y \in 1..k : Max(1..k) >= y
  BY <1>1 DEF Max
<1>3. Max(1..k) >= k /\ k >= Max(1..k)
  BY <1>1, <1>2
<1> QED
  BY <1>2, <1>3

(* A log is numbered without a gap.                                         *)
Numbered(log) == \E k \in Nat \ {0} : DOMAIN log = 1..k

EventsIn(log, r) == {n \in DOMAIN log : log[n].by = r}

(* What a run appended is in it, in the order of its appends.               *)
Holds(log, list, r) ==
  \E number \in [DOMAIN list -> EventsIn(log, r)] :
    /\ \A m, n \in DOMAIN list : m < n => number[m] < number[n]
    /\ \A n \in DOMAIN list : log[number[n]].type = list[n]

(* Finitely many events are of a run.                                       *)
LEMMA EventsCounted ==
  ASSUME NEW log, Numbered(log), NEW r
  PROVE  IsFiniteSet(EventsIn(log, r)) /\ Cardinality(EventsIn(log, r)) \in Nat
<1>1. PICK k \in Nat : DOMAIN log = 1..k
  BY DEF Numbered
<1>2. IsFiniteSet(1..k)
  BY FS_Interval
<1>3. EventsIn(log, r) \subseteq 1..k
  BY <1>1 DEF EventsIn
<1> QED
  BY <1>2, <1>3, FS_Subset, FS_CardinalityType

(* The log with its next event.                                             *)
LEMMA WithLookup ==
  ASSUME NEW log, NEW k \in Nat \ {0}, DOMAIN log = 1..k, NEW event
  PROVE  /\ DOMAIN With(log, k + 1, event) = 1..(k + 1)
         /\ \A n \in 1..k : With(log, k + 1, event)[n] = log[n]
         /\ With(log, k + 1, event)[k + 1] = event
         /\ Numbered(With(log, k + 1, event))
<1>1. (DOMAIN log) \cup {k + 1} = 1..(k + 1)
  OBVIOUS
<1>2. With(log, k + 1, event) = [m \in 1..(k + 1) |-> IF m = k + 1 THEN event ELSE log[m]]
  BY <1>1 DEF With
<1>3. \A n \in 1..k : n # k + 1 /\ n \in 1..(k + 1)
  OBVIOUS
<1>4. k + 1 \in Nat \ {0}
  OBVIOUS
<1> QED
  BY <1>2, <1>3, <1>4 DEF Numbered

(* That event is one of the run that appended it.                           *)
LEMMA WithEvents ==
  ASSUME NEW log, NEW k \in Nat \ {0}, DOMAIN log = 1..k, NEW event, NEW r
  PROVE  /\ EventsIn(With(log, k + 1, event), r) =
              EventsIn(log, r) \cup (IF event.by = r THEN {k + 1} ELSE {})
         /\ EventsIn(log, r) \subseteq 1..k
         /\ Cardinality(EventsIn(log, r)) \in Nat
         /\ Cardinality(EventsIn(With(log, k + 1, event), r)) =
              Cardinality(EventsIn(log, r)) + (IF event.by = r THEN 1 ELSE 0)
<1> DEFINE more == With(log, k + 1, event)
<1>1. /\ DOMAIN more = 1..(k + 1)
      /\ \A n \in 1..k : more[n] = log[n]
      /\ more[k + 1] = event
  BY WithLookup
<1> HIDE DEF more
<1>3. EventsIn(more, r) = EventsIn(log, r) \cup (IF event.by = r THEN {k + 1} ELSE {})
  BY <1>1 DEF EventsIn
<1>4. EventsIn(log, r) \subseteq 1..k
  BY DEF EventsIn
<1>5. IsFiniteSet(EventsIn(log, r)) /\ Cardinality(EventsIn(log, r)) \in Nat
  BY EventsCounted DEF Numbered
<1>6. CASE event.by = r
  <2>1. k + 1 \notin EventsIn(log, r)
    BY <1>4
  <2>2. EventsIn(more, r) = EventsIn(log, r) \cup {k + 1}
    BY <1>3, <1>6
  <2>3. Cardinality(EventsIn(more, r)) = Cardinality(EventsIn(log, r)) + 1
    BY <1>5, <2>1, <2>2, FS_AddElement
  <2> QED
    BY <1>3, <1>4, <1>5, <1>6, <2>3 DEF more
<1>7. CASE event.by # r
  <2>1. EventsIn(more, r) = EventsIn(log, r)
    BY <1>3, <1>7
  <2> QED
    BY <1>3, <1>4, <1>5, <1>7, <2>1 DEF more
<1> QED
  BY <1>6, <1>7

(* One event more does not take away what the log holds.                    *)
LEMMA WithHolds ==
  ASSUME NEW log, NEW k \in Nat \ {0}, DOMAIN log = 1..k, NEW event, NEW r,
         NEW list, Holds(log, list, r)
  PROVE  Holds(With(log, k + 1, event), list, r)
<1> DEFINE more == With(log, k + 1, event)
<1>1. PICK number \in [DOMAIN list -> EventsIn(log, r)] :
        /\ \A m, n \in DOMAIN list : m < n => number[m] < number[n]
        /\ \A n \in DOMAIN list : log[number[n]].type = list[n]
  BY DEF Holds
<1>2. EventsIn(log, r) \subseteq EventsIn(more, r) /\ EventsIn(log, r) \subseteq 1..k
  BY WithEvents
<1>3. \A n \in 1..k : more[n] = log[n]
  BY WithLookup
<1> HIDE DEF more
<1>4. number \in [DOMAIN list -> EventsIn(more, r)]
  BY <1>2
<1>5. \A n \in DOMAIN list : more[number[n]].type = list[n]
  BY <1>1, <1>2, <1>3
<1>6. Holds(more, list, r)
  BY <1>1, <1>4, <1>5 DEF Holds
<1> QED
  BY <1>6 DEF more

(* A list with one more element at its end.                                 *)
Lengthens(longer, list, value) ==
  \E length \in Nat :
    /\ DOMAIN list = 1..length /\ DOMAIN longer = 1..(length + 1)
    /\ \A n \in 1..length : longer[n] = list[n]
    /\ longer[length + 1] = value

LEMMA AppendLengthens ==
  ASSUME NEW Types, NEW list \in Seq(Types), NEW value \in Types
  PROVE  /\ Lengthens(Append(list, value), list, value)
         /\ Append(list, value) \in Seq(Types)
         /\ Len(list) \in Nat
         /\ Len(Append(list, value)) = Len(list) + 1
  BY DEF Lengthens

(* It may be the one that the run appends.                                  *)
LEMMA WithHoldsMore ==
  ASSUME NEW log, NEW k \in Nat \ {0}, DOMAIN log = 1..k, NEW r, NEW event,
         event.by = r, NEW list, NEW longer, Lengthens(longer, list, event.type),
         Holds(log, list, r)
  PROVE  Holds(With(log, k + 1, event), longer, r)
<1> DEFINE more == With(log, k + 1, event)
<1>1. PICK number \in [DOMAIN list -> EventsIn(log, r)] :
        /\ \A m, n \in DOMAIN list : m < n => number[m] < number[n]
        /\ \A n \in DOMAIN list : log[number[n]].type = list[n]
  BY DEF Holds
<1>2. /\ EventsIn(log, r) \subseteq 1..k
      /\ EventsIn(more, r) = EventsIn(log, r) \cup {k + 1}
  BY WithEvents
<1>3. \A n \in 1..k : more[n] = log[n]
  BY WithLookup
<1>4. more[k + 1] = event
  BY WithLookup
<1> HIDE DEF more
<1> PICK length \in Nat :
        /\ DOMAIN list = 1..length /\ DOMAIN longer = 1..(length + 1)
        /\ \A n \in 1..length : longer[n] = list[n]
        /\ longer[length + 1] = event.type
  BY DEF Lengthens
<1> DEFINE numbers == [n \in DOMAIN longer |-> IF n \in DOMAIN list THEN number[n] ELSE k + 1]
<1>5. numbers \in [DOMAIN longer -> EventsIn(more, r)]
  BY <1>2
<1>6. \A n \in DOMAIN list : numbers[n] = number[n] /\ number[n] \in 1..k
  BY <1>2
<1>7. numbers[length + 1] = k + 1
  OBVIOUS
<1> HIDE DEF numbers
<1>8. ASSUME NEW m \in DOMAIN longer, NEW n \in DOMAIN longer, m < n
      PROVE  numbers[m] < numbers[n]
  <2>1. m \in DOMAIN list
    BY <1>8
  <2>2. CASE n \in DOMAIN list
    BY <1>1, <1>6, <1>8, <2>1, <2>2
  <2>3. CASE n \notin DOMAIN list
    <3>1. n = length + 1
      BY <2>3
    <3> QED
      BY <1>6, <1>7, <2>1, <3>1
  <2> QED
    BY <2>2, <2>3
<1>9. ASSUME NEW n \in DOMAIN longer
      PROVE  more[numbers[n]].type = longer[n]
  <2>2. CASE n \in DOMAIN list
    BY <1>1, <1>3, <1>6, <2>2
  <2>3. CASE n \notin DOMAIN list
    <3>1. n = length + 1
      BY <2>3
    <3> QED
      BY <1>4, <1>7, <3>1
  <2> QED
    BY <2>2, <2>3
<1>10. Holds(more, longer, r)
  BY <1>5, <1>8, <1>9 DEF Holds
<1> QED
  BY <1>10 DEF more

-----------------------------------------------------------------------------
(* The log is complete.                                                     *)

Kinds == {"asset_uploaded", "metadata_written", "retry_scheduled"} \cup Results

LogTypes ==
  /\ DOMAIN events = Tasks
  /\ appending \in [Runs -> [seq : Nat, tries : Nat]]
  /\ appended \in [Runs -> Seq(Kinds)]

(* A number that a run has read is at most the next one.                    *)
NumberRead(r) ==
  \A k \in Nat : DOMAIN events[TaskOf[r]] = 1..k => appending[r].seq <= k + 1

(* Each event is one whose append has returned, or one whose reply was lost.*)
Counted(r) == Cardinality(EventsBy(r)) <= Len(appended[r]) + mishaps

LogOK ==
  /\ LogTypes
  /\ \A t \in Tasks : Numbered(events[t])
  /\ \A r \in Runs :
       NumberRead(r) /\ Counted(r) /\ Holds(events[TaskOf[r]], appended[r], r)

(* At the start a log has the event of the request.                         *)
LEMMA LogStarts == Init => LogOK
<1> SUFFICES ASSUME Init PROVE LogOK
  OBVIOUS
<1>1. LogTypes
  BY DEF Init, LogInit, LogTypes, Fresh
<1>2. ASSUME NEW t \in Tasks
      PROVE  DOMAIN events[t] = 1..1 /\ events[t][1].by = "api"
  BY DEF Init, LogInit
<1>3. ASSUME NEW r \in Runs
      PROVE  NumberRead(r) /\ Counted(r) /\ Holds(events[TaskOf[r]], appended[r], r)
  <2>1. TaskOf[r] \in Tasks
    BY RunsAssumption
  <2>2. EventsBy(r) = {} /\ EventsIn(events[TaskOf[r]], r) = {}
    BY <1>2, <2>1, ApiIsNoRun DEF EventsBy, EventsIn, NumbersOf
  <2>3. appended[r] = <<>> /\ appending[r].seq = 0 /\ mishaps = 0
    BY DEF Init, LogInit, Fresh
  <2>4. Counted(r)
    BY <2>2, <2>3, FS_EmptySet DEF Counted
  <2>5. Holds(events[TaskOf[r]], appended[r], r)
    <3> DEFINE none == [n \in {} |-> 0]
    <3>1. DOMAIN appended[r] = {}
      BY <2>3
    <3>2. none \in [DOMAIN appended[r] -> EventsIn(events[TaskOf[r]], r)]
      BY <3>1
    <3> HIDE DEF none
    <3> QED
      BY <3>1, <3>2 DEF Holds
  <2>6. NumberRead(r)
    BY <2>3 DEF NumberRead
  <2> QED
    BY <2>4, <2>5, <2>6
<1>4. \A t \in Tasks : Numbered(events[t])
  <2>1. 1 \in Nat \ {0}
    OBVIOUS
  <2> QED
    BY <1>2, <2>1 DEF Numbered
<1> QED
  BY <1>1, <1>3, <1>4 DEF LogOK

(* A step that appends nothing, but may read a number.                      *)
LEMMA LogStays ==
  ASSUME LogOK, UNCHANGED <<events, appended>>, mishaps \in Nat, mishaps' \in Nat,
         mishaps' >= mishaps, appending' \in [Runs -> [seq : Nat, tries : Nat]],
         \A r \in Runs : \/ appending'[r].seq \in {0, appending[r].seq}
                         \/ appending'[r].seq = Max(NumbersOf(TaskOf[r])) + 1
  PROVE  LogOK'
<1>1. LogTypes'
  BY DEF LogOK, LogTypes
<1>2. ASSUME NEW r \in Runs
      PROVE  (NumberRead(r) /\ Counted(r) /\ Holds(events[TaskOf[r]], appended[r], r))'
  <2>1. TaskOf[r] \in Tasks
    BY RunsAssumption
  <2>2. Len(appended[r]) \in Nat
    BY DEF LogOK, LogTypes
  <2>3. Cardinality(EventsBy(r)) \in Nat
    <3>1. EventsBy(r) = EventsIn(events[TaskOf[r]], r)
      BY DEF EventsBy, EventsIn, NumbersOf
    <3> QED
      BY <2>1, <3>1, EventsCounted DEF LogOK
  <2>4. EventsBy(r)' = EventsBy(r)
    BY DEF EventsBy, NumbersOf
  <2>5. Counted(r)'
    BY <2>2, <2>3, <2>4 DEF LogOK, Counted
  <2>6. ASSUME NEW k \in Nat, DOMAIN events[TaskOf[r]] = 1..k
        PROVE  appending'[r].seq <= k + 1
    <3>1. k \in Nat \ {0}
      <4>1. PICK j \in Nat \ {0} : DOMAIN events[TaskOf[r]] = 1..j
        BY <2>1 DEF LogOK, Numbered
      <4>2. 1 \in 1..k
        BY <2>6, <4>1
      <4> QED
        BY <4>2
    <3>2. Max(NumbersOf(TaskOf[r])) = k
      BY <2>6, <3>1, MaxOfInterval DEF NumbersOf
    <3>3. appending[r].seq <= k + 1
      BY <2>6 DEF LogOK, NumberRead
    <3> QED
      BY <3>2, <3>3
  <2>7. NumberRead(r)'
    BY <2>6 DEF NumberRead
  <2>8. Holds(events[TaskOf[r]], appended[r], r)'
    BY DEF LogOK
  <2> QED
    BY <2>5, <2>7, <2>8
<1>3. \A t \in Tasks : Numbered(events[t])'
  BY DEF LogOK
<1> QED
  BY <1>1, <1>2, <1>3 DEF LogOK

(* An event goes under the next number, and so leaves no gap.               *)
LEMMA InsertIsNext ==
  ASSUME LogOK, NEW r \in Runs, NEW type, InsertEvent(r, type)
  PROVE  \E k \in Nat \ {0} :
           /\ DOMAIN events[TaskOf[r]] = 1..k
           /\ events' = [events EXCEPT ![TaskOf[r]] =
                           With(events[TaskOf[r]], k + 1, [by |-> r, type |-> type])]
<1>1. TaskOf[r] \in Tasks
  BY RunsAssumption
<1>2. PICK k \in Nat \ {0} : DOMAIN events[TaskOf[r]] = 1..k
  BY <1>1 DEF LogOK, Numbered
<1>3. appending[r].seq \in Nat /\ appending[r].seq <= k + 1
  BY <1>2 DEF LogOK, LogTypes, NumberRead
<1>4. appending[r].seq # 0 /\ appending[r].seq \notin 1..k
  BY <1>2 DEF InsertEvent, Free, NumbersOf
<1>5. appending[r].seq = k + 1
  BY <1>3, <1>4
<1> QED
  BY <1>2, <1>5 DEF InsertEvent

LEMMA OneMore ==
  ASSUME NEW a \in Nat, NEW b \in Nat, NEW c \in Nat, a <= b + c
  PROVE  a + 1 <= b + (c + 1)
  OBVIOUS

(* A step that appends an event.                                            *)
LEMMA LogGrows ==
  ASSUME LogOK, NEW r \in Runs, NEW type \in Kinds, InsertEvent(r, type),
         mishaps \in Nat, mishaps' \in Nat,
         appending' = [appending EXCEPT ![r] = Fresh],
         \/ mishaps' = mishaps /\ appended' = [appended EXCEPT ![r] = Append(@, type)]
         \/ mishaps' = mishaps + 1 /\ appended' = appended
  PROVE  LogOK'
<1> DEFINE t == TaskOf[r]
           event == [by |-> r, type |-> type]
<1>1. t \in Tasks
  BY RunsAssumption
<1>2. PICK k \in Nat \ {0} :
        /\ DOMAIN events[t] = 1..k
        /\ events' = [events EXCEPT ![t] = With(events[t], k + 1, event)]
  BY InsertIsNext
<1>3. event.by = r /\ event.type = type /\ event.type \in Kinds
  OBVIOUS
<1> HIDE DEF event
<1>4. /\ DOMAIN events' = Tasks
      /\ events'[t] = With(events[t], k + 1, event)
      /\ \A u \in Tasks \ {t} : events'[u] = events[u]
  BY <1>1, <1>2 DEF LogOK, LogTypes
<1>5. DOMAIN events'[t] = 1..(k + 1) /\ Numbered(events'[t])
  BY <1>2, <1>4, WithLookup
<1>6. appended' \in [Runs -> Seq(Kinds)]
  <2>1. appended \in [Runs -> Seq(Kinds)]
    BY DEF LogOK, LogTypes
  <2>2. Append(appended[r], type) \in Seq(Kinds)
    BY <2>1, AppendLengthens
  <2> QED
    BY <2>1, <2>2
<1>7. LogTypes'
  BY <1>4, <1>6 DEF LogOK, LogTypes, Fresh
<1>8. ASSUME NEW s \in Runs
      PROVE  NumberRead(s)'
  <2>1. TaskOf[s] \in Tasks
    BY RunsAssumption
  <2>2. CASE s = r
    BY <2>2 DEF NumberRead, LogOK, LogTypes, Fresh
  <2>3. CASE s # r /\ TaskOf[s] # t
    BY <1>4, <2>1, <2>3 DEF NumberRead, LogOK, LogTypes
  <2>4. CASE s # r /\ TaskOf[s] = t
    <3>1. appending'[s].seq = appending[s].seq /\ appending[s].seq \in Nat
      BY <2>4 DEF LogOK, LogTypes
    <3>2. appending[s].seq <= k + 1
      BY <1>2, <2>4 DEF LogOK, NumberRead
    <3>3. ASSUME NEW j \in Nat, DOMAIN events'[t] = 1..j
          PROVE  j = k + 1
      <4>1. k + 1 \in 1..j
        BY <1>5, <3>3
      <4>2. j \in 1..(k + 1) /\ k + 1 <= j
        BY <1>5, <3>3, <4>1
      <4> QED
        BY <4>2
    <3> QED
      BY <2>4, <3>1, <3>2, <3>3 DEF NumberRead
  <2> QED
    BY <2>2, <2>3, <2>4
<1>9. ASSUME NEW s \in Runs
      PROVE  Counted(s)' /\ Holds(events[TaskOf[s]], appended[s], s)'
  <2>1. TaskOf[s] \in Tasks
    BY RunsAssumption
  <2>2. /\ EventsBy(s) = EventsIn(events[TaskOf[s]], s)
        /\ EventsBy(s)' = EventsIn(events'[TaskOf[s]], s)
    BY DEF EventsBy, EventsIn, NumbersOf
  <2>3. Len(appended[s]) \in Nat /\ Cardinality(EventsIn(events[TaskOf[s]], s)) \in Nat
    BY <2>1, EventsCounted DEF LogOK, LogTypes
  <2>4. /\ Cardinality(EventsIn(events[TaskOf[s]], s)) <= Len(appended[s]) + mishaps
        /\ Holds(events[TaskOf[s]], appended[s], s)
    BY <2>2 DEF LogOK, Counted
  <2>5. CASE TaskOf[s] # t
    <3>1. s # r /\ appended'[s] = appended[s] /\ events'[TaskOf[s]] = events[TaskOf[s]]
      BY <1>4, <2>1, <2>5 DEF LogOK, LogTypes
    <3> QED
      BY <2>2, <2>3, <2>4, <3>1 DEF Counted
  <2>6. CASE TaskOf[s] = t /\ s # r
    <3>1. appended'[s] = appended[s]
      BY <2>6 DEF LogOK, LogTypes
    <3>2. Cardinality(EventsIn(events'[t], s)) = Cardinality(EventsIn(events[t], s))
      BY <1>2, <1>3, <1>4, <2>3, <2>6, WithEvents
    <3>3. Holds(events'[t], appended[s], s)
      BY <1>2, <1>4, <2>4, <2>6, WithHolds
    <3> QED
      BY <2>2, <2>3, <2>4, <2>6, <3>1, <3>2, <3>3 DEF Counted
  <2>7. CASE s = r
    <3>1. Cardinality(EventsIn(events'[t], r)) = Cardinality(EventsIn(events[t], r)) + 1
      BY <1>2, <1>3, <1>4, <2>3, <2>7, WithEvents
    <3>2. CASE mishaps' = mishaps /\ appended' = [appended EXCEPT ![r] = Append(@, type)]
      <4>1. appended[r] \in Seq(Kinds) /\ appended'[r] = Append(appended[r], type)
        BY <3>2 DEF LogOK, LogTypes
      <4>2. /\ Len(appended'[r]) = Len(appended[r]) + 1
            /\ Lengthens(appended'[r], appended[r], type)
        BY <4>1, AppendLengthens
      <4>4. Holds(events'[t], appended'[r], r)
        <5>1. Holds(events[t], appended[r], r)
          BY <2>4, <2>7
        <5>2. Lengthens(appended'[r], appended[r], event.type)
          BY <1>3, <4>2
        <5>3. Holds(With(events[t], k + 1, event), appended'[r], r)
          BY <1>2, <1>3, <5>1, <5>2, WithHoldsMore
        <5> QED
          BY <1>4, <5>3
      <4>5. Cardinality(EventsIn(events'[t], r)) <= Len(appended'[r]) + mishaps'
        BY <2>3, <2>4, <2>7, <3>1, <3>2, <4>2
      <4> QED
        BY <2>2, <2>7, <4>4, <4>5 DEF Counted
    <3>3. CASE mishaps' = mishaps + 1 /\ appended' = appended
      <4>1. Holds(events'[t], appended'[r], r)
        BY <1>2, <1>4, <2>4, <2>7, <3>3, WithHolds
      <4>2. Cardinality(EventsIn(events'[t], r)) <= Len(appended'[r]) + mishaps'
        <5>1. appended'[r] = appended[r] /\ mishaps' = mishaps + 1
          BY <3>3
        <5>2. /\ Cardinality(EventsIn(events[t], r)) \in Nat /\ Len(appended[r]) \in Nat
              /\ Cardinality(EventsIn(events[t], r)) <= Len(appended[r]) + mishaps
          BY <2>3, <2>4, <2>7
        <5>3. Cardinality(EventsIn(events[t], r)) + 1 <= Len(appended[r]) + (mishaps + 1)
          BY <5>2, OneMore
        <5> QED
          BY <3>1, <5>1, <5>3
      <4> QED
        BY <2>2, <2>7, <4>1, <4>2 DEF Counted
    <3> QED
      BY <3>2, <3>3
  <2> QED
    BY <2>5, <2>6, <2>7
<1>10. \A u \in Tasks : Numbered(events'[u])
  BY <1>4, <1>5 DEF LogOK
<1> QED
  BY <1>7, <1>8, <1>9, <1>10 DEF LogOK

LEMMA EventKinds ==
  ASSUME RunsOK, NEW r \in Runs, at[r] \in Appends
  PROVE  EventAt(r) \in Kinds
  BY DEF RunsOK, RunTypes, Appends, EventAt, EventOf, Kinds, Results, Failures

LEMMA EffectLog ==
  ASSUME NEW r \in Runs, at[r] \in Calls, Effect(r)
  PROVE  UNCHANGED <<events, appending, appended>>
  BY DEF Effect, Calls, SaveRow, Upload, AddArtifact, ReadSidecar, OpenTemporary,
     WriteTemporary, Rename, SaveAttempt, UpsertAttempt, logVars

(* The log stays complete.                                                  *)
LEMMA LogStep == RunsOK /\ LogOK /\ [Next]_vars => LogOK'
<1> SUFFICES ASSUME RunsOK, LogOK, [Next]_vars
             PROVE  LogOK'
  OBVIOUS
<1>1. mishaps \in Nat /\ appending \in [Runs -> [seq : Nat, tries : Nat]]
  BY DEF RunsOK, RunTypes, LogOK, LogTypes
<1>2. ASSUME UNCHANGED <<events, appending, appended>>, mishaps' \in {mishaps, mishaps + 1}
      PROVE  LogOK'
  BY <1>1, <1>2, LogStays
<1>3. ASSUME NEW r \in Runs, UNCHANGED <<events, appended>>, Abandon(r),
             mishaps' \in {mishaps, mishaps + 1}
      PROVE  LogOK'
  <2>1. /\ appending' \in [Runs -> [seq : Nat, tries : Nat]]
        /\ \A s \in Runs : appending'[s].seq \in {0, appending[s].seq}
    BY <1>1, <1>3 DEF Abandon, Fresh
  <2> QED
    BY <1>1, <1>3, <2>1, LogStays
<1>4. ASSUME NEW r \in Runs, Begin(r) \/ Call(r) \/ Refused(r) \/ RenameFails(r) \/ Rejects(r)
      PROVE  LogOK'
  BY <1>2, <1>4, EffectLog
     DEF Begin, Call, Refused, RenameFails, Rejects, Mishap, logVars, Upload
<1>5. ASSUME NEW r \in Runs, AppendEvent(r)
      PROVE  LogOK'
  <2>1. mishaps' = mishaps
    BY <1>5 DEF AppendEvent
  <2>2. CASE ReadSequence(r) \/ TryAgain(r)
    <3>1. Max(NumbersOf(TaskOf[r])) + 1 \in Nat
      <4>1. TaskOf[r] \in Tasks
        BY RunsAssumption
      <4>2. PICK k \in Nat \ {0} : DOMAIN events[TaskOf[r]] = 1..k
        BY <4>1 DEF LogOK, Numbered
      <4> QED
        BY <4>2, MaxOfInterval DEF NumbersOf
    <3>2. /\ appending' \in [Runs -> [seq : Nat, tries : Nat]]
          /\ \A s \in Runs : \/ appending'[s].seq \in {0, appending[s].seq}
                             \/ appending'[s].seq = Max(NumbersOf(TaskOf[s])) + 1
      BY <1>1, <2>2, <3>1 DEF ReadSequence, TryAgain
    <3> QED
      BY <1>1, <2>1, <2>2, <3>2, LogStays DEF ReadSequence, TryAgain
  <2>3. CASE InsertEvent(r, EventAt(r)) /\ Returns(r, EventAt(r))
    BY <1>1, <1>5, <2>1, <2>3, EventKinds, LogGrows DEF AppendEvent, Returns
  <2>4. CASE Abandon(r) /\ UNCHANGED <<events, appended>>
    BY <1>3, <2>1, <2>4
  <2> QED
    BY <1>5, <2>2, <2>3, <2>4 DEF AppendEvent
<1>6. ASSUME NEW r \in Runs, Throws(r)
      PROVE  LogOK'
  <2>1. mishaps' = mishaps + 1
    BY <1>6 DEF Throws, Mishap
  <2>2. CASE UNCHANGED <<events, appending, appended>>
    BY <1>2, <2>1, <2>2
  <2>3. CASE at[r] \in Appends /\ Abandon(r) /\ UNCHANGED appended
    <3>1. CASE UNCHANGED events
      BY <1>3, <2>1, <2>3, <3>1
    <3>2. CASE InsertEvent(r, EventAt(r))
      <4>1. UNCHANGED appended /\ appending' = [appending EXCEPT ![r] = Fresh]
        BY <2>3 DEF Abandon
      <4>2. EventAt(r) \in Kinds
        BY <2>3, EventKinds
      <4>3. mishaps' \in Nat
        BY <1>1, <2>1
      <4> QED
        BY <1>1, <2>1, <3>2, <4>1, <4>2, <4>3, LogGrows
    <3> QED
      BY <1>6, <2>3, <3>1, <3>2 DEF Throws, Calls, Appends
  <2> QED
    BY <1>6, <2>2, <2>3, EffectLog DEF Throws, logVars
<1>7. ASSUME NEW r \in Runs, Crash(r)
      PROVE  LogOK'
  BY <1>3, <1>7 DEF Crash, Mishap
<1>8. CASE UNCHANGED vars
  BY <1>2, <1>8 DEF vars, logVars
<1> QED
  BY <1>4, <1>5, <1>6, <1>7, <1>8 DEF Next

(* That is the property.                                                    *)
LEMMA LogOKIsComplete == LogOK => LogIsComplete
<1> SUFFICES ASSUME LogOK PROVE LogIsComplete
  OBVIOUS
<1>1. ASSUME NEW t \in Tasks
      PROVE  NumbersOf(t) = 1..Cardinality(NumbersOf(t))
  <2>1. PICK k \in Nat \ {0} : DOMAIN events[t] = 1..k
    BY DEF LogOK, Numbered
  <2>2. Cardinality(1..k) = k
    BY FS_Interval
  <2> QED
    BY <2>1, <2>2 DEF NumbersOf
<1>2. ASSUME NEW r \in Runs
      PROVE  EventsIn(events[TaskOf[r]], r) = EventsBy(r)
  BY DEF EventsIn, EventsBy, NumbersOf
<1> QED
  BY <1>1, <1>2 DEF LogOK, LogIsComplete, Counted, Holds

-----------------------------------------------------------------------------
(* The row, the log and the attempts of a task.                             *)

LastIs(r, type) ==
  LET log == events[TaskOf[r]] IN
  log[Max(DOMAIN log)].by = r /\ log[Max(DOMAIN log)].type = type

Alone(t) ==
  \A r, s \in Runs :
    TaskOf[r] = t /\ TaskOf[s] = t /\ AtWork(r) /\ AtWork(s) => r = s

(* What a run has recorded of its outcome by the step it is at.             *)
Recorded(r) ==
  /\ at[r] \in {"log", "attempt"} => row[TaskOf[r]] = outcome[r]
  /\ at[r] = "attempt" => LastIs(r, EventOf(outcome[r]))

(* The last run told all of it.                                             *)
Told(t) ==
  \E r \in Runs :
    /\ TaskOf[r] = t /\ at[r] \in Ended
    /\ LastIs(r, EventOf(row[t]))
    /\ attempts[t][attempt[r]] = AttemptOf(row[t])

RecordsOf(t) ==
  /\ Alone(t)
  /\ \A r \in Runs : TaskOf[r] = t => Recorded(r)
  /\ (row[t] # "queued" /\ \A r \in Runs : TaskOf[r] = t => ~AtWork(r)) => Told(t)

AttemptTypes ==
  /\ DOMAIN attempts = Tasks
  /\ \A t \in Tasks : DOMAIN attempts[t] = 1..MaxAttempts

RecordsOK == AttemptTypes /\ \A t \in Tasks \ (overlapped \cup cutShort) : RecordsOf(t)

(* At the start there is nothing to agree about.                            *)
LEMMA RecordsStart == Init => RecordsOK
<1> SUFFICES ASSUME Init PROVE RecordsOK
  OBVIOUS
<1>1. AttemptTypes
  BY DEF Init, LogInit, AttemptTypes
<1>2. \A r \in Runs : at[r] \in {"never", "idle"}
  BY DEF Init
<1>3. \A r \in Runs : ~AtWork(r) /\ Recorded(r)
  BY <1>2 DEF AtWork, Recorded
<1>4. \A t \in Tasks : row[t] = "queued"
  BY DEF Init
<1> QED
  BY <1>1, <1>3, <1>4 DEF RecordsOK, RecordsOf, Alone

(* A step of a run leaves the other runs and the other tasks alone.         *)
OthersStay(r) ==
  /\ \A s \in Runs \ {r} : at'[s] = at[s] /\ attempt'[s] = attempt[s] /\ outcome'[s] = outcome[s]
  /\ \A t \in Tasks \ {TaskOf[r]} :
       row'[t] = row[t] /\ events'[t] = events[t] /\ attempts'[t] = attempts[t]
  /\ overlapped \subseteq overlapped' /\ cutShort \subseteq cutShort'

LEMMA EffectOthers ==
  ASSUME RunsOK, LogOK, RecordsOK, NEW r \in Runs, at[r] \in Calls, Effect(r)
  PROVE  /\ \A t \in Tasks \ {TaskOf[r]} : row'[t] = row[t] /\ attempts'[t] = attempts[t]
         /\ UNCHANGED events
         /\ AttemptTypes'
<1> USE DEF RunsOK, RunTypes, LogOK, LogTypes, RecordsOK, AttemptTypes
<1>1. CASE at[r] \in {"running", "save90", "save"}
  BY <1>1 DEF Effect, SaveRow, logVars
<1>2. CASE at[r] = "attempt"
  BY <1>2 DEF Effect, SaveAttempt, UpsertAttempt
<1>3. CASE at[r] \in Calls \ {"running", "save90", "save", "attempt"}
  BY <1>3 DEF Effect, Calls, Upload, AddArtifact, ReadSidecar, OpenTemporary, WriteTemporary,
     Rename, logVars
<1> QED
  BY <1>1, <1>2, <1>3

LEMMA GoesOnOthers ==
  ASSUME RunsOK, NEW r \in Runs, GoesOn(r)
  PROVE  /\ \A s \in Runs \ {r} :
              at'[s] = at[s] /\ attempt'[s] = attempt[s] /\ outcome'[s] = outcome[s]
         /\ overlapped \subseteq overlapped' /\ cutShort \subseteq cutShort'
         /\ at' \in [Runs -> {at'[r]} \cup Steps] /\ DOMAIN outcome' = Runs
         /\ attempt' = attempt
<1> USE DEF RunsOK, RunTypes, Goes
<1>1. CASE Proceed(r)
  BY <1>1 DEF Proceed
<1>2. ASSUME NEW failure \in Failures, Catch(r, failure)
      PROVE  /\ \A s \in Runs \ {r} :
                  at'[s] = at[s] /\ attempt'[s] = attempt[s] /\ outcome'[s] = outcome[s]
             /\ overlapped \subseteq overlapped' /\ cutShort \subseteq cutShort'
             /\ at' \in [Runs -> {at'[r]} \cup Steps] /\ DOMAIN outcome' = Runs
             /\ attempt' = attempt
  BY <1>2 DEF Catch, history
<1>3. CASE EndAbruptly(r)
  BY <1>3 DEF EndAbruptly
<1> QED
  BY <1>1, <1>2, <1>3 DEF GoesOn

(* An event is the last one then.                                           *)
LEMMA InsertOthers ==
  ASSUME LogOK, NEW r \in Runs, NEW type, InsertEvent(r, type)
  PROVE  /\ \A t \in Tasks \ {TaskOf[r]} : events'[t] = events[t]
         /\ LastIs(r, type)'
<1>1. TaskOf[r] \in Tasks
  BY RunsAssumption
<1> DEFINE event == [by |-> r, type |-> type]
<1>2. PICK k \in Nat \ {0} :
        /\ DOMAIN events[TaskOf[r]] = 1..k
        /\ events' = [events EXCEPT ![TaskOf[r]] = With(events[TaskOf[r]], k + 1, event)]
  BY InsertIsNext
<1>3. event.by = r /\ event.type = type
  OBVIOUS
<1> HIDE DEF event
<1>4. /\ events'[TaskOf[r]] = With(events[TaskOf[r]], k + 1, event)
      /\ \A t \in Tasks \ {TaskOf[r]} : events'[t] = events[t]
  BY <1>1, <1>2 DEF LogOK, LogTypes
<1>5. /\ DOMAIN events'[TaskOf[r]] = 1..(k + 1)
      /\ events'[TaskOf[r]][k + 1] = event
  BY <1>2, <1>4, WithLookup
<1>6. Max(1..(k + 1)) = k + 1
  BY MaxOfInterval
<1> QED
  BY <1>3, <1>4, <1>5, <1>6 DEF LastIs

(* The kinds of steps, as the records see them.                             *)
GoesWell(r) ==
  /\ at[r] \in Calls \cup Appends /\ Proceed(r)
  /\ at[r] \in Calls => Effect(r)
  /\ at[r] \in Appends => InsertEvent(r, EventAt(r)) /\ UNCHANGED <<row, attempts>>

Errs(r) ==
  /\ at[r] \in Calls \cup Appends
  /\ at'[r] = "save" \/ TaskOf[r] \in cutShort'

(* Each action is of one of these kinds.                                    *)
LEMMA StepKinds ==
  ASSUME RunsOK, LogOK, RecordsOK, NEW r \in Runs,
         \/ Begin(r) \/ Call(r) \/ AppendEvent(r) \/ Refused(r) \/ RenameFails(r)
         \/ Throws(r) \/ Rejects(r) \/ Crash(r)
  PROVE  /\ OthersStay(r) /\ AttemptTypes' /\ at' \in [Runs -> {at'[r]} \cup Steps]
         /\ \/ Begin(r)
            \/ GoesWell(r)
            \/ UNCHANGED <<row, events, attempts, at, attempt, outcome>>
            \/ Errs(r)
            \/ TaskOf[r] \in cutShort'
<1>1. ASSUME GoesOn(r)
      PROVE  /\ at' \in [Runs -> {at'[r]} \cup Steps]
             /\ Proceed(r) \/ at'[r] = "save" \/ TaskOf[r] \in cutShort'
  <2>1. at' \in [Runs -> {at'[r]} \cup Steps]
    BY <1>1, GoesOnOthers
  <2>2. ASSUME NEW failure \in Failures, Catch(r, failure)
        PROVE  at'[r] = "save"
    BY <2>2 DEF Catch, Goes, RunsOK, RunTypes
  <2>3. EndAbruptly(r) => TaskOf[r] \in cutShort'
    BY DEF EndAbruptly
  <2> QED
    BY <1>1, <2>1, <2>2, <2>3 DEF GoesOn
<1>2. AttemptTypes
  BY DEF RecordsOK
<1>3. CASE Begin(r)
  BY <1>2, <1>3 DEF Begin, OthersStay, AttemptTypes, logVars, Goes, RunsOK, RunTypes
<1>4. CASE Call(r)
  BY <1>4, GoesOnOthers, <1>1, EffectOthers DEF Call, GoesOn, OthersStay, GoesWell, Calls, Appends
<1>5. CASE AppendEvent(r)
  <2>1. CASE (ReadSequence(r) \/ TryAgain(r)) /\ UNCHANGED <<at, outcome, attempt, history>>
    BY <1>2, <1>5, <2>1 DEF AppendEvent, ReadSequence, TryAgain, OthersStay, AttemptTypes,
       history, RunsOK, RunTypes
  <2>2. CASE InsertEvent(r, EventAt(r)) /\ Returns(r, EventAt(r)) /\ Proceed(r)
    <3>1. GoesOn(r)
      BY <2>2 DEF GoesOn
    <3> QED
      BY <1>1, <1>2, <1>5, <2>2, <3>1, GoesOnOthers, InsertOthers
         DEF AppendEvent, Returns, OthersStay, AttemptTypes, GoesWell, Calls, Appends
  <2>3. CASE Fails(r) /\ UNCHANGED <<events, attempts>>
    <3>1. GoesOn(r) /\ (at'[r] = "save" \/ TaskOf[r] \in cutShort')
      BY <2>3, FailureType DEF Fails, GoesOn, Catch, EndAbruptly, Goes, RunsOK, RunTypes
    <3> QED
      BY <1>1, <1>2, <1>5, <2>3, <3>1, GoesOnOthers
         DEF AppendEvent, OthersStay, AttemptTypes, Errs
  <2> QED
    BY <1>5, <2>1, <2>2, <2>3 DEF AppendEvent
<1>6. CASE Refused(r) \/ RenameFails(r) \/ Rejects(r)
  <2>1. /\ at[r] \in Calls /\ at'[r] = "save" /\ GoesOn(r)
        /\ UNCHANGED <<row, events, attempts>>
    BY <1>6, FailureType DEF Refused, BatchRefused, RenameFails, Rejects, Upload, Catch, Goes,
       GoesOn, Calls, logVars, RunsOK, RunTypes, Failures
  <2> QED
    BY <1>1, <1>2, <2>1, GoesOnOthers DEF OthersStay, AttemptTypes, Errs
<1>7. CASE Throws(r)
  <2>1. GoesOn(r) /\ (at'[r] = "save" \/ TaskOf[r] \in cutShort')
    BY <1>7, FailureType DEF Throws, Fails, GoesOn, Catch, EndAbruptly, Goes, RunsOK, RunTypes
  <2>2. /\ at[r] \in Calls \cup Appends /\ AttemptTypes'
        /\ \A t \in Tasks \ {TaskOf[r]} :
             row'[t] = row[t] /\ events'[t] = events[t] /\ attempts'[t] = attempts[t]
    <3>1. CASE at[r] \in Calls /\ Effect(r)
      BY <3>1, EffectOthers
    <3>2. CASE at[r] \in Calls /\ UNCHANGED <<logVars, outputVars, row, uploaded>>
      BY <1>2, <3>2 DEF logVars, AttemptTypes
    <3>3. CASE at[r] \in Appends /\ UNCHANGED <<attempts, row>>
               /\ (InsertEvent(r, EventAt(r)) \/ UNCHANGED events)
      BY <1>2, <3>3, InsertOthers DEF AttemptTypes
    <3> QED
      BY <1>7, <3>1, <3>2, <3>3 DEF Throws
  <2> QED
    BY <1>1, <2>1, <2>2, GoesOnOthers DEF OthersStay, Errs
<1>8. CASE Crash(r)
  BY <1>2, <1>8 DEF Crash, Goes, OthersStay, AttemptTypes, RunsOK, RunTypes
<1> QED
  BY <1>3, <1>4, <1>5, <1>6, <1>7, <1>8

(* The records of a task that the run does not deliver.                     *)
LEMMA OtherRecords ==
  ASSUME RunsOK, LogOK, RecordsOK, NEW r \in Runs, OthersStay(r),
         NEW t \in Tasks \ {TaskOf[r]}, RecordsOf(t)
  PROVE  RecordsOf(t)'
<1>1. ASSUME NEW s \in Runs, TaskOf[s] = t
      PROVE  /\ at'[s] = at[s] /\ attempt'[s] = attempt[s] /\ outcome'[s] = outcome[s]
             /\ AtWork(s)' = AtWork(s)
             /\ \A type : LastIs(s, type)' = LastIs(s, type)
  <2>1. s # r /\ TaskOf[s] # TaskOf[r]
    BY <1>1
  <2>2. at'[s] = at[s] /\ attempt'[s] = attempt[s] /\ outcome'[s] = outcome[s]
    BY <2>1 DEF OthersStay
  <2>3. AtWork(s)' = AtWork(s)
    BY <2>2 DEF AtWork
  <2>4. events'[TaskOf[s]] = events[TaskOf[s]]
    BY <1>1 DEF OthersStay
  <2>5. \A type : LastIs(s, type)' = LastIs(s, type)
    BY <2>4 DEF LastIs
  <2> QED
    BY <2>2, <2>3, <2>5
<1>2. row'[t] = row[t] /\ attempts'[t] = attempts[t]
  BY DEF OthersStay
<1>3. Alone(t)'
  BY <1>1 DEF RecordsOf, Alone
<1>4. ASSUME NEW s \in Runs, TaskOf[s] = t
      PROVE  Recorded(s)'
  BY <1>1, <1>2, <1>4 DEF RecordsOf, Recorded
<1>5. ASSUME row'[t] # "queued" /\ \A s \in Runs : TaskOf[s] = t => ~AtWork(s)'
      PROVE  Told(t)'
  <2>1. Told(t)
    BY <1>1, <1>2, <1>5 DEF RecordsOf
  <2> QED
    BY <1>1, <1>2, <2>1 DEF Told
<1> QED
  BY <1>3, <1>4, <1>5 DEF RecordsOf

(* A run that ends tells what it has recorded.                              *)
LEMMA EndTells ==
  ASSUME RunsOK, LogOK, RecordsOK, NEW r \in Runs, at[r] = "attempt", GoesWell(r),
         Recorded(r)
  PROVE  Told(TaskOf[r])'
<1>1. TaskOf[r] \in Tasks
  BY RunsAssumption
<1>2. attempt[r] \in 1..MaxAttempts
  BY DEF RunsOK, RunTypes
<1>3. SaveAttempt(r) /\ Proceed(r)
  BY DEF GoesWell, Effect, Calls
<1>4. attempts'[TaskOf[r]][attempt[r]] = AttemptOf(outcome[r])
  BY <1>1, <1>2, <1>3 DEF SaveAttempt, UpsertAttempt, RecordsOK, AttemptTypes
<1>5. /\ at'[r] \in Ended /\ attempt'[r] = attempt[r]
      /\ row' = row /\ events' = events
  BY <1>3 DEF SaveAttempt, Proceed, Goes, Then, Ended, RunsOK, RunTypes
<1>6. row[TaskOf[r]] = outcome[r] /\ LastIs(r, EventOf(row[TaskOf[r]]))
  BY DEF Recorded
<1>7. LastIs(r, EventOf(row[TaskOf[r]]))'
  BY <1>5, <1>6 DEF LastIs
<1> QED
  BY <1>1, <1>4, <1>5, <1>6, <1>7 DEF Told

(* The records of the task it delivers.                                     *)
LEMMA OwnRecords ==
  ASSUME RunsOK, LogOK, RecordsOK, NEW r \in Runs,
         OthersStay(r), at' \in [Runs -> {at'[r]} \cup Steps],
         \/ Begin(r) \/ GoesWell(r) \/ Errs(r)
         \/ UNCHANGED <<row, events, attempts, at, attempt, outcome>>,
         RecordsOf(TaskOf[r]), TaskOf[r] \notin overlapped' \cup cutShort'
  PROVE  RecordsOf(TaskOf[r])'
<1> DEFINE t == TaskOf[r]
<1>1. t \in Tasks
  BY RunsAssumption
<1>2. CASE UNCHANGED <<row, events, attempts, at, attempt, outcome>>
  BY <1>2 DEF RecordsOf, Alone, AtWork, Recorded, Told, LastIs
<1>3. CASE Begin(r)
  <2>1. at[r] = "idle" /\ UNCHANGED <<row, events, attempts, outcome>>
    BY <1>3 DEF Begin, logVars
  <2>2. \A s \in Runs \ {r} : at'[s] = at[s] /\ attempt'[s] = attempt[s]
    BY DEF OthersStay
  <2>3. \A s \in Runs \ {r} : AtWork(s)' = AtWork(s)
    BY <2>2 DEF AtWork
  <2>4. ~AtWork(r)
    BY <2>1 DEF AtWork
  <2>5. \A s \in Runs : \A type : LastIs(s, type)' = LastIs(s, type)
    BY <2>1 DEF LastIs
  <2>6. at'[r] \in {"running", "done"}
    BY <1>3 DEF Begin, Goes, RunsOK, RunTypes
  <2>7. ASSUME NEW s \in Runs, TaskOf[s] = t
        PROVE  Recorded(s)'
    <3>1. CASE s = r
      BY <2>6, <3>1 DEF Recorded
    <3>2. CASE s # r
      BY <2>1, <2>2, <2>5, <2>7, <3>2 DEF RecordsOf, Recorded
    <3> QED
      BY <3>1, <3>2
  <2>8. CASE at'[r] = "done"
    <3>1. ~AtWork(r)'
      BY <2>8 DEF AtWork, Ended
    <3>2. Alone(t)'
      BY <2>3, <2>4, <3>1 DEF RecordsOf, Alone
    <3>3. ASSUME row'[t] # "queued" /\ \A s \in Runs : TaskOf[s] = t => ~AtWork(s)'
          PROVE  Told(t)'
      <4>1. Told(t)
        BY <2>1, <2>3, <2>4, <3>3 DEF RecordsOf
      <4>2. PICK s \in Runs :
              /\ TaskOf[s] = t /\ at[s] \in Ended
              /\ LastIs(s, EventOf(row[t]))
              /\ attempts[t][attempt[s]] = AttemptOf(row[t])
        BY <4>1 DEF Told
      <4>3. s # r
        BY <2>1, <4>2 DEF Ended
      <4> QED
        BY <2>1, <2>2, <2>5, <4>2, <4>3 DEF Told
    <3> QED
      BY <2>7, <3>2, <3>3 DEF RecordsOf
  <2>9. CASE at'[r] = "running"
    <3>1. AtWork(r)'
      BY <2>9 DEF AtWork, Ended
    <3>2. overlapped' = overlapped \cup {TaskOf[s] : s \in {s \in Others(r) : AtWork(s)}}
      BY <1>3, <2>9 DEF Begin, Goes, RunsOK, RunTypes
    <3>3. \A s \in Runs \ {r} : TaskOf[s] = t => ~AtWork(s)
      BY <3>2 DEF Others
    <3>4. Alone(t)'
      BY <2>3, <3>3 DEF Alone
    <3> QED
      BY <2>7, <3>1, <3>4 DEF RecordsOf
  <2> QED
    BY <2>6, <2>8, <2>9
<1>4. CASE at[r] \in Calls \cup Appends /\ (GoesWell(r) \/ Errs(r))
  <2>1. AtWork(r)
    BY <1>4 DEF AtWork, Ended, Calls, Appends
  <2>2. \A s \in Runs \ {r} : TaskOf[s] = t => ~AtWork(s)
    BY <2>1 DEF RecordsOf, Alone
  <2>3. \A s \in Runs \ {r} : at'[s] = at[s]
    BY DEF OthersStay
  <2>4. \A s \in Runs \ {r} : TaskOf[s] = t => ~AtWork(s)'
    BY <2>2, <2>3 DEF AtWork
  <2>5. Alone(t)'
    BY <2>4 DEF Alone
  <2>6. ASSUME NEW s \in Runs, TaskOf[s] = t, s # r
        PROVE  Recorded(s)'
    <3>1. at'[s] \notin {"log", "attempt"}
      BY <2>4, <2>6 DEF AtWork, Ended
    <3> QED
      BY <3>1 DEF Recorded
  <2>7. CASE at'[r] = "save"
    <3>1. AtWork(r)' /\ Recorded(r)'
      BY <2>7 DEF AtWork, Ended, Recorded
    <3> QED
      BY <2>5, <2>6, <3>1 DEF RecordsOf
  <2>8. CASE GoesWell(r) /\ at[r] # "attempt"
    <3>1. at'[r] = Then(r) /\ outcome'[r] = IF at[r] = "metadata" THEN "succeeded" ELSE outcome[r]
      BY <2>8 DEF GoesWell, Proceed, Goes, RunsOK, RunTypes
    <3>2. AtWork(r)'
      BY <1>4, <2>8, <3>1 DEF Then, Calls, Appends, AtWork, Ended
    <3>3. Recorded(r)'
      <4>1. CASE at[r] = "save"
        <5>1. row'[t] = outcome[r] /\ at'[r] = "log" /\ outcome'[r] = outcome[r]
          BY <1>1, <2>8, <3>1, <4>1
             DEF GoesWell, Effect, SaveRow, Calls, Then, RunsOK, RunTypes
        <5> QED
          BY <5>1 DEF Recorded
      <4>2. CASE at[r] = "log"
        <5>1. row'[t] = row[t] /\ at'[r] = "attempt" /\ outcome'[r] = outcome[r]
          BY <2>8, <3>1, <4>2 DEF GoesWell, Appends, Then
        <5>2. InsertEvent(r, EventOf(outcome[r]))
          BY <2>8, <4>2 DEF GoesWell, Appends, EventAt
        <5>3. LastIs(r, EventOf(outcome[r]))'
          BY <5>1, <5>2, InsertOthers DEF LastIs
        <5>4. row[t] = outcome[r]
          BY <4>2 DEF RecordsOf, Recorded
        <5> QED
          BY <5>1, <5>3, <5>4 DEF Recorded
      <4>3. CASE at[r] \notin {"save", "log"}
        BY <1>4, <2>8, <3>1, <4>3 DEF Then, Calls, Appends, Recorded
      <4> QED
        BY <4>1, <4>2, <4>3
    <3> QED
      BY <2>5, <2>6, <3>2, <3>3 DEF RecordsOf
  <2>9. CASE GoesWell(r) /\ at[r] = "attempt"
    <3>1. Recorded(r)
      BY DEF RecordsOf
    <3>2. Told(t)'
      BY <2>9, <3>1, EndTells
    <3>3. at'[r] \in Ended
      BY <2>9 DEF GoesWell, Proceed, Goes, Then, Ended, RunsOK, RunTypes
    <3>4. Recorded(r)'
      BY <3>3 DEF Recorded, Ended
    <3> QED
      BY <2>5, <2>6, <3>2, <3>4 DEF RecordsOf
  <2> QED
    BY <1>4, <2>7, <2>8, <2>9 DEF Errs
<1> QED
  BY <1>2, <1>3, <1>4 DEF GoesWell, Errs

(* The records stay as they are described.                                  *)
LEMMA RecordsStep == RunsOK /\ LogOK /\ RecordsOK /\ [Next]_vars => RecordsOK'
<1> SUFFICES ASSUME RunsOK, LogOK, RecordsOK, [Next]_vars
             PROVE  RecordsOK'
  OBVIOUS
<1>1. CASE UNCHANGED vars
  BY <1>1 DEF vars, logVars, runVars, history, RecordsOK, AttemptTypes, RecordsOf, Alone, AtWork,
     Recorded, Told, LastIs
<1>2. ASSUME NEW r \in Runs,
             \/ Begin(r) \/ Call(r) \/ AppendEvent(r) \/ Refused(r) \/ RenameFails(r)
             \/ Throws(r) \/ Rejects(r) \/ Crash(r)
      PROVE  RecordsOK'
  <2>1. /\ OthersStay(r) /\ AttemptTypes' /\ at' \in [Runs -> {at'[r]} \cup Steps]
        /\ \/ Begin(r)
           \/ GoesWell(r)
           \/ UNCHANGED <<row, events, attempts, at, attempt, outcome>>
           \/ Errs(r)
           \/ TaskOf[r] \in cutShort'
    BY <1>2, StepKinds
  <2>2. ASSUME NEW t \in Tasks, t \notin overlapped' \cup cutShort'
        PROVE  RecordsOf(t)'
    <3>1. RecordsOf(t)
      BY <2>1, <2>2 DEF RecordsOK, OthersStay
    <3>2. CASE t # TaskOf[r]
      BY <2>1, <3>1, <3>2, OtherRecords
    <3>3. CASE t = TaskOf[r]
      BY <2>1, <2>2, <3>1, <3>3, OwnRecords
    <3> QED
      BY <3>2, <3>3
  <2> QED
    BY <2>1, <2>2 DEF RecordsOK
<1> QED
  BY <1>1, <1>2 DEF Next

(* When nobody is at work, they agree.                                      *)
LEMMA RecordsOKAgree == LogOK /\ RecordsOK => RecordsAgree
<1> SUFFICES ASSUME LogOK, RecordsOK, NEW t \in Tasks \ (overlapped \cup cutShort),
                    row[t] # "queued" /\ \A r \in Runs : TaskOf[r] = t => ~AtWork(r)
             PROVE  /\ events[t][Max(NumbersOf(t))].type = EventOf(row[t])
                    /\ attempts[t][attempt[events[t][Max(NumbersOf(t))].by]] = AttemptOf(row[t])
  BY DEF RecordsAgree
<1>1. PICK r \in Runs :
        /\ TaskOf[r] = t /\ at[r] \in Ended
        /\ LastIs(r, EventOf(row[t]))
        /\ attempts[t][attempt[r]] = AttemptOf(row[t])
  BY DEF RecordsOK, RecordsOf, Told
<1> QED
  BY <1>1 DEF LastIs, NumbersOf

-----------------------------------------------------------------------------
(* What is published.                                                       *)

Text == [text : {"blank", "torn", "whole"}, outputs : SUBSET Runs]

FileTypes ==
  /\ artifacts \in Seq(Runs)
  /\ sidecar \in Runs \cup {NoFile} /\ temporary \in Runs \cup {NoFile}
  /\ content \in [Runs -> Text]
  /\ outputs \in [Runs -> SUBSET Runs]
  /\ DOMAIN target = Runs

(* A run that has not opened a file yet, or not added its artifact.         *)
Before == {"never", "idle", "running", "upload", "asset", "save90", "publish", "read", "open"}

(* Two entries of a task are never in one text, and the image of each entry *)
(* is there.                                                                *)
Sound(entries) ==
  /\ entries \subseteq uploaded
  /\ \A r, s \in entries : TaskOf[r] = TaskOf[s] => r = s

FilesOK ==
  /\ FileTypes
  /\ sidecar # NoFile => sidecar # temporary
  /\ \A r \in Runs :
       /\ at[r] \in Before => r # sidecar /\ r # temporary
       /\ Sound(outputs[r]) /\ Sound(content[r].outputs)
  /\ \A n \in DOMAIN artifacts : artifacts[n] \in uploaded /\ at[artifacts[n]] \notin Before
  /\ \A m, n \in DOMAIN artifacts : artifacts[m] = artifacts[n] => m = n

(* Between its read and its rename a run is alone with the sidecar, and its *)
(* entries are those of the sidecar and its own.                            *)
Exclusive ==
  /\ \A r, s \in Runs : InSidecar(r) /\ InSidecar(s) => r = s
  /\ sidecar # NoFile => content[sidecar].text = "whole"
  /\ \A r \in Runs :
       /\ InSidecar(r) => outputs[r] = WithoutTask(Listed, r) \cup {r}
       /\ at[r] = "write" =>
            target[r] = temporary /\ temporary # NoFile /\ content[temporary] = Blank
       /\ at[r] = "rename" => temporary # NoFile /\ content[temporary] = Whole(outputs[r])

SidecarOK == FilesOK /\ (~raced => Exclusive)

(* At the start nothing is published.                                       *)
LEMMA SidecarStarts == Init => SidecarOK
<1> SUFFICES ASSUME Init PROVE SidecarOK
  OBVIOUS
<1>1. FileTypes
  <2>1. Blank \in Text
    BY DEF Blank, Text
  <2>2. content \in [Runs -> Text]
    BY <2>1 DEF Init, OutputsInit
  <2>3. artifacts \in Seq(Runs) /\ outputs \in [Runs -> SUBSET Runs]
    BY DEF Init, OutputsInit
  <2> QED
    BY <2>2, <2>3 DEF Init, OutputsInit, FileTypes
<1>2. \A r \in Runs : outputs[r] = {} /\ content[r].outputs = {} /\ at[r] \in {"never", "idle"}
  BY DEF Init, OutputsInit, Blank
<1>3. sidecar = NoFile /\ temporary = NoFile /\ DOMAIN artifacts = {}
  BY DEF Init, OutputsInit
<1>4. FilesOK
  BY <1>1, <1>2, <1>3, NoFileIsNoRun DEF FilesOK, Sound
<1>5. Exclusive
  BY <1>2, <1>3 DEF Exclusive, InSidecar
<1> QED
  BY <1>4, <1>5 DEF SidecarOK

-----------------------------------------------------------------------------
(* The step of a run, as the sidecar sees it: the other runs stay where they*)
(* are, and what is uploaded remains so.                                    *)
Stirs(r) ==
  /\ \A s \in Runs \ {r} : at'[s] = at[s]
  /\ uploaded \subseteq uploaded'
  /\ raced => raced'

(* The outputs of the tasks that were listed still are.                     *)
Keeps == \A t \in Tasks : Lists(Listed, t) => Lists(Listed', t)

LEMMA SoundStays ==
  ASSUME uploaded \subseteq uploaded', NEW entries, Sound(entries)
  PROVE  entries \subseteq uploaded' /\ \A r, s \in entries : TaskOf[r] = TaskOf[s] => r = s
  BY DEF Sound

(* A step that leaves the outputs alone.                                    *)
LEMMA QuietStep ==
  ASSUME SidecarOK, NEW r \in Runs, Stirs(r), UNCHANGED outputVars,
         at'[r] = at[r] \/ ~InSidecar(r)',
         at'[r] \in Before => at[r] \in Before
  PROVE  SidecarOK' /\ Keeps
<1>1. FilesOK'
  <2>1. FileTypes'
    BY DEF SidecarOK, FilesOK, FileTypes, outputVars, fileVars, Text
  <2>2. \A s \in Runs : at'[s] \in Before => at[s] \in Before
    BY DEF Stirs
  <2>3. \A s \in Runs : Sound(outputs[s])' /\ Sound(content[s].outputs)'
    BY DEF SidecarOK, FilesOK, Sound, Stirs, outputVars, fileVars
  <2>4. \A n \in DOMAIN artifacts : artifacts[n] \in Runs
    BY DEF SidecarOK, FilesOK, FileTypes
  <2> QED
    BY <2>1, <2>2, <2>3, <2>4 DEF SidecarOK, FilesOK, Stirs, outputVars, fileVars
<1>2. Listed' = Listed
  BY DEF Listed, outputVars, fileVars
<1>3. ASSUME ~raced', Exclusive
      PROVE  Exclusive'
  <2>1. \A s \in Runs : InSidecar(s)' => InSidecar(s) /\ at'[s] = at[s]
    BY DEF Stirs, InSidecar
  <2>2. \A s \in Runs : at'[s] \in {"write", "rename"} => InSidecar(s)'
    BY DEF InSidecar
  <2> QED
    BY <1>2, <1>3, <2>1, <2>2 DEF Exclusive, WithoutTask, outputVars, fileVars
<1> QED
  BY <1>1, <1>2, <1>3 DEF SidecarOK, Stirs, Keeps

(* What a run makes of the entries it has read.                             *)
LEMMA SoundAdded ==
  ASSUME NEW entries, Sound(entries), NEW r \in uploaded
  PROVE  /\ Sound(WithoutTask(entries, r) \cup {r})
         /\ \A t : Lists(entries, t) => Lists(WithoutTask(entries, r) \cup {r}, t)
         /\ Lists(WithoutTask(entries, r) \cup {r}, TaskOf[r])
  BY DEF Sound, WithoutTask, Lists

LEMMA ListedSound ==
  ASSUME FilesOK
  PROVE  Sound(Listed) /\ Listed \in SUBSET Runs
<1>1. CASE sidecar = NoFile
  BY <1>1 DEF Listed, Sound
<1>2. CASE sidecar # NoFile
  BY <1>2 DEF FilesOK, FileTypes, Listed, Text
<1> QED
  BY <1>1, <1>2

(* A run reads the sidecar.                                                 *)
LEMMA ReadStep ==
  ASSUME SidecarOK, NEW r \in Runs, Stirs(r), at[r] = "read", r \in uploaded, ReadSidecar(r),
         at'[r] \in {"open", "save"},
         (\E s \in Runs \ {r} : InSidecar(s)) /\ at'[r] = "open" => raced'
  PROVE  SidecarOK' /\ Keeps
<1>1. /\ outputs' = [outputs EXCEPT ![r] = WithoutTask(Listed, r) \cup {r}]
      /\ UNCHANGED <<artifacts, sidecar, temporary, content, target>>
  BY DEF ReadSidecar
<1>2. outputs \in [Runs -> SUBSET Runs] /\ FilesOK
  BY DEF SidecarOK, FilesOK, FileTypes
<1>3. Sound(WithoutTask(Listed, r) \cup {r}) /\ WithoutTask(Listed, r) \cup {r} \in SUBSET Runs
  BY <1>2, ListedSound, SoundAdded DEF WithoutTask
<1>4. /\ outputs'[r] = WithoutTask(Listed, r) \cup {r}
      /\ \A s \in Runs \ {r} : outputs'[s] = outputs[s]
      /\ outputs' \in [Runs -> SUBSET Runs]
  BY <1>1, <1>2, <1>3
<1>5. FilesOK'
  <2>1. FileTypes'
    BY <1>1, <1>2, <1>4 DEF FilesOK, FileTypes, Text
  <2>2. \A s \in Runs : at'[s] \in Before => at[s] \in Before
    BY DEF Stirs, Before
  <2>3. \A s \in Runs : Sound(outputs[s])
    BY <1>2 DEF FilesOK
  <2>4. \A s \in Runs : Sound(outputs'[s])
    BY <1>3, <1>4, <2>3
  <2>5. \A s \in Runs : Sound(outputs[s])'
    BY <2>4 DEF Sound, Stirs
  <2>6. \A s \in Runs : Sound(content[s].outputs)'
    BY <1>1, <1>2 DEF FilesOK, Sound, Stirs
  <2>7. \A n \in DOMAIN artifacts : artifacts[n] \in Runs
    BY <1>2 DEF FilesOK, FileTypes
  <2> QED
    BY <1>1, <1>2, <2>1, <2>2, <2>5, <2>6, <2>7 DEF FilesOK, Stirs
<1>6. Listed' = Listed
  BY <1>1 DEF Listed
<1>7. ASSUME ~raced', Exclusive
      PROVE  Exclusive'
  <2>1. \A s \in Runs \ {r} : InSidecar(s)' = InSidecar(s)
    BY DEF Stirs, InSidecar
  <2>2. \A s, q \in Runs : InSidecar(s)' /\ InSidecar(q)' => s = q
    BY <1>7, <2>1 DEF Exclusive, InSidecar
  <2>3. ASSUME NEW s \in Runs, InSidecar(s)'
        PROVE  outputs'[s] = WithoutTask(Listed, s) \cup {s}
    BY <1>4, <1>7, <2>1, <2>3 DEF Exclusive
  <2>4. ASSUME NEW s \in Runs, at'[s] \in {"write", "rename"}
        PROVE  s # r /\ at[s] = at'[s] /\ outputs'[s] = outputs[s]
    BY <1>4, <2>4 DEF Stirs
  <2> QED
    BY <1>1, <1>6, <1>7, <2>2, <2>3, <2>4 DEF Exclusive, WithoutTask
<1> QED
  BY <1>5, <1>6, <1>7 DEF SidecarOK, Stirs, Keeps

(* It opens the temporary file, which is not the sidecar.                   *)
LEMMA OpenStep ==
  ASSUME SidecarOK, NEW r \in Runs, Stirs(r), at[r] = "open", OpenTemporary(r),
         at'[r] \in {"write", "save"}
  PROVE  SidecarOK' /\ (~raced' => Keeps)
<1> DEFINE file == IF temporary = NoFile THEN r ELSE temporary
<1>1. /\ target' = [target EXCEPT ![r] = file]
      /\ content' = [content EXCEPT ![file] = Blank]
      /\ temporary' = file
      /\ UNCHANGED <<artifacts, sidecar, outputs>>
  BY DEF OpenTemporary
<1>2. FilesOK /\ content \in [Runs -> Text] /\ DOMAIN target = Runs
  BY DEF SidecarOK, FilesOK, FileTypes
<1>3. file \in Runs /\ file # NoFile /\ (sidecar # NoFile => file # sidecar)
  BY <1>2, NoFileIsNoRun DEF FilesOK, FileTypes, Before
<1>4. Blank \in Text /\ Blank.outputs = {}
  BY DEF Blank, Text
<1>5. \A s \in Runs \ {r} : at'[s] \in Before => s # file
  BY <1>2 DEF Stirs, FilesOK
<1> HIDE DEF file
<1>6. /\ content' \in [Runs -> Text] /\ content'[file] = Blank
      /\ \A f \in Runs \ {file} : content'[f] = content[f]
      /\ target'[r] = file /\ DOMAIN target' = Runs
      /\ \A s \in Runs \ {r} : target'[s] = target[s]
  BY <1>1, <1>2, <1>3, <1>4
<1>7. FilesOK'
  <2>1. FileTypes'
    BY <1>1, <1>2, <1>3, <1>6 DEF FilesOK, FileTypes, Text
  <2>2. \A s \in Runs : at'[s] \in Before => at[s] \in Before /\ s # file
    BY <1>5 DEF Stirs, Before
  <2>3. \A s \in Runs : Sound(outputs[s])'
    BY <1>1, <1>2 DEF FilesOK, Sound, Stirs
  <2>4. \A s \in Runs : Sound(content[s].outputs)
    BY <1>2 DEF FilesOK
  <2>5. \A s \in Runs : Sound(content'[s].outputs)
    BY <1>4, <1>6, <2>4 DEF Sound
  <2>6. \A s \in Runs : Sound(content[s].outputs)'
    BY <2>5 DEF Sound, Stirs
  <2>7. \A n \in DOMAIN artifacts : artifacts[n] \in Runs
    BY <1>2 DEF FilesOK, FileTypes
  <2> QED
    BY <1>1, <1>2, <1>3, <2>1, <2>2, <2>3, <2>6, <2>7 DEF FilesOK, Stirs
<1>8. Listed' = Listed
  BY <1>1, <1>2, <1>3, <1>6 DEF Listed, FilesOK, FileTypes
<1>9. ASSUME ~raced', Exclusive
      PROVE  Exclusive'
  <2>1. InSidecar(r) /\ \A s \in Runs \ {r} : ~InSidecar(s)
    BY <1>9 DEF Exclusive, InSidecar
  <2>2. \A s \in Runs \ {r} : ~InSidecar(s)' /\ at'[s] \notin {"write", "rename"}
    BY <2>1 DEF Stirs, InSidecar
  <2>3. sidecar' # NoFile => content'[sidecar'].text = "whole"
    BY <1>1, <1>2, <1>3, <1>6, <1>9 DEF Exclusive, FilesOK, FileTypes
  <2>4. outputs'[r] = WithoutTask(Listed', r) \cup {r}
    BY <1>1, <1>8, <1>9, <2>1 DEF Exclusive
  <2> QED
    BY <1>1, <1>3, <1>6, <1>9, <2>2, <2>3, <2>4 DEF Exclusive, WithoutTask
<1> QED
  BY <1>7, <1>8, <1>9 DEF SidecarOK, Stirs, Keeps

(* It writes its entries, and the file is as it has left it.                *)
LEMMA WriteStep ==
  ASSUME SidecarOK, NEW r \in Runs, Stirs(r), at[r] = "write", WriteTemporary(r),
         at'[r] \in {"rename", "save"}
  PROVE  SidecarOK' /\ (~raced' => Keeps)
<1> DEFINE file == target[r]
<1>1. /\ \/ content' = [content EXCEPT ![file] = Whole(outputs[r])]
         \/ content[file] # Blank /\ content' = [content EXCEPT ![file] = Torn]
      /\ UNCHANGED <<artifacts, sidecar, temporary, outputs, target>>
  BY DEF WriteTemporary
<1>2. FilesOK /\ content \in [Runs -> Text] /\ outputs \in [Runs -> SUBSET Runs]
  BY DEF SidecarOK, FilesOK, FileTypes
<1>3. /\ Whole(outputs[r]) \in Text /\ Whole(outputs[r]).outputs = outputs[r]
      /\ Torn \in Text /\ Torn.outputs = {}
  BY <1>2 DEF Whole, Torn, Text
<1> HIDE DEF file
<1>4. /\ content' \in [Runs -> Text]
      /\ \A f \in Runs \ {file} : content'[f] = content[f]
      /\ file \in Runs => content'[file] \in {Whole(outputs[r]), Torn}
  BY <1>1, <1>2, <1>3
<1>5. FilesOK'
  <2>1. FileTypes'
    BY <1>1, <1>2, <1>4 DEF FilesOK, FileTypes, Text
  <2>2. \A s \in Runs : at'[s] \in Before => at[s] \in Before
    BY DEF Stirs, Before
  <2>3. \A s \in Runs : Sound(outputs[s])'
    BY <1>1, <1>2 DEF FilesOK, Sound, Stirs
  <2>4. \A s \in Runs : Sound(content[s].outputs) /\ Sound(outputs[s])
    BY <1>2 DEF FilesOK
  <2>5. \A s \in Runs : Sound(content'[s].outputs)
    <3>1. Sound(Torn.outputs)
      BY <1>3 DEF Sound
    <3> QED
      BY <1>3, <1>4, <2>4, <3>1
  <2>6. \A s \in Runs : Sound(content[s].outputs)'
    BY <2>5 DEF Sound, Stirs
  <2>7. \A n \in DOMAIN artifacts : artifacts[n] \in Runs
    BY <1>2 DEF FilesOK, FileTypes
  <2> QED
    BY <1>1, <1>2, <2>1, <2>2, <2>3, <2>6, <2>7 DEF FilesOK, Stirs
<1>6. ASSUME ~raced', Exclusive
      PROVE  Exclusive' /\ Listed' = Listed
  <2>1. InSidecar(r) /\ \A s \in Runs \ {r} : ~InSidecar(s)
    BY <1>6 DEF Exclusive, InSidecar
  <2>2. \A s \in Runs \ {r} : ~InSidecar(s)' /\ at'[s] \notin {"write", "rename"}
    BY <2>1 DEF Stirs, InSidecar
  <2>3. file = temporary /\ file \in Runs /\ content[file] = Blank /\ file # NoFile
    BY <1>2, <1>6 DEF Exclusive, FilesOK, FileTypes, file
  <2>4. content' = [content EXCEPT ![file] = Whole(outputs[r])]
    BY <1>1, <2>3
  <2>5. content'[temporary'] = Whole(outputs'[r])
    BY <1>1, <1>2, <2>3, <2>4
  <2>6. sidecar # NoFile => sidecar # file /\ content'[sidecar] = content[sidecar]
    BY <1>2, <1>4, <2>3 DEF FilesOK, FileTypes
  <2>7. Listed' = Listed
    BY <1>1, <2>6 DEF Listed
  <2>8. outputs'[r] = WithoutTask(Listed', r) \cup {r}
    BY <1>1, <1>6, <2>1, <2>7 DEF Exclusive
  <2>9. sidecar' # NoFile => content'[sidecar'].text = "whole"
    BY <1>1, <1>6, <2>6 DEF Exclusive
  <2>10. at'[r] # "write"
    OBVIOUS
  <2> QED
    BY <1>1, <2>2, <2>3, <2>5, <2>7, <2>8, <2>9, <2>10 DEF Exclusive, WithoutTask
<1> QED
  BY <1>5, <1>6 DEF SidecarOK, Stirs, Keeps

(* It renames the file, and is listed then.                                 *)
LEMMA RenameStep ==
  ASSUME SidecarOK, NEW r \in Runs, Stirs(r), at[r] = "rename", Rename, r \in uploaded,
         at'[r] \in {"metadata", "save"}
  PROVE  SidecarOK' /\ (~raced' => Keeps /\ Lists(Listed', TaskOf[r]))
<1>1. /\ temporary # NoFile /\ sidecar' = temporary /\ temporary' = NoFile
      /\ UNCHANGED <<artifacts, content, outputs, target>>
  BY DEF Rename, CanRename
<1>2. FilesOK
  BY DEF SidecarOK
<1>3. FilesOK'
  <2>1. FileTypes'
    BY <1>1, <1>2 DEF FilesOK, FileTypes, Text
  <2>2. \A s \in Runs : at'[s] \in Before => at[s] \in Before /\ s # NoFile
    BY NoFileIsNoRun DEF Stirs, Before
  <2>3. \A s \in Runs : Sound(outputs[s])' /\ Sound(content[s].outputs)'
    BY <1>1, <1>2 DEF FilesOK, Sound, Stirs
  <2>7. \A n \in DOMAIN artifacts : artifacts[n] \in Runs
    BY <1>2 DEF FilesOK, FileTypes
  <2> QED
    BY <1>1, <1>2, <2>1, <2>2, <2>3, <2>7 DEF FilesOK, Stirs
<1>4. ASSUME ~raced', Exclusive
      PROVE  Exclusive' /\ Keeps /\ Lists(Listed', TaskOf[r])
  <2>1. InSidecar(r) /\ \A s \in Runs \ {r} : ~InSidecar(s)
    BY <1>4 DEF Exclusive, InSidecar
  <2>2. \A s \in Runs : ~InSidecar(s)' /\ at'[s] \notin {"write", "rename"}
    BY <2>1 DEF Stirs, InSidecar
  <2>3. content[temporary] = Whole(outputs[r]) /\ outputs[r] = WithoutTask(Listed, r) \cup {r}
    BY <1>4, <2>1 DEF Exclusive
  <2>4. content'[sidecar'].text = "whole" /\ Listed' = WithoutTask(Listed, r) \cup {r}
    BY <1>1, <2>3 DEF Whole, Listed
  <2>5. /\ \A t : Lists(Listed, t) => Lists(WithoutTask(Listed, r) \cup {r}, t)
        /\ Lists(WithoutTask(Listed, r) \cup {r}, TaskOf[r])
    BY <1>2, ListedSound, SoundAdded
  <2>6. Keeps /\ Lists(Listed', TaskOf[r])
    BY <2>4, <2>5 DEF Keeps
  <2> QED
    BY <2>2, <2>4, <2>6 DEF Exclusive
<1> QED
  BY <1>3, <1>4 DEF SidecarOK, Stirs

(* With the platform it adds its artifact.                                  *)
LEMMA PublishStep ==
  ASSUME SidecarOK, NEW r \in Runs, Stirs(r), at[r] = "publish", AddArtifact(r), r \in uploaded,
         at'[r] \in {"metadata", "save"}
  PROVE  SidecarOK' /\ Keeps
<1>1. artifacts' = Append(artifacts, r) /\ UNCHANGED fileVars /\ artifacts \in Seq(Runs)
  BY DEF AddArtifact, SidecarOK, FilesOK, FileTypes
<1>2. /\ artifacts' \in Seq(Runs) /\ Len(artifacts) \in Nat
      /\ DOMAIN artifacts = 1..Len(artifacts)
      /\ DOMAIN artifacts' = 1..(Len(artifacts) + 1)
      /\ \A n \in DOMAIN artifacts : artifacts'[n] = artifacts[n] /\ artifacts[n] \in Runs
      /\ artifacts'[Len(artifacts) + 1] = r
  BY <1>1
<1>3. FilesOK
  BY DEF SidecarOK
<1>4. \A n \in DOMAIN artifacts : artifacts[n] # r /\ at'[artifacts[n]] \notin Before
                                  /\ artifacts[n] \in uploaded'
  BY <1>2, <1>3 DEF FilesOK, Before, Stirs
<1>5. FilesOK'
  <2>1. FileTypes'
    BY <1>1, <1>2, <1>3 DEF FilesOK, FileTypes, Text, fileVars
  <2>2. \A s \in Runs : at'[s] \in Before => at[s] \in Before
    BY DEF Stirs, Before
  <2>3. \A s \in Runs : Sound(outputs[s])' /\ Sound(content[s].outputs)'
    BY <1>1, <1>3 DEF FilesOK, Sound, Stirs, fileVars
  <2>4. \A n \in DOMAIN artifacts' :
          n \in DOMAIN artifacts \/ n = Len(artifacts) + 1
    BY <1>2
  <2>5. \A n \in DOMAIN artifacts' : artifacts'[n] \in uploaded' /\ at'[artifacts'[n]] \notin Before
    BY <1>2, <1>4, <2>4 DEF Stirs, Before
  <2>6. \A m, n \in DOMAIN artifacts : artifacts[m] = artifacts[n] => m = n
    BY <1>3 DEF FilesOK
  <2>7. \A m, n \in DOMAIN artifacts' : artifacts'[m] = artifacts'[n] => m = n
    BY <1>2, <1>4, <2>4, <2>6
  <2>8. /\ sidecar' # NoFile => sidecar' # temporary'
        /\ \A s \in Runs : at'[s] \in Before => s # sidecar' /\ s # temporary'
    BY <1>1, <1>3, <2>2 DEF FilesOK, fileVars
  <2> QED
    BY <2>1, <2>3, <2>5, <2>7, <2>8 DEF FilesOK
<1>6. Listed' = Listed
  BY <1>1 DEF Listed, fileVars
<1>7. ASSUME Exclusive
      PROVE  Exclusive'
  <2>1. \A s \in Runs : InSidecar(s)' => InSidecar(s) /\ at'[s] = at[s]
    BY DEF Stirs, InSidecar
  <2>2. \A s \in Runs : at'[s] \in {"write", "rename"} => InSidecar(s)'
    BY DEF InSidecar
  <2> QED
    BY <1>1, <1>6, <1>7, <2>1, <2>2 DEF Exclusive, WithoutTask, fileVars
<1> QED
  BY <1>5, <1>6, <1>7 DEF SidecarOK, Stirs, Keeps

-----------------------------------------------------------------------------
(* The steps by what they do to the outputs of the panel.                   *)

Quietly(r) ==
  /\ UNCHANGED outputVars
  /\ at'[r] = at[r] \/ (~InSidecar(r)' /\ at'[r] # "metadata")
  /\ at'[r] \in Before => at[r] \in Before

Files(r) ==
  \/ at[r] = "read" /\ ReadSidecar(r) /\ at'[r] \in {"open", "save"}
     /\ ((\E s \in Runs \ {r} : InSidecar(s)) /\ at'[r] = "open" => raced')
  \/ at[r] = "open" /\ OpenTemporary(r) /\ at'[r] \in {"write", "save"}
  \/ at[r] = "write" /\ WriteTemporary(r) /\ at'[r] \in {"rename", "save"}

Publishes(r) ==
  /\ at'[r] \in {"metadata", "save"}
  /\ \/ at[r] = "rename" /\ Rename
     \/ at[r] = "publish" /\ AddArtifact(r)

(* What the rows and the outcomes become.                                   *)
Reports(r) ==
  /\ \A s \in Runs \ {r} : outcome'[s] = outcome[s]
  /\ outcome'[r] = "succeeded" => outcome[r] = "succeeded" \/ at[r] = "metadata"
  /\ \A t \in Tasks : row'[t] = "succeeded" =>
       row[t] = "succeeded" \/ (t = TaskOf[r] /\ outcome[r] = "succeeded")

(* How a run goes on, as the outputs see it.                                *)
LEMMA GoesOnKinds ==
  ASSUME RunsOK, NEW r \in Runs, at[r] \in Calls \cup Appends, GoesOn(r)
  PROVE  /\ \A s \in Runs \ {r} : at'[s] = at[s] /\ outcome'[s] = outcome[s]
         /\ raced => raced'
         /\ outcome'[r] = "succeeded" => outcome[r] = "succeeded" \/ at[r] = "metadata"
         /\ \/ Proceed(r) /\ at'[r] = Then(r)
                /\ (at[r] = "read" /\ (\E s \in Runs \ {r} : InSidecar(s)) => raced')
            \/ at'[r] = "save"
            \/ at'[r] = "thrown" /\ at[r] \notin Early
<1> USE DEF RunsOK, RunTypes, Goes
<1>1. CASE Proceed(r)
  BY <1>1 DEF Proceed
<1>2. ASSUME NEW failure \in Failures, Catch(r, failure)
      PROVE  /\ \A s \in Runs \ {r} : at'[s] = at[s] /\ outcome'[s] = outcome[s]
             /\ raced => raced'
             /\ outcome'[r] # "succeeded" /\ at'[r] = "save"
  BY <1>2 DEF Catch, history, Failures
<1>3. CASE EndAbruptly(r)
  BY <1>3 DEF EndAbruptly, InOrder, Early, Failures
<1> QED
  BY <1>1, <1>2, <1>3 DEF GoesOn

(* What a call does to them.                                                *)
LEMMA EffectKinds ==
  ASSUME RunsOK, NEW r \in Runs, at[r] \in Calls, Effect(r), GoesOn(r)
  PROVE  /\ Quietly(r) \/ Files(r) \/ Publishes(r)
         /\ uploaded \subseteq uploaded'
         /\ \A t \in Tasks : row'[t] = "succeeded" =>
              row[t] = "succeeded" \/ (t = TaskOf[r] /\ outcome[r] = "succeeded")
<1>1. \/ at'[r] = Then(r) /\ (at[r] = "read" /\ (\E s \in Runs \ {r} : InSidecar(s)) => raced')
      \/ at'[r] = "save"
      \/ at'[r] = "thrown" /\ at[r] \notin Early
  BY GoesOnKinds
<1>2. CASE at[r] \in {"running", "upload", "save90", "save", "attempt"}
  <2>1. UNCHANGED outputVars
    BY <1>2 DEF Effect, SaveRow, Upload, SaveAttempt
  <2>2. at'[r] \in {"upload", "asset", "publish", "read", "log", "done", "thrown", "save"}
    BY <1>1, <1>2 DEF Then
  <2>3. at'[r] \in Before => at[r] \in Before
    BY <1>1, <1>2 DEF Then, Before
  <2>4. Quietly(r)
    BY <2>1, <2>2, <2>3 DEF Quietly, InSidecar
  <2>5. /\ uploaded \subseteq uploaded'
        /\ \A t \in Tasks : row'[t] = "succeeded" =>
             row[t] = "succeeded" \/ (t = TaskOf[r] /\ outcome[r] = "succeeded")
    BY <1>2 DEF Effect, SaveRow, Upload, SaveAttempt, RunsOK, RunTypes, InOrder, Early, Recording
  <2> QED
    BY <2>4, <2>5
<1>3. CASE at[r] \in {"read", "open", "write"}
  <2>1. UNCHANGED <<row, uploaded>>
    BY <1>3 DEF Effect
  <2>2. Files(r)
    BY <1>1, <1>3 DEF Effect, Then, Files, Early
  <2> QED
    BY <2>1, <2>2
<1>4. CASE at[r] \in {"rename", "publish"}
  <2>1. UNCHANGED <<row, uploaded>>
    BY <1>4 DEF Effect
  <2>2. Publishes(r)
    BY <1>1, <1>4 DEF Effect, Then, Publishes, Early
  <2> QED
    BY <2>1, <2>2
<1> QED
  BY <1>2, <1>3, <1>4 DEF Calls

(* Each action is of one of these kinds.                                    *)
LEMMA OutputKinds ==
  ASSUME RunsOK, NEW r \in Runs,
         \/ Begin(r) \/ Call(r) \/ AppendEvent(r) \/ Refused(r) \/ RenameFails(r)
         \/ Throws(r) \/ Rejects(r) \/ Crash(r)
  PROVE  /\ Stirs(r) /\ Reports(r)
         /\ Quietly(r) \/ Files(r) \/ Publishes(r)
<1>1. ASSUME at[r] \in Calls \cup Appends, GoesOn(r), UNCHANGED <<outputVars, row>>,
             uploaded \subseteq uploaded', Proceed(r) => at[r] \in Appends
      PROVE  /\ Stirs(r) /\ Reports(r) /\ Quietly(r)
  <2>1. /\ \A s \in Runs \ {r} : at'[s] = at[s] /\ outcome'[s] = outcome[s]
        /\ raced => raced'
        /\ outcome'[r] = "succeeded" => outcome[r] = "succeeded" \/ at[r] = "metadata"
        /\ \/ Proceed(r) /\ at'[r] = Then(r)
           \/ at'[r] = "save"
           \/ at'[r] = "thrown" /\ at[r] \notin Early
    BY <1>1, GoesOnKinds
  <2>2. /\ at'[r] \in {"save90", "save", "attempt", "thrown"}
        /\ at'[r] = "save90" => at[r] = "asset"
    BY <1>1, <2>1 DEF Then, Appends
  <2>3. Quietly(r)
    BY <1>1, <2>2 DEF Quietly, InSidecar, Before
  <2> QED
    BY <1>1, <2>1, <2>3 DEF Stirs, Reports
<1>2. CASE Begin(r)
  BY <1>2 DEF Begin, Stirs, Reports, Quietly, InSidecar, Before, Goes, RunsOK, RunTypes
<1>3. CASE Call(r)
  <2>1. at[r] \in Calls /\ Effect(r) /\ GoesOn(r)
    BY <1>3 DEF Call, GoesOn
  <2> QED
    BY <2>1, EffectKinds, GoesOnKinds DEF Stirs, Reports
<1>4. CASE AppendEvent(r)
  <2>1. at[r] \in Appends /\ UNCHANGED <<outputVars, row, uploaded>>
    BY <1>4 DEF AppendEvent
  <2>2. CASE UNCHANGED <<at, outcome, attempt, history>>
    BY <2>1, <2>2 DEF Stirs, Reports, Quietly, history
  <2>3. CASE GoesOn(r)
    BY <1>1, <2>1, <2>3
  <2> QED
    BY <1>4, <2>2, <2>3, FailureType DEF AppendEvent, GoesOn, Fails
<1>5. CASE Refused(r) \/ RenameFails(r) \/ Rejects(r)
  <2>1. /\ at[r] \in {"publish", "rename", "upload"} /\ GoesOn(r) /\ ~Proceed(r)
        /\ UNCHANGED <<outputVars, row>> /\ uploaded \subseteq uploaded'
    BY <1>5, FailureType DEF Refused, BatchRefused, RenameFails, Rejects, Upload, Catch, Goes,
       Proceed, Then, GoesOn, RunsOK, RunTypes, Failures
  <2> QED
    BY <1>1, <2>1 DEF Calls
<1>6. CASE Throws(r)
  <2>1. GoesOn(r)
    BY <1>6, FailureType DEF Throws, Fails, GoesOn
  <2>2. CASE at[r] \in Calls /\ Effect(r)
    BY <2>1, <2>2, EffectKinds, GoesOnKinds DEF Stirs, Reports
  <2>3. CASE at[r] \in Calls \ {"attempt"} /\ UNCHANGED <<outputVars, row, uploaded>>
    <3>1. ~Proceed(r)
      BY <1>6, <2>3, FailureType DEF Throws, Fails, Catch, EndAbruptly, Proceed, Goes, Then, Calls,
         RunsOK, RunTypes, InOrder, Early, Failures
    <3> QED
      BY <1>1, <2>1, <2>3, <3>1
  <2>4. CASE at[r] = "attempt" /\ UNCHANGED <<outputVars, row, uploaded>>
    <3>1. /\ at'[r] \in {"save", "thrown"}
          /\ \A s \in Runs \ {r} : at'[s] = at[s] /\ outcome'[s] = outcome[s]
          /\ raced => raced'
          /\ outcome'[r] = "succeeded" => outcome[r] = "succeeded"
      BY <1>6, <2>1, <2>4, GoesOnKinds, FailureType
         DEF Throws, Fails, Catch, EndAbruptly, Goes, Calls, RunsOK, RunTypes
    <3> QED
      BY <2>4, <3>1 DEF Stirs, Reports, Quietly, InSidecar, Before
  <2>5. CASE at[r] \in Appends /\ UNCHANGED <<outputVars, row, uploaded>>
    BY <1>1, <2>1, <2>5
  <2> QED
    BY <1>6, <2>2, <2>3, <2>4, <2>5 DEF Throws
<1>7. CASE Crash(r)
  BY <1>7 DEF Crash, Stirs, Reports, Quietly, InSidecar, Before, Goes, RunsOK, RunTypes
<1> QED
  BY <1>2, <1>3, <1>4, <1>5, <1>6, <1>7

-----------------------------------------------------------------------------
(* What is reported is published.                                           *)

Reported ==
  platform \/ ~raced =>
    /\ \A r \in Runs : at[r] = "metadata" \/ outcome[r] = "succeeded" => Lists(Published, TaskOf[r])
    /\ \A t \in Tasks : row[t] = "succeeded" => Lists(Published, t)

(* At the start nothing is reported.                                        *)
LEMMA ReportedStarts == Init => Reported
<1> SUFFICES ASSUME Init PROVE Reported
  OBVIOUS
<1>1. \A r \in Runs : at[r] \in {"never", "idle"} /\ outcome[r] = "none"
  BY DEF Init
<1>2. \A t \in Tasks : row[t] = "queued"
  BY DEF Init
<1> QED
  BY <1>1, <1>2 DEF Reported

(* What is published remains so.                                            *)
LEMMA OutputStep ==
  ASSUME RunsOK, SidecarOK, NEW r \in Runs, UNCHANGED platform,
         Stirs(r), Quietly(r) \/ Files(r) \/ Publishes(r)
  PROVE  /\ SidecarOK'
         /\ ~raced' => Keeps
         /\ platform \/ ~raced' =>
              /\ \A t \in Tasks : Lists(Published, t) => Lists(Published', t)
              /\ at'[r] = "metadata" /\ at[r] # "metadata" => Lists(Published', TaskOf[r])
<1>1. r \in uploaded \/ at[r] \notin {"read", "rename", "publish"}
  BY DEF RunsOK, InOrder, Early
<1>2. FilesOK /\ artifacts \in Seq(Runs)
  BY DEF SidecarOK, FilesOK, FileTypes
<1>3. CASE Quietly(r)
  <2>1. SidecarOK' /\ Keeps
    BY <1>3, QuietStep DEF Quietly
  <2>2. Published' = Published
    BY <1>3 DEF Quietly, Published, Listed, outputVars, fileVars
  <2> QED
    BY <1>3, <2>1, <2>2 DEF Quietly
<1>4. CASE Files(r)
  <2>1. SidecarOK' /\ (~raced' => Keeps)
    BY <1>1, <1>4, ReadStep, OpenStep, WriteStep DEF Files
  <2>2. artifacts' = artifacts
    BY <1>4 DEF Files, ReadSidecar, OpenTemporary, WriteTemporary
  <2>3. at'[r] # "metadata"
    BY <1>4 DEF Files
  <2> QED
    BY <2>1, <2>2, <2>3 DEF Published, Keeps
<1>5. CASE at[r] = "rename" /\ Rename /\ at'[r] \in {"metadata", "save"}
  <2>1. SidecarOK' /\ (~raced' => Keeps /\ Lists(Listed', TaskOf[r]))
    BY <1>1, <1>5, RenameStep
  <2>2. artifacts' = artifacts
    BY <1>5 DEF Rename
  <2>3. ~platform
    BY <1>5 DEF RunsOK, InOrder
  <2> QED
    BY <2>1, <2>2, <2>3 DEF Published, Keeps
<1>6. CASE at[r] = "publish" /\ AddArtifact(r) /\ at'[r] \in {"metadata", "save"}
  <2>1. SidecarOK' /\ Keeps
    BY <1>1, <1>6, PublishStep
  <2>2. platform
    BY <1>6 DEF RunsOK, InOrder
  <2>3. /\ artifacts' = Append(artifacts, r)
        /\ Published = {artifacts[n] : n \in DOMAIN artifacts}
        /\ Published' = {artifacts'[n] : n \in DOMAIN artifacts'}
    BY <1>6, <2>2 DEF AddArtifact, Published
  <2>4. /\ DOMAIN artifacts \subseteq DOMAIN artifacts'
        /\ \A n \in DOMAIN artifacts : artifacts'[n] = artifacts[n]
        /\ Len(artifacts) + 1 \in DOMAIN artifacts' /\ artifacts'[Len(artifacts) + 1] = r
    BY <1>2, <2>3
  <2>5. Published \subseteq Published' /\ r \in Published'
    BY <2>3, <2>4
  <2> QED
    BY <2>1, <2>5 DEF Lists
<1> QED
  BY <1>3, <1>4, <1>5, <1>6 DEF Publishes

(* What is reported is published.                                           *)
LEMMA ReportedStep ==
  ASSUME RunsOK, SidecarOK, Reported, NEW r \in Runs, UNCHANGED platform,
         Stirs(r), Reports(r), Quietly(r) \/ Files(r) \/ Publishes(r)
  PROVE  Reported'
<1> SUFFICES ASSUME platform' \/ ~raced'
             PROVE  /\ \A s \in Runs : at'[s] = "metadata" \/ outcome'[s] = "succeeded" =>
                                         Lists(Published', TaskOf[s])
                    /\ \A t \in Tasks : row'[t] = "succeeded" => Lists(Published', t)
  BY DEF Reported
<1>1. /\ \A t \in Tasks : Lists(Published, t) => Lists(Published', t)
      /\ at'[r] = "metadata" /\ at[r] # "metadata" => Lists(Published', TaskOf[r])
  BY OutputStep
<1>2. platform \/ ~raced
  BY DEF Stirs
<1>3. \A s \in Runs : TaskOf[s] \in Tasks
  BY RunsAssumption
<1>4. ASSUME NEW s \in Runs, at'[s] = "metadata" \/ outcome'[s] = "succeeded"
      PROVE  Lists(Published', TaskOf[s])
  <2>1. CASE at[s] = "metadata" \/ outcome[s] = "succeeded"
    BY <1>1, <1>2, <1>3, <2>1 DEF Reported
  <2>2. CASE ~(at[s] = "metadata" \/ outcome[s] = "succeeded")
    BY <1>1, <1>4, <2>2 DEF Stirs, Reports
  <2> QED
    BY <2>1, <2>2
<1>5. ASSUME NEW t \in Tasks, row'[t] = "succeeded"
      PROVE  Lists(Published', t)
  BY <1>1, <1>2, <1>5 DEF Reported, Reports
<1> QED
  BY <1>4, <1>5

-----------------------------------------------------------------------------
OutputsOK == SidecarOK /\ Reported

(* The outputs stay as they are described.                                  *)
LEMMA OutputsStep == RunsOK /\ OutputsOK /\ [Next]_vars => OutputsOK' /\ (~raced' => Keeps)
<1> SUFFICES ASSUME RunsOK, OutputsOK, [Next]_vars
             PROVE  OutputsOK' /\ (~raced' => Keeps)
  OBVIOUS
<1>1. CASE UNCHANGED vars
  <2>1. UNCHANGED <<outputVars, at, outcome, row, uploaded, raced>>
    BY <1>1 DEF vars, runVars, history
  <2>2. Listed' = Listed /\ Published' = Published
    BY <2>1 DEF Listed, Published, outputVars, fileVars
  <2>3. FilesOK'
    BY <2>1 DEF OutputsOK, SidecarOK, FilesOK, FileTypes, Text, Sound, outputVars, fileVars
  <2>4. Exclusive => Exclusive'
    BY <2>1, <2>2 DEF Exclusive, InSidecar, WithoutTask, outputVars, fileVars
  <2>5. Reported'
    BY <2>1, <2>2 DEF OutputsOK, Reported, outputVars
  <2> QED
    BY <2>1, <2>2, <2>3, <2>4, <2>5 DEF OutputsOK, SidecarOK, Keeps
<1>2. ASSUME NEW r \in Runs,
             \/ Begin(r) \/ Call(r) \/ AppendEvent(r) \/ Refused(r) \/ RenameFails(r)
             \/ Throws(r) \/ Rejects(r) \/ Crash(r)
      PROVE  OutputsOK' /\ (~raced' => Keeps)
  <2>1. Stirs(r) /\ Reports(r) /\ (Quietly(r) \/ Files(r) \/ Publishes(r))
    BY <1>2, OutputKinds
  <2>2. UNCHANGED platform
    BY <2>1 DEF Quietly, Files, Publishes, ReadSidecar, OpenTemporary, WriteTemporary, Rename,
       AddArtifact, outputVars
  <2> QED
    BY <2>1, <2>2, OutputStep, ReportedStep DEF OutputsOK
<1> QED
  BY <1>1, <1>2 DEF Next

(* That is what the properties say.                                         *)
LEMMA OutputsOKMeans ==
  OutputsOK => /\ SucceededIsListed /\ ListedOnce
               /\ (~raced /\ sidecar # NoFile => content[sidecar].text = "whole")
<1> SUFFICES ASSUME OutputsOK
             PROVE  /\ SucceededIsListed /\ ListedOnce
                    /\ (~raced /\ sidecar # NoFile => content[sidecar].text = "whole")
  OBVIOUS
<1>1. FilesOK /\ Sound(Listed)
  BY ListedSound DEF OutputsOK, SidecarOK
<1>2. Published \subseteq uploaded
  BY <1>1 DEF Published, FilesOK, Sound
<1>3. SucceededIsListed
  BY <1>2 DEF OutputsOK, Reported, SucceededIsListed, Lists
<1>4. ListedOnce
  BY <1>1 DEF ListedOnce, FilesOK, Sound
<1> QED
  BY <1>3, <1>4 DEF OutputsOK, SidecarOK, Exclusive

-----------------------------------------------------------------------------
PublicationOK == RunsOK /\ LogOK /\ RecordsOK /\ OutputsOK

(* The invariants hold together.                                            *)
LEMMA PublicationStays == Spec => []PublicationOK
<1>1. Init => PublicationOK
  BY RunsStart, LogStarts, RecordsStart, SidecarStarts, ReportedStarts
     DEF PublicationOK, OutputsOK
<1>2. PublicationOK /\ [Next]_vars => PublicationOK'
  BY RunsStep, LogStep, RecordsStep, OutputsStep DEF PublicationOK
<1> QED
  BY <1>1, <1>2, PTL DEF Spec

(* No append of a run is lost or comes out of order, and the numbers of a   *)
(* log have no gap, however many runs append to it and retry.               *)
THEOREM LogsAreComplete == Spec => []LogIsComplete
<1>1. PublicationOK => LogIsComplete
  BY LogOKIsComplete DEF PublicationOK
<1> QED
  BY <1>1, PublicationStays, PTL

(* Runs that come one after the other, and get to record their outcomes,    *)
(* leave a row, a log and an attempt that tell the same.                    *)
THEOREM RecordsAlwaysAgree == Spec => []RecordsAgree
<1>1. PublicationOK => RecordsAgree
  BY RecordsOKAgree DEF PublicationOK
<1> QED
  BY <1>1, PublicationStays, PTL

(* A task that is reported as succeeded has an output whose image is there. *)
THEOREM SucceededAreListed == Spec => []SucceededIsListed
<1>1. PublicationOK => SucceededIsListed
  BY OutputsOKMeans DEF PublicationOK
<1> QED
  BY <1>1, PublicationStays, PTL

(* The sidecar lists a task once, and a run adds one artifact at most.      *)
THEOREM ListedAtMostOnce == Spec => []ListedOnce
<1>1. PublicationOK => ListedOnce
  BY OutputsOKMeans DEF PublicationOK
<1> QED
  BY <1>1, PublicationStays, PTL

(* The sidecar is never seen half written and keeps what was listed, as     *)
(* long as no two runs are inside it together.                              *)
THEOREM OutputsAreKept == Spec => OutputsKept
<1>1. PublicationOK /\ PublicationOK' /\ [Next]_vars =>
        (~raced' => /\ sidecar' # NoFile => content'[sidecar'].text = "whole"
                    /\ \A t \in Tasks : Lists(Listed, t) => Lists(Listed', t))
  <2> SUFFICES ASSUME PublicationOK, PublicationOK', [Next]_vars, ~raced'
               PROVE  /\ sidecar' # NoFile => content'[sidecar'].text = "whole"
                      /\ \A t \in Tasks : Lists(Listed, t) => Lists(Listed', t)
    OBVIOUS
  <2>1. Keeps
    BY OutputsStep DEF PublicationOK
  <2>2. Exclusive'
    BY DEF PublicationOK, OutputsOK, SidecarOK
  <2> QED
    BY <2>1, <2>2 DEF Keeps, Exclusive
<1>2. PublicationOK /\ PublicationOK' /\ [Next]_vars =>
        [~raced' => /\ sidecar' # NoFile => content'[sidecar'].text = "whole"
                    /\ \A t \in Tasks : Lists(Listed, t) => Lists(Listed', t)]_vars
  BY <1>1
<1> QED
  BY <1>2, PublicationStays, PTL DEF Spec, OutputsKept
=============================================================================
