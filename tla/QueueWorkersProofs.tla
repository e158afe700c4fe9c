-------------------------- MODULE QueueWorkersProofs --------------------------
(***************************************************************************)
(* What is true of the queue for all workers, processes, jobs and timings.  *)
(*                                                                          *)
(* First what the operators of RedisQueue and QueueWorkers do to the        *)
(* sequences and the sorted sets they work on.                              *)
(*                                                                          *)
(* Then type correctness, NoJobLost, NoSpareToken, and that the queue keeps *)
(* its promise.  NoJobLost is not inductive: an ack may only forget a job   *)
(* whose outcome is on record (SettledOnRecord), and a handler may only     *)
(* complete a job that was enqueued (KnownJobs).  BatchLength makes sense   *)
(* for finite sorted sets only (FiniteKeys).                                *)
(*                                                                          *)
(* Then what holds because workers are prompt: SingleReservation and        *)
(* AttemptsAccounted.  Prompt is what validateWorkerOptions is there for:   *)
(* from the call that reserves a job to the last that settles it takes less *)
(* than the life of the reservation.  The bounds on time of QueueWorkers    *)
(* (MayWait) make that a bound on every state (Timely).  SingleReservation  *)
(* is not inductive: a worker keeps its reservation only if that outlives   *)
(* everything the worker still has to do (HeldAlone), and nobody else is    *)
(* handed the job only if it is in one place (Apart).  Neither is           *)
(* AttemptsAccounted: one fault may close the client on several workers, so *)
(* a fault that has happened may still cost a job an attempt.  Threats says *)
(* which processes may yet do so, and CountOK counts them.                  *)
(*                                                                          *)
(* Last what late workers cannot do: ReservationsFenced, as long as no      *)
(* release makes a twin (NoTwins).  The attempts tell the readers of one    *)
(* copy apart (ServedOnce) only if the copy is in one place (CopiesApart).  *)
(***************************************************************************)
EXTENDS QueueWorkers, FiniteSetTheorems, SequenceTheorems, TLAPS

-----------------------------------------------------------------------------
(* Sequences.                                                               *)

(* The elements of a sequence over S are in S.                              *)
LEMMA ToSetType ==
  ASSUME NEW S, NEW s \in Seq(S)
  PROVE  ToSet(s) \subseteq S
  BY DEF ToSet

(* RPUSH adds one element.                                                  *)
LEMMA ToSetAppend ==
  ASSUME NEW S, NEW s \in Seq(S), NEW x \in S
  PROVE  ToSet(Append(s, x)) = ToSet(s) \cup {x}
<1> DEFINE t == Append(s, x)
<1>1. /\ t \in Seq(S) /\ Len(t) = Len(s) + 1 /\ t[Len(t)] = x
      /\ \A i \in 1..Len(s) : t[i] = s[i]
  BY AppendProperties
<1>2. DOMAIN t = DOMAIN s \cup {Len(s) + 1}
  BY <1>1
<1> QED
  BY <1>1, <1>2 DEF ToSet

(* Concatenation joins the elements.                                        *)
LEMMA ToSetConcat ==
  ASSUME NEW S, NEW s \in Seq(S), NEW t \in Seq(S)
  PROVE  ToSet(s \o t) = ToSet(s) \cup ToSet(t)
<1>1. /\ Len(s \o t) = Len(s) + Len(t)
      /\ \A i \in 1..Len(s) : (s \o t)[i] = s[i]
      /\ \A i \in 1..Len(t) : (s \o t)[Len(s) + i] = t[i]
      /\ s \o t \in Seq(S)
  BY ConcatProperties
<1>2. ASSUME NEW i \in DOMAIN (s \o t)
      PROVE  (s \o t)[i] \in ToSet(s) \cup ToSet(t)
  <2>1. CASE i \in 1..Len(s)
    BY <1>1, <2>1 DEF ToSet
  <2>2. CASE i \notin 1..Len(s)
    <3>1. /\ i - Len(s) \in 1..Len(t)
          /\ i = Len(s) + (i - Len(s))
      BY <1>1, <2>2
    <3> QED
      BY <1>1, <3>1 DEF ToSet
  <2> QED
    BY <2>1, <2>2
<1>3. ASSUME NEW i \in DOMAIN s
      PROVE  s[i] \in ToSet(s \o t)
  BY <1>1 DEF ToSet
<1>4. ASSUME NEW i \in DOMAIN t
      PROVE  t[i] \in ToSet(s \o t)
  <2>1. Len(s) + i \in DOMAIN (s \o t)
    BY <1>1
  <2> QED
    BY <1>1, <2>1 DEF ToSet
<1> QED
  BY <1>2, <1>3, <1>4 DEF ToSet

(* LPOP takes one element and leaves the others.                            *)
LEMMA ToSetHeadTail ==
  ASSUME NEW S, NEW s \in Seq(S), s # <<>>
  PROVE  ToSet(s) = {Head(s)} \cup ToSet(Tail(s))
<1>1. /\ Len(s) \in Nat \ {0} /\ Tail(s) \in Seq(S)
      /\ Len(Tail(s)) = Len(s) - 1
      /\ \A i \in 1..Len(Tail(s)) : Tail(s)[i] = s[i + 1]
      /\ Head(s) = s[1]
  BY HeadTailProperties, EmptySeq
<1>2. ASSUME NEW i \in DOMAIN s
      PROVE  s[i] \in {Head(s)} \cup ToSet(Tail(s))
  <2>1. CASE i = 1
    BY <1>1, <2>1
  <2>2. CASE i # 1
    <3>1. i - 1 \in DOMAIN Tail(s) /\ Tail(s)[i - 1] = s[i]
      BY <1>1, <2>2
    <3> QED
      BY <3>1 DEF ToSet
  <2> QED
    BY <2>1, <2>2
<1>3. ASSUME NEW i \in DOMAIN Tail(s)
      PROVE  Tail(s)[i] \in ToSet(s)
  <2>1. i + 1 \in DOMAIN s /\ Tail(s)[i] = s[i + 1]
    BY <1>1
  <2> QED
    BY <2>1 DEF ToSet
<1>4. Head(s) \in ToSet(s)
  BY <1>1 DEF ToSet
<1> QED
  BY <1>2, <1>3, <1>4 DEF ToSet

(* A line of calls without one of them is still a line of calls.            *)
LEMMA WithoutType ==
  ASSUME NEW S, NEW s \in Seq(S), NEW x
  PROVE  Without(s, x) \in Seq(S)
<1>1. CASE x \in ToSet(s)
  <2> DEFINE i == CHOOSE i \in DOMAIN s : s[i] = x
  <2>1. i \in 1..Len(s)
    BY <1>1 DEF ToSet
  <2> HIDE DEF i
  <2>2. SubSeq(s, 1, i - 1) \in Seq(S) /\ SubSeq(s, i + 1, Len(s)) \in Seq(S)
    BY <2>1
  <2>3. Without(s, x) = SubSeq(s, 1, i - 1) \o SubSeq(s, i + 1, Len(s))
    BY <1>1 DEF Without, RemoveAt, i
  <2> QED
    BY <2>2, <2>3
<1>2. CASE x \notin ToSet(s)
  BY <1>2 DEF Without
<1> QED
  BY <1>1, <1>2

-----------------------------------------------------------------------------
(* Sorted sets.                                                             *)

(* ZAdd keeps the type, and adds the member.                                *)
LEMMA ZAddProperties ==
  ASSUME NEW zset, IsZSet(zset), NEW member \in Payload, NEW score \in Nat
  PROVE  /\ IsZSet(ZAdd(zset, member, score))
         /\ DOMAIN ZAdd(zset, member, score) = DOMAIN zset \cup {member}
  BY DEF IsZSet, ZAdd

(* ZRem keeps the type, and removes the members.                            *)
LEMMA ZRemProperties ==
  ASSUME NEW zset, IsZSet(zset), NEW members
  PROVE  /\ IsZSet(ZRem(zset, members))
         /\ DOMAIN ZRem(zset, members) = DOMAIN zset \ members
  BY DEF IsZSet, ZRem

(* What migrate_expired moves is a list of members of the sorted set.       *)
LEMMA BatchProperties ==
  ASSUME NEW zset, IsZSet(zset), IsFiniteSet(DOMAIN zset), NEW asked,
         NEW batch \in Batches(zset, asked)
  PROVE  batch \in Seq(Payload) /\ ToSet(batch) \subseteq DOMAIN zset
<1> DEFINE due == Due(zset, asked)
<1>1. due \subseteq DOMAIN zset
  BY DEF Due
<1>2. Cardinality(due) \in Nat
  BY <1>1, FS_Subset, FS_CardinalityType
<1>3. BatchLength(due) \in Nat
  BY <1>2, QueueAssumption DEF BatchLength
<1>4. batch \in [1..BatchLength(due) -> due]
  BY DEF Batches
<1>5. due \subseteq Payload
  BY <1>1 DEF IsZSet
<1> HIDE DEF due
<1>6. batch \in Seq(due)
  BY <1>3, <1>4
<1>7. batch \in Seq(Payload)
  BY <1>3, <1>4, <1>5
<1>8. ToSet(batch) \subseteq due
  BY <1>6, ToSetType
<1> QED
  BY <1>1, <1>7, <1>8

-----------------------------------------------------------------------------
(* The scripts.  Redis holds finitely many payloads.                        *)

FiniteKeys == IsFiniteSet(DOMAIN delayed) /\ IsFiniteSet(DOMAIN reserved)

QueueOK == QueueTypeOK /\ FiniteKeys

(* A job that is enqueued is stored.                                        *)
LEMMA EnqueueStores ==
  ASSUME QueueOK, NEW job \in Jobs, NEW delay \in Nat,
         EnqueueScript(job, delay), now' = now
  PROVE  /\ QueueOK'
         /\ StoredIds' = StoredIds \cup {job}
         /\ NoSpareToken => NoSpareToken'
<1> DEFINE e == [id |-> job, attempts |-> 0, availableAt |-> now + delay]
<1>1. e \in Payload /\ e.id = job /\ now \in Nat /\ now + delay \in Nat
  BY DEF QueueOK, QueueTypeOK, Payload
<1>2. CASE delay = 0
  <2>1. /\ ready' = Append(ready, e) /\ notify' = notify + 1
        /\ UNCHANGED <<delayed, reserved>>
    BY <1>2 DEF EnqueueScript
  <2> HIDE DEF e
  <2>2. ready \in Seq(Payload) /\ ToSet(ready') = ToSet(ready) \cup {e}
    BY <1>1, <2>1, ToSetAppend DEF QueueOK, QueueTypeOK
  <2>3. QueueOK'
    BY <1>1, <2>1, <2>2 DEF QueueOK, QueueTypeOK, FiniteKeys, IsZSet
  <2>4. Stored' = Stored \cup {e}
    BY <2>1, <2>2 DEF Stored
  <2>5. NoSpareToken => NoSpareToken'
    BY <1>1, <2>1, <2>2 DEF NoSpareToken, QueueOK, QueueTypeOK
  <2> QED
    BY <1>1, <2>3, <2>4, <2>5 DEF StoredIds
<1>3. CASE delay > 0
  <2>1. /\ delayed' = ZAdd(delayed, e, now + delay)
        /\ UNCHANGED <<ready, reserved, notify>>
    BY <1>3 DEF EnqueueScript
  <2> HIDE DEF e
  <2>2. IsZSet(delayed') /\ DOMAIN delayed' = DOMAIN delayed \cup {e}
    BY <1>1, <2>1, ZAddProperties DEF QueueOK, QueueTypeOK
  <2>3. IsFiniteSet(DOMAIN delayed')
    BY <2>2, FS_AddElement DEF QueueOK, FiniteKeys
  <2>4. QueueOK'
    BY <2>1, <2>2, <2>3 DEF QueueOK, QueueTypeOK, FiniteKeys, IsZSet
  <2>5. Stored' = Stored \cup {e}
    BY <2>1, <2>2 DEF Stored
  <2>6. NoSpareToken => NoSpareToken'
    BY <2>1 DEF NoSpareToken
  <2> QED
    BY <1>1, <2>4, <2>5, <2>6 DEF StoredIds
<1> QED
  BY <1>2, <1>3

(* The attempt counter of a payload does not change whose it is.            *)
LEMMA CountAttemptKeepsId ==
  ASSUME NEW p \in Payload
  PROVE  CountAttempt(p) \in Payload /\ CountAttempt(p).id = p.id
  BY DEF CountAttempt, Payload

(* pop.lua moves a payload from the list to the reservations.               *)
LEMMA PopKeeps ==
  ASSUME QueueOK, NEW asked \in Nat, ready # <<>>, PopScript(asked), now' = now
  PROVE  /\ QueueOK'
         /\ StoredIds' = StoredIds
         /\ NoSpareToken => NoSpareToken'
<1> DEFINE p == CountAttempt(Head(ready))
<1>1. /\ ready \in Seq(Payload) /\ Head(ready) \in Payload
      /\ Tail(ready) \in Seq(Payload) /\ Len(Tail(ready)) = Len(ready) - 1
      /\ notify \in Nat
  BY HeadTailProperties DEF QueueOK, QueueTypeOK
<1>2. p \in Payload /\ p.id = Head(ready).id
  BY <1>1, CountAttemptKeepsId
<1>3. /\ ready' = Tail(ready)
      /\ reserved' = ZAdd(reserved, p, ReservedUntil(asked))
      /\ notify' = IF notify > 0 THEN notify - 1 ELSE 0
      /\ delayed' = delayed
  BY DEF PopScript
<1> HIDE DEF p
<1>4. ReservedUntil(asked) \in Nat
  BY QueueAssumption DEF ReservedUntil
<1>5. IsZSet(reserved') /\ DOMAIN reserved' = DOMAIN reserved \cup {p}
  BY <1>2, <1>3, <1>4, ZAddProperties DEF QueueOK, QueueTypeOK
<1>6. IsFiniteSet(DOMAIN reserved')
  BY <1>5, FS_AddElement DEF QueueOK, FiniteKeys
<1>7. QueueOK'
  BY <1>1, <1>3, <1>5, <1>6 DEF QueueOK, QueueTypeOK, FiniteKeys, IsZSet
<1>8. ToSet(ready) = {Head(ready)} \cup ToSet(ready')
  BY <1>1, <1>3, ToSetHeadTail
<1>9. StoredIds' = StoredIds
  <2>1. Stored \cup {p} = Stored' \cup {Head(ready)}
    BY <1>3, <1>5, <1>8 DEF Stored
  <2>2. p \in Stored' /\ Head(ready) \in Stored
    BY <1>5, <1>8 DEF Stored
  <2> QED
    BY <1>2, <2>1, <2>2 DEF StoredIds
<1>10. NoSpareToken => NoSpareToken'
  BY <1>1, <1>3 DEF NoSpareToken
<1> QED
  BY <1>7, <1>9, <1>10

(* ack lets go of one payload, and so of one job at most.                   *)
LEMMA AckForgets ==
  ASSUME QueueOK, NEW p \in Payload, AckCommand(p), now' = now
  PROVE  /\ QueueOK'
         /\ StoredIds' \subseteq StoredIds
         /\ StoredIds \subseteq StoredIds' \cup {p.id}
         /\ NoSpareToken => NoSpareToken'
<1>1. /\ reserved' = ZRem(reserved, {p}) /\ UNCHANGED <<ready, delayed, notify>>
  BY DEF AckCommand
<1>2. IsZSet(reserved') /\ DOMAIN reserved' = DOMAIN reserved \ {p}
  BY <1>1, ZRemProperties DEF QueueOK, QueueTypeOK
<1>3. IsFiniteSet(DOMAIN reserved')
  BY <1>2, FS_RemoveElement DEF QueueOK, FiniteKeys
<1>4. QueueOK'
  BY <1>1, <1>2, <1>3 DEF QueueOK, QueueTypeOK, FiniteKeys, IsZSet
<1>5. Stored' \subseteq Stored /\ Stored \subseteq Stored' \cup {p}
  BY <1>1, <1>2 DEF Stored
<1>6. NoSpareToken => NoSpareToken'
  BY <1>1 DEF NoSpareToken
<1> QED
  BY <1>4, <1>5, <1>6 DEF StoredIds

(* release.lua keeps the job, or stores it anew.                            *)
LEMMA ReleaseStores ==
  ASSUME QueueOK, NEW p \in Payload, NEW availableAt \in Nat,
         ReleaseScript(p, availableAt), now' = now
  PROVE  /\ QueueOK'
         /\ StoredIds' = StoredIds \cup {p.id}
         /\ NoSpareToken => NoSpareToken'
<1> DEFINE again == [p EXCEPT !.availableAt = availableAt]
<1>1. /\ reserved' = ZRem(reserved, {p})
      /\ delayed' = ZAdd(delayed, again, availableAt)
      /\ UNCHANGED <<ready, notify>>
  BY DEF ReleaseScript
<1>2. again \in Payload /\ again.id = p.id
  BY DEF Payload
<1> HIDE DEF again
<1>3. /\ IsZSet(reserved') /\ DOMAIN reserved' = DOMAIN reserved \ {p}
      /\ IsZSet(delayed') /\ DOMAIN delayed' = DOMAIN delayed \cup {again}
  BY <1>1, <1>2, ZRemProperties, ZAddProperties DEF QueueOK, QueueTypeOK
<1>4. IsFiniteSet(DOMAIN reserved') /\ IsFiniteSet(DOMAIN delayed')
  BY <1>3, FS_RemoveElement, FS_AddElement DEF QueueOK, FiniteKeys
<1>5. QueueOK'
  BY <1>1, <1>3, <1>4 DEF QueueOK, QueueTypeOK, FiniteKeys, IsZSet
<1>6. Stored' \cup {p} = Stored \cup {p, again} /\ again \in Stored'
  BY <1>1, <1>3 DEF Stored
<1>7. StoredIds' = StoredIds \cup {p.id}
  BY <1>2, <1>6 DEF StoredIds
<1>8. NoSpareToken => NoSpareToken'
  BY <1>1 DEF NoSpareToken
<1> QED
  BY <1>5, <1>7, <1>8

(* migrate_expired moves payloads to the list, a token for each.            *)
LEMMA MigrateDelayedKeeps ==
  ASSUME QueueOK, NEW asked, NEW batch \in Batches(delayed, asked),
         MigrateFromDelayed(batch), now' = now
  PROVE  /\ QueueOK'
         /\ StoredIds' = StoredIds
         /\ NoSpareToken => NoSpareToken'
<1>1. batch \in Seq(Payload) /\ ToSet(batch) \subseteq DOMAIN delayed
  BY BatchProperties DEF QueueOK, QueueTypeOK, FiniteKeys
<1>2. /\ delayed' = ZRem(delayed, ToSet(batch))
      /\ ready' = ready \o batch /\ notify' = notify + Len(batch)
      /\ UNCHANGED reserved
  BY DEF MigrateFromDelayed
<1>3. IsZSet(delayed') /\ DOMAIN delayed' = DOMAIN delayed \ ToSet(batch)
  BY <1>2, ZRemProperties DEF QueueOK, QueueTypeOK
<1>4. IsFiniteSet(DOMAIN delayed')
  BY <1>3, FS_Subset DEF QueueOK, FiniteKeys
<1>5. /\ ready \in Seq(Payload) /\ notify \in Nat /\ Len(batch) \in Nat
      /\ ready' \in Seq(Payload) /\ Len(ready') = Len(ready) + Len(batch)
      /\ ToSet(ready') = ToSet(ready) \cup ToSet(batch)
  BY <1>1, <1>2, ToSetConcat, ConcatProperties, LenProperties DEF QueueOK, QueueTypeOK
<1>6. QueueOK'
  BY <1>2, <1>3, <1>4, <1>5 DEF QueueOK, QueueTypeOK, FiniteKeys, IsZSet
<1>7. Stored' = Stored
  BY <1>1, <1>2, <1>3, <1>5 DEF Stored
<1>8. NoSpareToken => NoSpareToken'
  BY <1>2, <1>5 DEF NoSpareToken
<1> QED
  BY <1>6, <1>7, <1>8 DEF StoredIds

(* The same of reservations that expired.                                   *)
LEMMA MigrateReservedKeeps ==
  ASSUME QueueOK, NEW asked, NEW batch \in Batches(reserved, asked),
         MigrateFromReserved(batch), now' = now
  PROVE  /\ QueueOK'
         /\ StoredIds' = StoredIds
         /\ NoSpareToken => NoSpareToken'
<1>1. batch \in Seq(Payload) /\ ToSet(batch) \subseteq DOMAIN reserved
  BY BatchProperties DEF QueueOK, QueueTypeOK, FiniteKeys
<1>2. /\ reserved' = ZRem(reserved, ToSet(batch))
      /\ ready' = ready \o batch /\ notify' = notify + Len(batch)
      /\ UNCHANGED delayed
  BY DEF MigrateFromReserved
<1>3. IsZSet(reserved') /\ DOMAIN reserved' = DOMAIN reserved \ ToSet(batch)
  BY <1>2, ZRemProperties DEF QueueOK, QueueTypeOK
<1>4. IsFiniteSet(DOMAIN reserved')
  BY <1>3, FS_Subset DEF QueueOK, FiniteKeys
<1>5. /\ ready \in Seq(Payload) /\ notify \in Nat /\ Len(batch) \in Nat
      /\ ready' \in Seq(Payload) /\ Len(ready') = Len(ready) + Len(batch)
      /\ ToSet(ready') = ToSet(ready) \cup ToSet(batch)
  BY <1>1, <1>2, ToSetConcat, ConcatProperties, LenProperties DEF QueueOK, QueueTypeOK
<1>6. QueueOK'
  BY <1>2, <1>3, <1>4, <1>5 DEF QueueOK, QueueTypeOK, FiniteKeys, IsZSet
<1>7. Stored' = Stored
  BY <1>1, <1>2, <1>3, <1>5 DEF Stored
<1>8. NoSpareToken => NoSpareToken'
  BY <1>2, <1>5 DEF NoSpareToken
<1> QED
  BY <1>6, <1>7, <1>8 DEF StoredIds

(* BLPOP takes a token and nothing else.                                    *)
LEMMA TakeTokenKeeps ==
  ASSUME QueueOK, TakeToken, now' = now
  PROVE  /\ QueueOK'
         /\ StoredIds' = StoredIds
         /\ NoSpareToken => NoSpareToken'
<1>1. notify' \in Nat /\ notify' <= notify /\ UNCHANGED <<ready, delayed, reserved>>
  BY DEF TakeToken, QueueOK, QueueTypeOK
<1>2. QueueOK'
  BY <1>1 DEF QueueOK, QueueTypeOK, FiniteKeys, IsZSet
<1>3. NoSpareToken => NoSpareToken'
  BY <1>1 DEF NoSpareToken, QueueOK, QueueTypeOK
<1> QED
  BY <1>1, <1>2, <1>3 DEF StoredIds, Stored

(* A step that leaves the keys alone.                                       *)
LEMMA NothingStored ==
  ASSUME QueueOK, UNCHANGED queueVars, now' \in Nat
  PROVE  /\ QueueOK'
         /\ StoredIds' = StoredIds
         /\ NoSpareToken => NoSpareToken'
<1>1. QueueOK'
  BY DEF queueVars, QueueOK, QueueTypeOK, FiniteKeys, IsZSet
<1> QED
  BY <1>1 DEF queueVars, StoredIds, Stored, NoSpareToken

(* The queue is empty when it is new.                                       *)
LEMMA NewQueue ==
  ASSUME QueueInit
  PROVE  QueueOK /\ StoredIds = {} /\ NoSpareToken
<1>1. QueueTypeOK
  BY DEF QueueInit, QueueTypeOK, IsZSet
<1>2. FiniteKeys
  BY FS_EmptySet DEF QueueInit, FiniteKeys
<1>3. Stored = {}
  BY DEF QueueInit, Stored, ToSet
<1> QED
  BY <1>1, <1>2, <1>3 DEF QueueOK, StoredIds, NoSpareToken, QueueInit

-----------------------------------------------------------------------------
(* Types, and that no job is lost.                                          *)

ControlOK ==
  /\ pc \in [Workers -> Location]
  /\ held \in [Workers -> Payload \cup {NoJob}]
  /\ \A w \in Workers : pc[w] \in Settling \cup {"handle"} => held[w] # NoJob
  /\ since \in [Workers -> Nat]
  /\ pipeline \in [Processes -> Seq(Workers)]

RestOK ==
  /\ stopping \in [Workers -> BOOLEAN]
  /\ open \in [Processes -> BOOLEAN]
  /\ orphans \in [Processes -> SUBSET Jobs]
  /\ enqueued \subseteq Jobs
  /\ completed \subseteq enqueued
  /\ failed \subseteq Payload
  /\ faults \in Nat

KnownJobs ==
  /\ StoredIds \subseteq enqueued
  /\ \A w \in Workers : held[w] # NoJob => held[w].id \in enqueued

SettledOnRecord ==
  \A w \in Workers :
    /\ pc[w] = "ack" => held[w].id \in completed
    /\ pc[w] = "ackFailed" => held[w].id \in FailedIds

Inv ==
  /\ QueueOK /\ ControlOK /\ RestOK
  /\ KnownJobs /\ SettledOnRecord
  /\ NoJobLost /\ NoSpareToken

(* What a step of the queue is to those who only know its promise.          *)
PromiseStep == [Promise!Next]_(Promise!vars)

(* The invariant contains the type invariant.                               *)
LEMMA InvImpliesTypeOK == Inv => TypeOK
  BY DEF Inv, QueueOK, ControlOK, RestOK, TypeOK

-----------------------------------------------------------------------------
(* Goto.                                                                    *)

(* A worker that moves on with what it holds leaves the control state sound.*)
LEMMA GotoSame ==
  ASSUME ControlOK, NEW w \in Workers, NEW location \in Location,
         Goto(w, location), now \in Nat, UNCHANGED held,
         location \in Settling \cup {"handle"} => held[w] # NoJob
  PROVE  /\ ControlOK'
         /\ pc' = [pc EXCEPT ![w] = location]
<1> DEFINE p == ProcessOf[w]
           others == Without(pipeline[p], w)
<1>1. p \in Processes /\ others \in Seq(Workers)
  BY WorkerAssumption, WithoutType DEF ControlOK
<1> HIDE DEF p, others
<1>2. Append(others, w) \in Seq(Workers)
  BY <1>1
<1>3. /\ pc' = [pc EXCEPT ![w] = location]
      /\ since' = [since EXCEPT ![w] = now]
      /\ pipeline' = [pipeline EXCEPT ![p] = IF location \in Calls THEN Append(others, w) ELSE others]
  BY DEF Goto, p, others
<1>4. pipeline' \in [Processes -> Seq(Workers)]
  BY <1>1, <1>2, <1>3 DEF ControlOK
<1> QED
  BY <1>3, <1>4 DEF ControlOK

(* So does one that drops it.                                               *)
LEMMA GotoDropping ==
  ASSUME ControlOK, NEW w \in Workers, NEW location \in Location,
         Goto(w, location), now \in Nat, Drop(w),
         location \notin Settling \cup {"handle"}
  PROVE  /\ ControlOK'
         /\ pc' = [pc EXCEPT ![w] = location]
         /\ held' = [held EXCEPT ![w] = NoJob]
<1> DEFINE p == ProcessOf[w]
           others == Without(pipeline[p], w)
<1>1. p \in Processes /\ others \in Seq(Workers)
  BY WorkerAssumption, WithoutType DEF ControlOK
<1> HIDE DEF p, others
<1>2. Append(others, w) \in Seq(Workers)
  BY <1>1
<1>3. /\ pc' = [pc EXCEPT ![w] = location]
      /\ since' = [since EXCEPT ![w] = now]
      /\ pipeline' = [pipeline EXCEPT ![p] = IF location \in Calls THEN Append(others, w) ELSE others]
      /\ held' = [held EXCEPT ![w] = NoJob]
  BY DEF Goto, Drop, p, others
<1>4. pipeline' \in [Processes -> Seq(Workers)]
  BY <1>1, <1>2, <1>3 DEF ControlOK
<1> QED
  BY <1>3, <1>4 DEF ControlOK

-----------------------------------------------------------------------------
(* Steps that only move workers.                                            *)

(* A step that neither stores nor settles a job is a stutter of the promise.*)
LEMMA Stutters ==
  ASSUME StoredIds' = StoredIds, UNCHANGED <<enqueued, completed, failed>>
  PROVE  PromiseStep /\ FailedIds' = FailedIds /\ (NoJobLost => NoJobLost')
  BY DEF PromiseStep, Promise!vars, FailedIds, NoJobLost

(* A worker goes on, and keeps what it holds.                               *)
LEMMA GoesOn ==
  ASSUME Inv, NEW w \in Workers, NEW location \in Location \ {"ack", "ackFailed"},
         Goto(w, location), UNCHANGED <<held, enqueued, completed, failed>>,
         location \in Settling \cup {"handle"} => held[w] # NoJob,
         RestOK', QueueOK', StoredIds' = StoredIds, NoSpareToken'
  PROVE  Inv' /\ PromiseStep
<1>1. ControlOK' /\ pc' = [pc EXCEPT ![w] = location]
  BY GotoSame DEF Inv, QueueOK, QueueTypeOK
<1>2. PromiseStep /\ FailedIds' = FailedIds /\ NoJobLost'
  BY Stutters DEF Inv
<1>3. SettledOnRecord'
  BY <1>1, <1>2 DEF Inv, ControlOK, SettledOnRecord
<1>4. KnownJobs'
  BY DEF Inv, KnownJobs
<1> QED
  BY <1>1, <1>2, <1>3, <1>4 DEF Inv

(* A worker gives up what it holds.                                         *)
LEMMA LetsGo ==
  ASSUME Inv, NEW w \in Workers, NEW location \in Location \ (Settling \cup {"handle"}),
         Goto(w, location), Drop(w), UNCHANGED <<enqueued, completed, failed>>,
         RestOK', QueueOK', NoSpareToken', StoredIds' \subseteq enqueued
  PROVE  /\ (QueueOK /\ ControlOK /\ RestOK /\ KnownJobs /\ SettledOnRecord /\ NoSpareToken)'
         /\ FailedIds' = FailedIds
<1>1. ControlOK' /\ pc' = [pc EXCEPT ![w] = location] /\ held' = [held EXCEPT ![w] = NoJob]
  BY GotoDropping DEF Inv, QueueOK, QueueTypeOK
<1>2. FailedIds' = FailedIds
  BY DEF FailedIds
<1>3. SettledOnRecord'
  BY <1>1, <1>2 DEF Inv, ControlOK, SettledOnRecord, Settling
<1>4. KnownJobs'
  BY <1>1 DEF Inv, KnownJobs, ControlOK
<1> QED
  BY <1>1, <1>2, <1>3, <1>4 DEF Inv

(* An ack forgets a job that is on record.                                  *)
LEMMA Forgets ==
  ASSUME Inv, NEW job \in completed \cup FailedIds,
         StoredIds' \subseteq StoredIds, StoredIds \subseteq StoredIds' \cup {job},
         UNCHANGED <<enqueued, completed, failed>>
  PROVE  PromiseStep /\ NoJobLost'
<1>1. FailedIds' = FailedIds
  BY DEF FailedIds
<1>2. job \in Jobs
  BY DEF Inv, RestOK, FailedIds, Payload
<1>3. StoredIds' = StoredIds \/ StoredIds' = StoredIds \ {job}
  OBVIOUS
<1>4. PromiseStep
  <2>1. CASE StoredIds' = StoredIds
    BY <1>1, <2>1 DEF PromiseStep, Promise!vars
  <2>2. CASE StoredIds' = StoredIds \ {job}
    <3>1. Promise!Forget(job)
      BY <1>1, <2>2 DEF Promise!Forget
    <3> QED
      BY <1>2, <3>1 DEF PromiseStep, Promise!Next
  <2> QED
    BY <1>3, <2>1, <2>2
<1>5. NoJobLost'
  BY <1>1 DEF Inv, NoJobLost
<1> QED
  BY <1>4, <1>5

-----------------------------------------------------------------------------
(* The steps of the others: the API that enqueues, the clock.               *)

(* An enqueued job becomes pending, and known.                              *)
LEMMA EnqueueStep ==
  ASSUME Inv, NEW job \in Jobs, NEW delay \in Delays, Enqueue(job, delay)
  PROVE  Inv' /\ PromiseStep
<1>1. /\ job \notin enqueued /\ EnqueueScript(job, delay)
      /\ enqueued' = enqueued \cup {job}
      /\ now' = now /\ UNCHANGED <<workerVars, completed, failed, faults>>
  BY DEF Enqueue
<1>2. delay \in Nat
  BY WorkerAssumption
<1>3. QueueOK' /\ StoredIds' = StoredIds \cup {job} /\ NoSpareToken'
  BY <1>1, <1>2, EnqueueStores DEF Inv
<1>4. FailedIds' = FailedIds
  BY <1>1 DEF FailedIds
<1>5. (ControlOK /\ RestOK /\ KnownJobs /\ SettledOnRecord)'
  BY <1>1, <1>3, <1>4 DEF Inv, workerVars, ControlOK, RestOK, KnownJobs, SettledOnRecord
<1>6. NoJobLost'
  BY <1>1, <1>3, <1>4 DEF Inv, NoJobLost
<1>7. Promise!Submit(job)
  BY <1>1, <1>3, <1>4 DEF Promise!Submit
<1> QED
  BY <1>3, <1>5, <1>6, <1>7 DEF Inv, PromiseStep, Promise!Next

(* Time changes nothing that is stored.                                     *)
LEMMA TickStep ==
  ASSUME Inv, Tick
  PROVE  Inv' /\ PromiseStep
<1>1. now' \in Nat /\ UNCHANGED <<queueVars, workerVars, historyVars>>
  BY DEF Tick, Inv, QueueOK, QueueTypeOK
<1>2. QueueOK' /\ StoredIds' = StoredIds /\ NoSpareToken'
  BY <1>1, NothingStored DEF Inv
<1>3. PromiseStep /\ FailedIds' = FailedIds /\ NoJobLost'
  BY <1>1, <1>2, Stutters DEF Inv, historyVars
<1>4. (ControlOK /\ RestOK /\ KnownJobs /\ SettledOnRecord)'
  BY <1>1, <1>2, <1>3
     DEF Inv, workerVars, historyVars, ControlOK, RestOK, KnownJobs, SettledOnRecord
<1> QED
  BY <1>2, <1>3, <1>4 DEF Inv

-----------------------------------------------------------------------------
(* The steps of the loop.                                                   *)

(* The variables a step of the loop leaves alone keep their types.          *)
LEMMA RestSame ==
  ASSUME RestOK, UNCHANGED <<stopping, open, orphans, historyVars>>
  PROVE  RestOK' /\ UNCHANGED <<enqueued, completed, failed>>
  BY DEF RestOK, historyVars

(* A worker that begins a pass, or stops, stores nothing.                   *)
LEMMA BeginPassStep ==
  ASSUME Inv, NEW w \in Workers, BeginPass(w)
  PROVE  Inv' /\ PromiseStep
<1> DEFINE location == IF stopping[w] THEN "closeStopped" ELSE "migrateDelayed"
<1>1. /\ Goto(w, location)
      /\ UNCHANGED <<queueVars, now, held, stopping, open, orphans, historyVars>>
  BY DEF BeginPass
<1>2. location \in Location \ (Settling \cup {"handle"})
  BY DEF Location, Closing, Idling, Settling
<1> HIDE DEF location
<1>3. QueueOK' /\ StoredIds' = StoredIds /\ NoSpareToken'
  BY <1>1, NothingStored DEF Inv, QueueOK, QueueTypeOK
<1>4. RestOK' /\ UNCHANGED <<enqueued, completed, failed>>
  BY <1>1, RestSame DEF Inv
<1> QED
  BY <1>1, <1>2, <1>3, <1>4, GoesOn DEF Settling

(* Migration moves payloads and loses none.                                 *)
LEMMA MigrateDelayedStep ==
  ASSUME Inv, NEW w \in Workers, MigrateDelayed(w)
  PROVE  Inv' /\ PromiseStep
<1>1. PICK batch \in Batches(delayed, since[w]) :
        /\ MigrateFromDelayed(batch)
        /\ Goto(w, IF Len(batch) = BatchSize THEN "migrateDelayed" ELSE "migrateReserved")
  BY DEF MigrateDelayed
<1> DEFINE location == IF Len(batch) = BatchSize THEN "migrateDelayed" ELSE "migrateReserved"
<1>2. location \in Location \ (Settling \cup {"handle"})
  BY DEF Location, Closing, Idling, Settling
<1>3. Goto(w, location)
  BY <1>1
<1> HIDE DEF location
<1>4. UNCHANGED <<now, held, stopping, open, orphans, historyVars>>
  BY DEF MigrateDelayed
<1>5. QueueOK' /\ StoredIds' = StoredIds /\ NoSpareToken'
  BY <1>1, <1>4, MigrateDelayedKeeps DEF Inv
<1>6. RestOK' /\ UNCHANGED <<enqueued, completed, failed>>
  BY <1>4, RestSame DEF Inv
<1> QED
  BY <1>2, <1>3, <1>4, <1>5, <1>6, GoesOn DEF Settling

(* Nor does the migration of expired reservations.                          *)
LEMMA MigrateReservedStep ==
  ASSUME Inv, NEW w \in Workers, MigrateReserved(w)
  PROVE  Inv' /\ PromiseStep
<1>1. PICK batch \in Batches(reserved, since[w]) :
        /\ MigrateFromReserved(batch)
        /\ Goto(w, IF Len(batch) = BatchSize THEN "migrateReserved" ELSE "reserve")
  BY DEF MigrateReserved
<1> DEFINE location == IF Len(batch) = BatchSize THEN "migrateReserved" ELSE "reserve"
<1>2. location \in Location \ (Settling \cup {"handle"})
  BY DEF Location, Closing, Idling, Settling
<1>3. Goto(w, location)
  BY <1>1
<1> HIDE DEF location
<1>4. UNCHANGED <<now, held, stopping, open, orphans, historyVars>>
  BY DEF MigrateReserved
<1>5. QueueOK' /\ StoredIds' = StoredIds /\ NoSpareToken'
  BY <1>1, <1>4, MigrateReservedKeeps DEF Inv
<1>6. RestOK' /\ UNCHANGED <<enqueued, completed, failed>>
  BY <1>4, RestSame DEF Inv
<1> QED
  BY <1>2, <1>3, <1>4, <1>5, <1>6, GoesOn DEF Settling

(* A reserve that finds nothing stores nothing.                             *)
LEMMA ReserveNoneStep ==
  ASSUME Inv, NEW w \in Workers, ReserveNone(w)
  PROVE  Inv' /\ PromiseStep
<1> DEFINE location == IF stopping[w] THEN "closeStopped" ELSE "blocked"
<1>1. /\ Goto(w, location)
      /\ UNCHANGED <<queueVars, now, held, stopping, open, orphans, historyVars>>
  BY DEF ReserveNone
<1>2. location \in Location \ (Settling \cup {"handle"})
  BY DEF Location, Closing, Idling, Settling
<1> HIDE DEF location
<1>3. QueueOK' /\ StoredIds' = StoredIds /\ NoSpareToken'
  BY <1>1, NothingStored DEF Inv, QueueOK, QueueTypeOK
<1>4. RestOK' /\ UNCHANGED <<enqueued, completed, failed>>
  BY <1>1, RestSame DEF Inv
<1> QED
  BY <1>1, <1>2, <1>3, <1>4, GoesOn DEF Settling

(* A wake-up takes a token and no job.                                      *)
LEMMA WakeUpStep ==
  ASSUME Inv, NEW w \in Workers, WakeUp(w)
  PROVE  Inv' /\ PromiseStep
<1>1. /\ TakeToken /\ Goto(w, "loop")
      /\ UNCHANGED <<now, held, stopping, open, orphans, historyVars>>
  BY DEF WakeUp
<1>2. "loop" \in Location \ (Settling \cup {"handle"})
  BY DEF Location, Closing, Idling, Settling
<1>3. QueueOK' /\ StoredIds' = StoredIds /\ NoSpareToken'
  BY <1>1, TakeTokenKeeps DEF Inv
<1>4. RestOK' /\ UNCHANGED <<enqueued, completed, failed>>
  BY <1>1, RestSame DEF Inv
<1> QED
  BY <1>1, <1>2, <1>3, <1>4, GoesOn DEF Settling

(* A BLPOP that gives up stores nothing.                                    *)
LEMMA BlockTimeoutStep ==
  ASSUME Inv, NEW w \in Workers, BlockTimeout(w)
  PROVE  Inv' /\ PromiseStep
<1>1. /\ Goto(w, "loop")
      /\ UNCHANGED <<queueVars, now, held, stopping, open, orphans, historyVars>>
  BY DEF BlockTimeout
<1>2. "loop" \in Location \ (Settling \cup {"handle"})
  BY DEF Location, Closing, Idling, Settling
<1>3. QueueOK' /\ StoredIds' = StoredIds /\ NoSpareToken'
  BY <1>1, NothingStored DEF Inv, QueueOK, QueueTypeOK
<1>4. RestOK' /\ UNCHANGED <<enqueued, completed, failed>>
  BY <1>1, RestSame DEF Inv
<1> QED
  BY <1>1, <1>2, <1>3, <1>4, GoesOn DEF Settling

(* A job that is reserved is still stored, and its worker knows it.         *)
LEMMA ReserveJobStep ==
  ASSUME Inv, NEW w \in Workers, ReserveJob(w)
  PROVE  Inv' /\ PromiseStep
<1> DEFINE p == CountAttempt(Head(ready))
           location == IF Head(ready).id \in Malformed \cup Unhandled
                       THEN "saveFailed" ELSE "handle"
<1>1. /\ ready # <<>> /\ PopScript(since[w])
      /\ held' = [held EXCEPT ![w] = p]
      /\ Goto(w, location)
      /\ UNCHANGED <<now, stopping, open, orphans, historyVars>>
  BY DEF ReserveJob
<1>2. Head(ready) \in Payload /\ p \in Payload /\ p.id = Head(ready).id
  BY <1>1, CountAttemptKeepsId, HeadTailProperties DEF Inv, QueueOK, QueueTypeOK
<1>3. Head(ready).id \in StoredIds
  BY <1>1, ToSetHeadTail DEF Inv, QueueOK, QueueTypeOK, StoredIds, Stored
<1>4. location \in {"saveFailed", "handle"}
  OBVIOUS
<1> HIDE DEF p, location
<1>5. QueueOK' /\ StoredIds' = StoredIds /\ NoSpareToken'
  BY <1>1, PopKeeps DEF Inv, ControlOK
<1>6. RestOK' /\ UNCHANGED <<enqueued, completed, failed>>
  BY <1>1, RestSame DEF Inv
<1>7. PromiseStep /\ FailedIds' = FailedIds /\ NoJobLost'
  BY <1>5, <1>6, Stutters DEF Inv
<1>8. ControlOK' /\ pc' = [pc EXCEPT ![w] = location]
  <2>1. pc' = [pc EXCEPT ![w] = location] /\ location \in Location
    BY <1>1, <1>4 DEF Goto, Location, Settling
  <2>2. since' \in [Workers -> Nat]
    BY <1>1 DEF Goto, Inv, ControlOK, QueueOK, QueueTypeOK
  <2>3. pipeline' \in [Processes -> Seq(Workers)]
    <3> DEFINE q == ProcessOf[w]
               others == Without(pipeline[q], w)
    <3>1. q \in Processes /\ others \in Seq(Workers)
      BY WorkerAssumption, WithoutType DEF Inv, ControlOK
    <3>2. pipeline' = [pipeline EXCEPT ![q] = IF location \in Calls THEN Append(others, w) ELSE others]
      BY <1>1 DEF Goto
    <3> HIDE DEF q, others
    <3>3. Append(others, w) \in Seq(Workers)
      BY <3>1
    <3> QED
      BY <3>1, <3>2, <3>3 DEF Inv, ControlOK
  <2>4. held' \in [Workers -> Payload \cup {NoJob}] /\ held'[w] # NoJob
    BY <1>1, <1>2, WorkerAssumption DEF Inv, ControlOK
  <2> QED
    BY <1>1, <2>1, <2>2, <2>3, <2>4 DEF Inv, ControlOK
<1>9. SettledOnRecord'
  BY <1>1, <1>4, <1>6, <1>7, <1>8 DEF Inv, ControlOK, SettledOnRecord
<1>10. KnownJobs'
  BY <1>1, <1>2, <1>3, <1>5, <1>6 DEF Inv, KnownJobs, ControlOK
<1> QED
  BY <1>5, <1>6, <1>7, <1>8, <1>9, <1>10 DEF Inv

-----------------------------------------------------------------------------
(* The steps of handleReservedJob.                                          *)

(* What a worker that settles a job holds.                                  *)
LEMMA Holds ==
  ASSUME Inv, NEW w \in Workers, pc[w] \in Settling \cup {"handle"}
  PROVE  held[w] \in Payload /\ held[w] # NoJob /\ held[w].id \in enqueued
                             /\ held[w].id \in Jobs
<1>1. held[w] \in Payload /\ held[w] # NoJob
  BY DEF Inv, ControlOK
<1> QED
  BY <1>1 DEF Inv, KnownJobs, RestOK

(* A handler that returns completes a job that was enqueued.                *)
LEMMA HandlerReturnsStep ==
  ASSUME Inv, NEW w \in Workers, HandlerReturns(w)
  PROVE  Inv' /\ PromiseStep
<1>1. /\ At(w, "handle") /\ completed' = completed \cup {held[w].id}
      /\ Goto(w, "ack")
      /\ UNCHANGED <<queueVars, now, held, stopping, open, orphans,
                     enqueued, failed, faults>>
  BY DEF HandlerReturns
<1>2. held[w] # NoJob /\ held[w].id \in enqueued /\ held[w].id \in Jobs
  BY <1>1, Holds DEF At
<1>3. QueueOK' /\ StoredIds' = StoredIds /\ NoSpareToken'
  BY <1>1, NothingStored DEF Inv, QueueOK, QueueTypeOK
<1>4. ControlOK' /\ pc' = [pc EXCEPT ![w] = "ack"]
  BY <1>1, <1>2, GotoSame DEF Location, Settling, Inv, QueueOK, QueueTypeOK
<1>5. RestOK' /\ FailedIds' = FailedIds
  BY <1>1, <1>2 DEF Inv, RestOK, FailedIds
<1>6. (KnownJobs /\ SettledOnRecord /\ NoJobLost)'
  BY <1>1, <1>3, <1>4, <1>5 DEF Inv, ControlOK, KnownJobs, SettledOnRecord, NoJobLost
<1>7. Promise!Complete(held[w].id)
  BY <1>1, <1>2, <1>3, <1>5 DEF Promise!Complete
<1> QED
  BY <1>2, <1>3, <1>4, <1>5, <1>6, <1>7 DEF Inv, PromiseStep, Promise!Next

(* After an error a worker releases its job or records it.                  *)
LEMMA AfterErrorSettles ==
  ASSUME NEW w \in Workers
  PROVE  AfterError(w) \in {"release", "saveFailed"}
  BY DEF AfterError

(* A handler that throws leaves its job where it is.                        *)
LEMMA HandlerThrowsStep ==
  ASSUME Inv, NEW w \in Workers, HandlerThrows(w)
  PROVE  Inv' /\ PromiseStep
<1>1. /\ At(w, "handle") /\ Goto(w, AfterError(w))
      /\ UNCHANGED <<queueVars, now, held, stopping, open, orphans, historyVars>>
  BY DEF HandlerThrows
<1>2. held[w] # NoJob
  BY <1>1, Holds DEF At
<1>3. AfterError(w) \in Location \ {"ack", "ackFailed"}
  BY AfterErrorSettles DEF Location, Settling
<1>4. QueueOK' /\ StoredIds' = StoredIds /\ NoSpareToken'
  BY <1>1, NothingStored DEF Inv, QueueOK, QueueTypeOK
<1>5. RestOK' /\ UNCHANGED <<enqueued, completed, failed>>
  BY <1>1, RestSame DEF Inv
<1> QED
  BY <1>1, <1>2, <1>3, <1>4, <1>5, GoesOn

(* A timeout leaves the reservation to expire.                              *)
LEMMA HandlerTimesOutStep ==
  ASSUME Inv, NEW w \in Workers, HandlerTimesOut(w)
  PROVE  Inv' /\ PromiseStep
<1>1. /\ At(w, "handle") /\ faults' = faults + 1
      /\ orphans' = [orphans EXCEPT ![ProcessOf[w]] = @ \cup {held[w].id}]
      /\ Goto(w, "closeTimeout") /\ Drop(w)
      /\ UNCHANGED <<queueVars, now, stopping, open, enqueued, completed, failed>>
  BY DEF HandlerTimesOut, Fault
<1>2. held[w].id \in Jobs
  BY <1>1, Holds DEF At
<1>3. QueueOK' /\ StoredIds' = StoredIds /\ NoSpareToken'
  BY <1>1, NothingStored DEF Inv, QueueOK, QueueTypeOK
<1>4. RestOK'
  <2>1. orphans' \in [Processes -> SUBSET Jobs]
    BY <1>1, <1>2, WorkerAssumption DEF Inv, RestOK
  <2>2. faults' \in Nat
    BY <1>1 DEF Inv, RestOK
  <2> QED
    BY <1>1, <2>1, <2>2 DEF Inv, RestOK
<1>5. "closeTimeout" \in Location \ (Settling \cup {"handle"})
  BY DEF Location, Closing, Idling, Settling
<1>6. PromiseStep /\ NoJobLost'
  BY <1>1, <1>3, Stutters DEF Inv
<1>7. (QueueOK /\ ControlOK /\ RestOK /\ KnownJobs /\ SettledOnRecord /\ NoSpareToken)'
  BY <1>1, <1>3, <1>4, <1>5, LetsGo DEF Inv, KnownJobs
<1> QED
  BY <1>6, <1>7 DEF Inv

(* Both acks forget a job whose outcome is on record.                       *)
LEMMA AckStep ==
  ASSUME Inv, NEW w \in Workers, Ack(w) \/ AckFailed(w)
  PROVE  Inv' /\ PromiseStep
<1>1. /\ pc[w] \in {"ack", "ackFailed"} /\ AckCommand(held[w])
      /\ Goto(w, "loop") /\ Drop(w)
      /\ UNCHANGED <<now, stopping, open, orphans, historyVars>>
  BY DEF Ack, AckFailed, At
<1>2. held[w] \in Payload /\ held[w].id \in completed \cup FailedIds
  BY <1>1, Holds DEF Settling, Inv, SettledOnRecord
<1>3. /\ QueueOK' /\ NoSpareToken'
      /\ StoredIds' \subseteq StoredIds /\ StoredIds \subseteq StoredIds' \cup {held[w].id}
  BY <1>1, <1>2, AckForgets DEF Inv
<1>4. RestOK' /\ UNCHANGED <<enqueued, completed, failed>>
  BY <1>1, RestSame DEF Inv
<1>5. "loop" \in Location \ (Settling \cup {"handle"})
  BY DEF Location, Closing, Idling, Settling
<1>6. PromiseStep /\ NoJobLost'
  BY <1>2, <1>3, <1>4, Forgets
<1>7. (QueueOK /\ ControlOK /\ RestOK /\ KnownJobs /\ SettledOnRecord /\ NoSpareToken)'
  BY <1>1, <1>3, <1>4, <1>5, LetsGo DEF Inv, KnownJobs
<1> QED
  BY <1>6, <1>7 DEF Inv

(* A rejected ack may have removed the payload of a completed job.          *)
LEMMA AckRejectedStep ==
  ASSUME Inv, NEW w \in Workers, AckRejected(w)
  PROVE  Inv' /\ PromiseStep
<1>1. /\ At(w, "ack")
      /\ AckCommand(held[w]) \/ UNCHANGED queueVars
      /\ faults' \in {faults, faults + 1}
      /\ Goto(w, AfterError(w))
      /\ UNCHANGED <<now, held, stopping, open, orphans, enqueued, completed, failed>>
  BY DEF AckRejected, Fault
<1>2. /\ held[w] \in Payload /\ held[w] # NoJob /\ held[w].id \in completed
  BY <1>1, Holds DEF At, Settling, Inv, SettledOnRecord
<1>3. /\ QueueOK' /\ NoSpareToken'
      /\ StoredIds' \subseteq StoredIds /\ StoredIds \subseteq StoredIds' \cup {held[w].id}
  <2>1. CASE AckCommand(held[w])
    BY <1>1, <1>2, <2>1, AckForgets DEF Inv
  <2>2. CASE UNCHANGED queueVars
    BY <1>1, <2>2, NothingStored DEF Inv, QueueOK, QueueTypeOK
  <2> QED
    BY <1>1, <2>1, <2>2
<1>4. RestOK' /\ FailedIds' = FailedIds
  BY <1>1 DEF Inv, RestOK, FailedIds
<1>5. PromiseStep /\ NoJobLost'
  BY <1>1, <1>2, <1>3, Forgets
<1>6. AfterError(w) \in Location \ {"ack", "ackFailed"}
  BY AfterErrorSettles DEF Location, Settling
<1>7. ControlOK' /\ pc' = [pc EXCEPT ![w] = AfterError(w)]
  BY <1>1, <1>2, <1>6, GotoSame DEF Inv, QueueOK, QueueTypeOK
<1>8. SettledOnRecord'
  BY <1>1, <1>4, <1>6, <1>7 DEF Inv, ControlOK, SettledOnRecord
<1>9. KnownJobs'
  BY <1>1, <1>3 DEF Inv, KnownJobs
<1> QED
  BY <1>3, <1>4, <1>5, <1>7, <1>8, <1>9 DEF Inv

(* The delay of a retry is a number of seconds.                             *)
LEMMA RetryDelayType ==
  ASSUME NEW attempts \in Nat
  PROVE  RetryDelay(attempts) \in Nat
<1>1. \A i \in 1..Len(Backoff) : Backoff[i] \in Nat
  BY QueueAssumption, ElementOfSeq
<1>2. Backoff = <<>> \/ Len(Backoff) \in Nat \ {0}
  BY QueueAssumption, EmptySeq, LenProperties
<1> QED
  BY <1>1, <1>2 DEF RetryDelay

(* A job that is released is pending, again if need be.                     *)
LEMMA ReleaseStep ==
  ASSUME Inv, NEW w \in Workers, Release(w)
  PROVE  Inv' /\ PromiseStep
<1> DEFINE availableAt == since[w] + RetryDelay(held[w].attempts)
<1>1. /\ At(w, "release")
      /\ ReleaseScript(held[w], availableAt)
      /\ Goto(w, "loop") /\ Drop(w)
      /\ UNCHANGED <<now, stopping, open, orphans, historyVars>>
  BY DEF Release
<1>2. held[w] \in Payload /\ held[w].id \in enqueued /\ held[w].id \in Jobs
  BY <1>1, Holds DEF At, Settling
<1>3. availableAt \in Nat
  <2>1. held[w].attempts \in Nat
    BY <1>2 DEF Payload
  <2> QED
    BY <2>1, RetryDelayType DEF Inv, ControlOK
<1> HIDE DEF availableAt
<1>4. QueueOK' /\ NoSpareToken' /\ StoredIds' = StoredIds \cup {held[w].id}
  BY <1>1, <1>2, <1>3, ReleaseStores DEF Inv
<1>5. RestOK' /\ UNCHANGED <<enqueued, completed, failed>>
  BY <1>1, RestSame DEF Inv
<1>6. "loop" \in Location \ (Settling \cup {"handle"})
  BY DEF Location, Closing, Idling, Settling
<1>7. /\ (QueueOK /\ ControlOK /\ RestOK /\ KnownJobs /\ SettledOnRecord /\ NoSpareToken)'
      /\ FailedIds' = FailedIds
  BY <1>1, <1>2, <1>4, <1>5, <1>6, LetsGo DEF Inv, KnownJobs
<1>8. NoJobLost'
  BY <1>4, <1>5, <1>7 DEF Inv, NoJobLost
<1>9. Promise!Revive(held[w].id)
  BY <1>2, <1>4, <1>5, <1>7 DEF Promise!Revive
<1> QED
  BY <1>2, <1>7, <1>8, <1>9 DEF Inv, PromiseStep, Promise!Next

(* A job is given up on the record, before it is acked.                     *)
LEMMA SaveFailedStep ==
  ASSUME Inv, NEW w \in Workers, SaveFailed(w)
  PROVE  Inv' /\ PromiseStep
<1>1. /\ At(w, "saveFailed") /\ failed' = failed \cup {held[w]}
      /\ Goto(w, "ackFailed")
      /\ UNCHANGED <<queueVars, now, held, stopping, open, orphans,
                     enqueued, completed, faults>>
  BY DEF SaveFailed
<1>2. /\ held[w] \in Payload /\ held[w] # NoJob
      /\ held[w].id \in enqueued /\ held[w].id \in Jobs
  BY <1>1, Holds DEF At, Settling
<1>3. QueueOK' /\ StoredIds' = StoredIds /\ NoSpareToken'
  BY <1>1, NothingStored DEF Inv, QueueOK, QueueTypeOK
<1>4. ControlOK' /\ pc' = [pc EXCEPT ![w] = "ackFailed"]
  BY <1>1, <1>2, GotoSame DEF Location, Settling, Inv, QueueOK, QueueTypeOK
<1>5. RestOK' /\ FailedIds' = FailedIds \cup {held[w].id}
  BY <1>1, <1>2 DEF Inv, RestOK, FailedIds
<1>6. SettledOnRecord'
  BY <1>1, <1>4, <1>5 DEF Inv, ControlOK, SettledOnRecord
<1>7. (KnownJobs /\ NoJobLost)'
  BY <1>1, <1>3, <1>5 DEF Inv, KnownJobs, NoJobLost
<1>8. Promise!GiveUp(held[w].id)
  BY <1>1, <1>2, <1>3, <1>5 DEF Promise!GiveUp
<1> QED
  BY <1>2, <1>3, <1>4, <1>5, <1>6, <1>7, <1>8 DEF Inv, PromiseStep, Promise!Next

(* A worker that ends on a rejected call leaves its reservation behind.     *)
LEMMA CallRejectedStep ==
  ASSUME Inv, NEW w \in Workers, CallRejected(w)
  PROVE  Inv' /\ PromiseStep
<1>1. /\ faults' \in {faults, faults + 1}
      /\ Goto(w, "closeError") /\ Drop(w)
      /\ UNCHANGED <<queueVars, now, stopping, open, orphans, enqueued, completed, failed>>
  BY DEF CallRejected, Fault
<1>2. QueueOK' /\ StoredIds' = StoredIds /\ NoSpareToken'
  BY <1>1, NothingStored DEF Inv, QueueOK, QueueTypeOK
<1>3. RestOK'
  BY <1>1 DEF Inv, RestOK
<1>4. "closeError" \in Location \ (Settling \cup {"handle"})
  BY DEF Location, Closing, Idling, Settling
<1>5. PromiseStep /\ NoJobLost'
  BY <1>1, <1>2, Stutters DEF Inv
<1>6. (QueueOK /\ ControlOK /\ RestOK /\ KnownJobs /\ SettledOnRecord /\ NoSpareToken)'
  BY <1>1, <1>2, <1>3, <1>4, LetsGo DEF Inv, KnownJobs
<1> QED
  BY <1>5, <1>6 DEF Inv

-----------------------------------------------------------------------------
(* The steps of a process.                                                  *)

(* A worker that closes the client settles nothing.                         *)
LEMMA CloseStep ==
  ASSUME Inv, NEW w \in Workers, Close(w)
  PROVE  Inv' /\ PromiseStep
<1> DEFINE stopped == [v \in Workers |-> stopping[v] \/ v \in Siblings(w)]
<1>1. /\ open' = [open EXCEPT ![ProcessOf[w]] = FALSE]
      /\ stopping' = stopped \/ stopping' = stopping
      /\ Goto(w, "exited")
      /\ UNCHANGED <<queueVars, now, held, orphans, historyVars>>
  BY DEF Close
<1>2. stopped \in [Workers -> BOOLEAN]
  OBVIOUS
<1> HIDE DEF stopped
<1>3. QueueOK' /\ StoredIds' = StoredIds /\ NoSpareToken'
  BY <1>1, NothingStored DEF Inv, QueueOK, QueueTypeOK
<1>4. RestOK'
  <2>1. open' \in [Processes -> BOOLEAN]
    BY <1>1 DEF Inv, RestOK
  <2>2. stopping' \in [Workers -> BOOLEAN]
    BY <1>1, <1>2 DEF Inv, RestOK
  <2> QED
    BY <1>1, <2>1, <2>2 DEF Inv, RestOK, historyVars
<1>5. "exited" \in Location \ {"ack", "ackFailed"}
  BY DEF Location
<1>6. "exited" \notin Settling \cup {"handle"}
  BY DEF Settling
<1> QED
  BY <1>1, <1>3, <1>4, <1>5, <1>6, GoesOn DEF historyVars

(* A signal only tells workers to stop.                                     *)
LEMMA SignalStep ==
  ASSUME Inv, NEW p \in Processes, Signal(p)
  PROVE  Inv' /\ PromiseStep
<1>1. /\ faults' = faults + 1
      /\ stopping' = [v \in Workers |-> stopping[v] \/ ProcessOf[v] = p]
      /\ UNCHANGED <<queueVars, now, pc, held, since, open, pipeline, orphans,
                     enqueued, completed, failed>>
  BY DEF Signal, Fault
<1>2. QueueOK' /\ StoredIds' = StoredIds /\ NoSpareToken'
  BY <1>1, NothingStored DEF Inv, QueueOK, QueueTypeOK
<1>3. PromiseStep /\ FailedIds' = FailedIds /\ NoJobLost'
  BY <1>1, <1>2, Stutters DEF Inv
<1>4. RestOK'
  <2>1. stopping' \in [Workers -> BOOLEAN]
    BY <1>1
  <2> QED
    BY <1>1, <2>1 DEF Inv, RestOK
<1>5. (ControlOK /\ KnownJobs /\ SettledOnRecord)'
  BY <1>1, <1>2, <1>3 DEF Inv, ControlOK, KnownJobs, SettledOnRecord
<1> QED
  BY <1>2, <1>3, <1>4, <1>5 DEF Inv

(* An abandoned handler that ends settles nothing.                          *)
LEMMA OrphanSettlesStep ==
  ASSUME Inv, NEW p \in Processes, NEW job \in Jobs, OrphanSettles(p, job)
  PROVE  Inv' /\ PromiseStep
<1>1. /\ orphans' = [orphans EXCEPT ![p] = @ \ {job}]
      /\ UNCHANGED <<queueVars, now, pc, held, since, stopping, open, pipeline, historyVars>>
  BY DEF OrphanSettles
<1>2. QueueOK' /\ StoredIds' = StoredIds /\ NoSpareToken'
  BY <1>1, NothingStored DEF Inv, QueueOK, QueueTypeOK
<1>3. PromiseStep /\ FailedIds' = FailedIds /\ NoJobLost'
  BY <1>1, <1>2, Stutters DEF Inv, historyVars
<1>4. RestOK'
  <2>1. orphans' \in [Processes -> SUBSET Jobs]
    BY <1>1 DEF Inv, RestOK
  <2> QED
    BY <1>1, <2>1 DEF Inv, RestOK, historyVars
<1>5. (ControlOK /\ KnownJobs /\ SettledOnRecord)'
  BY <1>1, <1>2, <1>3 DEF Inv, ControlOK, KnownJobs, SettledOnRecord, historyVars
<1> QED
  BY <1>2, <1>3, <1>4, <1>5 DEF Inv

(* A process that loses its memory loses no job: Redis still has it.        *)
LEMMA FreshStep ==
  ASSUME Inv, NEW p \in Processes, Fresh(p), faults' \in Nat
  PROVE  Inv' /\ PromiseStep
<1>1. /\ pc' = [w \in Workers |-> IF ProcessOf[w] = p THEN "loop" ELSE pc[w]]
      /\ held' = [w \in Workers |-> IF ProcessOf[w] = p THEN NoJob ELSE held[w]]
      /\ since' = [w \in Workers |-> IF ProcessOf[w] = p THEN now ELSE since[w]]
      /\ stopping' = [w \in Workers |-> stopping[w] /\ ProcessOf[w] # p]
      /\ open' = [open EXCEPT ![p] = TRUE]
      /\ pipeline' = [pipeline EXCEPT ![p] = <<>>]
      /\ orphans' = [orphans EXCEPT ![p] = {}]
      /\ UNCHANGED <<queueVars, now, enqueued, completed, failed>>
  BY DEF Fresh
<1>2. QueueOK' /\ StoredIds' = StoredIds /\ NoSpareToken'
  BY <1>1, NothingStored DEF Inv, QueueOK, QueueTypeOK
<1>3. PromiseStep /\ FailedIds' = FailedIds /\ NoJobLost'
  BY <1>1, <1>2, Stutters DEF Inv
<1>4. RestOK'
  <2>1. stopping' \in [Workers -> BOOLEAN]
    BY <1>1, Zenon DEF Inv, RestOK
  <2>2. open' \in [Processes -> BOOLEAN] /\ orphans' \in [Processes -> SUBSET Jobs]
    BY <1>1 DEF Inv, RestOK
  <2> QED
    BY <1>1, <2>1, <2>2 DEF Inv, RestOK
<1>5. ControlOK'
  <2>1. pc' \in [Workers -> Location] /\ since' \in [Workers -> Nat]
    <3>1. "loop" \in Location
      BY DEF Location, Idling
    <3> QED
      BY <1>1, <3>1 DEF Inv, ControlOK, QueueOK, QueueTypeOK
  <2>2. held' \in [Workers -> Payload \cup {NoJob}]
    BY <1>1 DEF Inv, ControlOK
  <2>3. \A w \in Workers : pc'[w] \in Settling \cup {"handle"} => held'[w] # NoJob
    BY <1>1 DEF Inv, ControlOK, Settling
  <2>4. pipeline' \in [Processes -> Seq(Workers)]
    BY <1>1, EmptySeq DEF Inv, ControlOK
  <2> QED
    BY <2>1, <2>2, <2>3, <2>4 DEF ControlOK
<1>6. (KnownJobs /\ SettledOnRecord)'
  BY <1>1, <1>2, <1>3 DEF Inv, KnownJobs, SettledOnRecord
<1> QED
  BY <1>2, <1>3, <1>4, <1>5, <1>6 DEF Inv

(* Every step of a process.                                                 *)
LEMMA ProcessStep ==
  ASSUME Inv, NEW p \in Processes, ProcessNext(p)
  PROVE  Inv' /\ PromiseStep
<1>1. CASE Signal(p)
  BY <1>1, SignalStep
<1>2. CASE Restart(p)
  <2>1. Fresh(p) /\ faults' \in Nat
    BY <1>2 DEF Restart, Inv, RestOK
  <2> QED
    BY <2>1, FreshStep
<1>3. CASE Crash(p)
  <2>1. Fresh(p) /\ faults' \in Nat
    BY <1>3 DEF Crash, Fault, Inv, RestOK
  <2> QED
    BY <2>1, FreshStep
<1>4. CASE \E job \in Jobs : OrphanSettles(p, job)
  BY <1>4, OrphanSettlesStep
<1> QED
  BY <1>1, <1>2, <1>3, <1>4 DEF ProcessNext

(* Every step of a worker.                                                  *)
LEMMA WorkerStep ==
  ASSUME Inv, NEW w \in Workers, WorkerNext(w)
  PROVE  Inv' /\ PromiseStep
<1>1. CASE BeginPass(w) \/ MigrateDelayed(w) \/ MigrateReserved(w)
  BY <1>1, BeginPassStep, MigrateDelayedStep, MigrateReservedStep
<1>2. CASE ReserveJob(w) \/ ReserveNone(w) \/ WakeUp(w) \/ BlockTimeout(w)
  BY <1>2, ReserveJobStep, ReserveNoneStep, WakeUpStep, BlockTimeoutStep
<1>3. CASE HandlerReturns(w) \/ HandlerThrows(w) \/ HandlerTimesOut(w)
  BY <1>3, HandlerReturnsStep, HandlerThrowsStep, HandlerTimesOutStep
<1>4. CASE Ack(w) \/ AckFailed(w) \/ AckRejected(w)
  BY <1>4, AckStep, AckRejectedStep
<1>5. CASE Release(w) \/ SaveFailed(w) \/ CallRejected(w) \/ Close(w)
  BY <1>5, ReleaseStep, SaveFailedStep, CallRejectedStep, CloseStep
<1> QED
  BY <1>1, <1>2, <1>3, <1>4, <1>5 DEF WorkerNext, Progress

-----------------------------------------------------------------------------
(* The theorems.                                                            *)

(* The invariant holds at the start.                                        *)
LEMMA InitInv == Init => Inv
<1> SUFFICES ASSUME Init PROVE Inv
  OBVIOUS
<1>1. QueueOK /\ StoredIds = {} /\ NoSpareToken
  BY NewQueue DEF Init
<1>2. ControlOK
  BY EmptySeq DEF Init, ControlOK, Location, Idling, Settling
<1>3. RestOK /\ NoJobLost
  BY DEF Init, RestOK, NoJobLost
<1>4. KnownJobs /\ SettledOnRecord
  BY <1>1 DEF Init, KnownJobs, SettledOnRecord
<1> QED
  BY <1>1, <1>2, <1>3, <1>4 DEF Inv

(* It is inductive, and every step keeps the promise.                       *)
LEMMA NextInv == Inv /\ [Next]_vars => Inv' /\ PromiseStep
<1> SUFFICES ASSUME Inv, [Next]_vars PROVE Inv' /\ PromiseStep
  OBVIOUS
<1>1. CASE \E job \in Jobs, delay \in Delays : Enqueue(job, delay)
  BY <1>1, EnqueueStep
<1>2. CASE Tick
  BY <1>2, TickStep
<1>3. CASE \E w \in Workers : WorkerNext(w)
  BY <1>3, WorkerStep
<1>4. CASE \E p \in Processes : ProcessNext(p)
  BY <1>4, ProcessStep
<1>5. CASE UNCHANGED vars
  <2>1. UNCHANGED <<queueVars, now, workerVars, historyVars>>
    BY <1>5 DEF vars
  <2>2. QueueOK' /\ StoredIds' = StoredIds /\ NoSpareToken'
    BY <2>1, NothingStored DEF Inv, QueueOK, QueueTypeOK
  <2>3. PromiseStep /\ FailedIds' = FailedIds /\ NoJobLost'
    BY <2>1, <2>2, Stutters DEF Inv, historyVars
  <2>4. (ControlOK /\ RestOK /\ KnownJobs /\ SettledOnRecord)'
    BY <2>1, <2>2, <2>3
       DEF Inv, workerVars, historyVars, ControlOK, RestOK, KnownJobs, SettledOnRecord
  <2> QED
    BY <2>2, <2>3, <2>4 DEF Inv
<1> QED
  BY <1>1, <1>2, <1>3, <1>4, <1>5 DEF Next

(* The invariant holds in every state of every behaviour.                   *)
THEOREM Invariance == Spec => []Inv
  BY InitInv, NextInv, PTL DEF Spec

(* Every variable keeps its type, whatever the interleaving of workers,     *)
(* crashes and rejected calls.                                              *)
THEOREM TypeCorrectness == Spec => []TypeOK
  BY Invariance, InvImpliesTypeOK, PTL

(* No job that was enqueued disappears before a handler of it returned or   *)
(* failed_jobs has a row for it: for any number of workers, processes, jobs *)
(* and faults, any timeouts and any retry policy.                           *)
THEOREM NothingIsLost == Spec => []NoJobLost
<1>1. Inv => NoJobLost
  BY DEF Inv
<1> QED
  BY <1>1, Invariance, PTL

(* There are never more notify tokens than ready jobs.                      *)
THEOREM TokensAreBacked == Spec => []NoSpareToken
<1>1. Inv => NoSpareToken
  BY DEF Inv
<1> QED
  BY <1>1, Invariance, PTL

(* The queue implements AtLeastOnceQueue.                                   *)
THEOREM Refinement == Spec => KeepsPromise
<1>1. Init => Promise!Init
  <2> SUFFICES ASSUME Init PROVE Promise!Init
    OBVIOUS
  <2>1. StoredIds = {}
    BY NewQueue DEF Init
  <2>2. FailedIds = {}
    BY DEF Init, FailedIds
  <2> QED
    BY <2>1, <2>2 DEF Init, Promise!Init
<1>2. Inv /\ [Next]_vars => [Promise!Next]_(Promise!vars)
  BY NextInv DEF PromiseStep
<1> QED
  BY <1>1, <1>2, Invariance, PTL DEF Spec, KeepsPromise, Promise!Spec

-----------------------------------------------------------------------------
(* One worker at a time has a job, if workers are prompt.                   *)

(* The longest that a call, or another await, takes.                        *)
Longest == IF Latency >= InLine THEN Latency ELSE InLine

Takes(location) ==
  CASE location = "handle"     -> Timeout
    [] location = "saveFailed" -> Latency
    [] OTHER                   -> Longest

(* The longest it takes from there until the worker is done with its job.   *)
Needed(location) ==
  CASE location = "handle"     -> Timeout + Latency + 2 * Longest
    [] location = "ack"        -> Latency + 2 * Longest
    [] location = "saveFailed" -> Latency + Longest
    [] OTHER                   -> Longest

(* What validateWorkerOptions is there for.                                 *)
Prompt == Timeout + Latency + 3 * Longest < RetryAfter

Timely ==
  \A w \in Workers :
    /\ since[w] <= now
    /\ pc[w] \in Settling \cup Closing \cup {"handle", "reserve"} =>
         now <= since[w] + Takes(pc[w])

(* A job is in one place of Redis, and once.                                *)
Apart ==
  /\ \A i, k \in DOMAIN ready : ready[i].id = ready[k].id => i = k
  /\ \A p, q \in DOMAIN delayed : p.id = q.id => p = q
  /\ \A p, q \in DOMAIN reserved : p.id = q.id => p = q
  /\ \A p \in ToSet(ready), q \in DOMAIN delayed \cup DOMAIN reserved : p.id # q.id
  /\ \A p \in DOMAIN delayed, q \in DOMAIN reserved : p.id # q.id

(* If a worker has it that place is its reservation, which outlives what    *)
(* the worker still has to do.                                              *)
HeldAlone ==
  \A w \in Workers : held[w] # NoJob =>
    /\ pc[w] \in Settling \cup {"handle"}
    /\ \A v \in Workers \ {w} : held[v] # NoJob => held[v].id # held[w].id
    /\ \A p \in ToSet(ready) \cup DOMAIN delayed : p.id # held[w].id
    /\ \A p \in DOMAIN reserved : p.id = held[w].id =>
         p = held[w] /\ since[w] + Needed(pc[w]) < reserved[p]

SingleOK == Timely /\ Apart /\ HeldAlone

(* What is still to do covers what is under way.                            *)
LEMMA Durations ==
  /\ Longest \in Nat /\ Latency <= Longest /\ InLine <= Longest
  /\ \A location \in Location : Takes(location) \in Nat /\ Needed(location) \in Nat
  /\ \A location \in {"ack", "release", "saveFailed"} :
       Takes("handle") + Needed(location) <= Needed("handle")
  /\ \A location \in {"release", "saveFailed"} :
       Takes("ack") + Needed(location) <= Needed("ack")
  /\ Takes("saveFailed") + Needed("ackFailed") <= Needed("saveFailed")
  /\ \A location \in Settling \cup {"handle"} : Takes(location) <= Needed(location)
<1>1. Longest \in Nat /\ Latency <= Longest /\ InLine <= Longest
  BY WorkerAssumption DEF Longest
<1>2. Latency \in Nat /\ Timeout \in Nat
  BY WorkerAssumption
<1> QED
  BY <1>1, <1>2 DEF Takes, Needed, Settling

(* A worker that goes on has just begun to wait.                            *)
LEMMA GoesInTime ==
  ASSUME Inv, Timely, NEW w \in Workers, NEW location \in Location, Goto(w, location),
         now' = now
  PROVE  /\ Timely'
         /\ pc'[w] = location /\ since'[w] = now
         /\ \A v \in Workers \ {w} : pc'[v] = pc[v] /\ since'[v] = since[v]
<1>1. /\ pc' = [pc EXCEPT ![w] = location] /\ since' = [since EXCEPT ![w] = now]
      /\ pc \in [Workers -> Location] /\ since \in [Workers -> Nat] /\ now \in Nat
  BY DEF Goto, Inv, ControlOK, QueueOK, QueueTypeOK
<1>2. Takes(location) \in Nat
  BY Durations
<1> QED
  BY <1>1, <1>2 DEF Timely

(* A worker that goes on, or lets go, takes nothing from the others.        *)
LEMMA StaysAlone ==
  ASSUME Inv, Timely, HeldAlone, NEW w \in Workers, NEW location \in Location,
         Goto(w, location), now' = now,
         \/ /\ UNCHANGED held
            /\ held[w] # NoJob =>
                 /\ location \in Settling \cup {"handle"}
                 /\ Takes(pc[w]) + Needed(location) <= Needed(pc[w])
         \/ Drop(w),
         \A v \in Workers : held'[v] # NoJob =>
           /\ \A p \in ToSet(ready') \cup DOMAIN delayed' : p.id # held[v].id
           /\ \A p \in DOMAIN reserved' : p.id = held[v].id =>
                p \in DOMAIN reserved /\ reserved'[p] = reserved[p],
         IsZSet(reserved)
  PROVE  HeldAlone' /\ Timely'
<1>1. /\ Timely' /\ pc'[w] = location /\ since'[w] = now
      /\ \A v \in Workers \ {w} : pc'[v] = pc[v] /\ since'[v] = since[v]
  BY GoesInTime
<1>2. \A v \in Workers : held'[v] # NoJob => held'[v] = held[v] /\ (v = w => UNCHANGED held)
  BY DEF Drop, Inv, ControlOK
<1>3. ASSUME NEW v \in Workers, held'[v] # NoJob
      PROVE  /\ pc'[v] \in Settling \cup {"handle"}
             /\ \A p \in DOMAIN reserved' : p.id = held'[v].id =>
                  p = held'[v] /\ since'[v] + Needed(pc'[v]) < reserved'[p]
  <2>1. held'[v] = held[v] /\ pc[v] \in Settling \cup {"handle"}
    BY <1>2, <1>3 DEF HeldAlone
  <2>2. ASSUME NEW p \in DOMAIN reserved', p.id = held[v].id
        PROVE  /\ p = held[v] /\ since[v] + Needed(pc[v]) < reserved[p]
               /\ reserved'[p] = reserved[p] /\ reserved[p] \in Nat
    BY <1>3, <2>1, <2>2 DEF HeldAlone, IsZSet
  <2>3. CASE v # w
    BY <1>1, <2>1, <2>2, <2>3
  <2>4. CASE v = w
    <3>1. location \in Settling \cup {"handle"} /\ Takes(pc[w]) + Needed(location) <= Needed(pc[w])
      BY <1>2, <1>3, <2>1, <2>4 DEF Drop, Inv, ControlOK
    <3>2. /\ now <= since[w] + Takes(pc[w]) /\ now \in Nat /\ since[w] \in Nat
          /\ pc[w] \in Location
      BY <2>1, <2>4 DEF Timely, Inv, ControlOK, QueueOK, QueueTypeOK
    <3>3. Takes(pc[w]) \in Nat /\ Needed(pc[w]) \in Nat /\ Needed(location) \in Nat
      BY <3>2, Durations
    <3>4. now + Needed(location) <= since[w] + Needed(pc[w])
      BY <3>1, <3>2, <3>3
    <3>5. \A n \in Nat : since[w] + Needed(pc[w]) < n => now + Needed(location) < n
      BY <3>2, <3>3, <3>4
    <3> QED
      BY <1>1, <2>1, <2>2, <2>4, <3>1, <3>5
  <2> QED
    BY <2>3, <2>4
<1>4. ASSUME NEW v \in Workers, held'[v] # NoJob
      PROVE  /\ \A u \in Workers \ {v} : held'[u] # NoJob => held'[u].id # held'[v].id
             /\ \A p \in ToSet(ready') \cup DOMAIN delayed' : p.id # held'[v].id
  BY <1>2, <1>4 DEF HeldAlone
<1> QED
  BY <1>1, <1>3, <1>4 DEF HeldAlone

(* The steps that leave the keys alone.                                     *)
LEMMA KeysSame ==
  ASSUME Inv, SingleOK, NEW w \in Workers, NEW location \in Location, Goto(w, location),
         UNCHANGED <<ready, delayed, reserved, now>>,
         \/ /\ UNCHANGED held
            /\ held[w] # NoJob =>
                 /\ location \in Settling \cup {"handle"}
                 /\ Takes(pc[w]) + Needed(location) <= Needed(pc[w])
         \/ Drop(w)
  PROVE  SingleOK'
<1>1. \A v \in Workers : held'[v] # NoJob => held[v] # NoJob
  BY DEF Drop, Inv, ControlOK
<1>2. HeldAlone' /\ Timely'
  BY <1>1, StaysAlone DEF SingleOK, HeldAlone, Inv, QueueOK, QueueTypeOK
<1>3. Apart'
  BY DEF SingleOK, Apart
<1> QED
  BY <1>2, <1>3 DEF SingleOK

(* Who holds nothing is not settling anything.                              *)
LEMMA HoldsNothing ==
  ASSUME SingleOK, NEW w \in Workers, pc[w] \notin Settling \cup {"handle"}
  PROVE  held[w] = NoJob
  BY DEF SingleOK, HeldAlone

(* The steps that leave the four keys alone.                                *)
LEMMA QuietStep ==
  ASSUME Inv, SingleOK, NEW w \in Workers,
         \/ BeginPass(w) \/ ReserveNone(w) \/ WakeUp(w) \/ BlockTimeout(w) \/ Close(w)
         \/ HandlerReturns(w) \/ HandlerThrows(w) \/ HandlerTimesOut(w)
         \/ SaveFailed(w) \/ CallRejected(w)
  PROVE  SingleOK'
<1>1. CASE BeginPass(w) \/ ReserveNone(w) \/ WakeUp(w) \/ BlockTimeout(w) \/ Close(w)
  <2>1. pc[w] \notin Settling \cup {"handle"}
    BY <1>1 DEF BeginPass, ReserveNone, WakeUp, BlockTimeout, Close, At, Settling, Closing
  <2>2. /\ UNCHANGED <<ready, delayed, reserved, now, held>>
        /\ \E location \in {"closeStopped", "migrateDelayed", "blocked", "loop", "exited"} :
             Goto(w, location)
    BY <1>1 DEF BeginPass, ReserveNone, WakeUp, TakeToken, BlockTimeout, Close, queueVars
  <2>3. {"closeStopped", "migrateDelayed", "blocked", "loop", "exited"} \subseteq Location
    BY DEF Location, Closing, Idling
  <2> QED
    BY <2>1, <2>2, <2>3, HoldsNothing, KeysSame
<1>2. CASE HandlerReturns(w) \/ HandlerThrows(w)
  <2>1. /\ pc[w] = "handle" /\ UNCHANGED <<ready, delayed, reserved, now, held>>
        /\ \E location \in {"ack", "release", "saveFailed"} : Goto(w, location)
    BY <1>2 DEF HandlerReturns, HandlerThrows, AfterError, At, queueVars
  <2>2. {"ack", "release", "saveFailed"} \subseteq Settling /\ Settling \subseteq Location
    BY DEF Settling, Location
  <2> QED
    BY <2>1, <2>2, Durations, KeysSame
<1>3. CASE HandlerTimesOut(w) \/ CallRejected(w)
  <2>1. /\ UNCHANGED <<ready, delayed, reserved, now>> /\ Drop(w)
        /\ \E location \in {"closeTimeout", "closeError"} : Goto(w, location)
    BY <1>3 DEF HandlerTimesOut, CallRejected, queueVars
  <2>2. {"closeTimeout", "closeError"} \subseteq Location
    BY DEF Closing, Location
  <2> QED
    BY <2>1, <2>2, KeysSame
<1>4. CASE SaveFailed(w)
  <2>1. /\ pc[w] = "saveFailed" /\ UNCHANGED <<ready, delayed, reserved, now, held>>
        /\ Goto(w, "ackFailed")
    BY <1>4 DEF SaveFailed, At, queueVars
  <2>2. "ackFailed" \in Settling /\ Settling \subseteq Location
    BY DEF Settling, Location
  <2> QED
    BY <2>1, <2>2, Durations, KeysSame
<1> QED
  BY <1>1, <1>2, <1>3, <1>4

(* migrate_expired: what is due is nobody's.                                *)
LEMMA BatchApart ==
  ASSUME NEW zset, IsZSet(zset), IsFiniteSet(DOMAIN zset), NEW asked,
         NEW batch \in Batches(zset, asked),
         \A p, q \in DOMAIN zset : p.id = q.id => p = q
  PROVE  /\ \A i, k \in DOMAIN batch : batch[i].id = batch[k].id => i = k
         /\ \A p \in ToSet(batch) : p \in DOMAIN zset /\ zset[p] <= asked
<1>1. batch \in Seq(Payload) /\ ToSet(batch) \subseteq DOMAIN zset
  BY BatchProperties
<1>2. Len(batch) \in Nat /\ DOMAIN batch = 1..Len(batch)
  BY <1>1
<1>3. \A i \in DOMAIN batch : \A k \in 1..(i - 1) : batch[k] # batch[i]
  BY DEF Batches
<1>4. ASSUME NEW i \in DOMAIN batch, NEW k \in DOMAIN batch, batch[i].id = batch[k].id
      PROVE  i = k
  <2>1. batch[i] = batch[k]
    BY <1>1, <1>4 DEF ToSet
  <2>2. i \in 1..(k - 1) \/ k \in 1..(i - 1) \/ i = k
    BY <1>2
  <2> QED
    BY <1>3, <2>1, <2>2
<1>5. \A p \in ToSet(batch) : zset[p] <= asked
  <2>1. \A i \in DOMAIN batch : batch[i] \in Due(zset, asked)
    BY DEF Batches
  <2> QED
    BY <2>1 DEF ToSet, Due
<1> QED
  BY <1>1, <1>4, <1>5

(* A batch is appended whose jobs are not in the list.                      *)
LEMMA ConcatApart ==
  ASSUME NEW s \in Seq(Payload), NEW t \in Seq(Payload),
         \A i, k \in DOMAIN s : s[i].id = s[k].id => i = k,
         \A i, k \in DOMAIN t : t[i].id = t[k].id => i = k,
         \A p \in ToSet(s), q \in ToSet(t) : p.id # q.id
  PROVE  \A i, k \in DOMAIN (s \o t) : (s \o t)[i].id = (s \o t)[k].id => i = k
<1>1. /\ Len(s) \in Nat /\ Len(t) \in Nat /\ DOMAIN s = 1..Len(s) /\ DOMAIN t = 1..Len(t)
      /\ DOMAIN (s \o t) = 1..(Len(s) + Len(t))
      /\ \A i \in 1..Len(s) : (s \o t)[i] = s[i]
      /\ \A i \in 1..Len(t) : (s \o t)[Len(s) + i] = t[i]
  BY ConcatProperties
<1>2. \A i \in DOMAIN (s \o t) :
        \/ i \in DOMAIN s /\ (s \o t)[i] = s[i] /\ s[i] \in ToSet(s)
        \/ /\ i \notin DOMAIN s /\ i - Len(s) \in DOMAIN t /\ (s \o t)[i] = t[i - Len(s)]
           /\ t[i - Len(s)] \in ToSet(t)
  <2> TAKE i \in DOMAIN (s \o t)
  <2>1. CASE i \in 1..Len(s)
    BY <1>1, <2>1 DEF ToSet
  <2>2. CASE i \notin 1..Len(s)
    <3>1. i - Len(s) \in 1..Len(t) /\ Len(s) + (i - Len(s)) = i
      BY <1>1, <2>2
    <3> QED
      BY <1>1, <2>2, <3>1 DEF ToSet
  <2> QED
    BY <2>1, <2>2
<1>3. \A i, k \in DOMAIN (s \o t) : i - Len(s) = k - Len(s) => i = k
  BY <1>1
<1> QED
  BY <1>2, <1>3

(* Due is what is due when the script runs.  The clock it was asked with is *)
(* no later, and a reservation somebody still needs expires later than that.*)
LEMMA MigrateDelayedApart ==
  ASSUME Inv, SingleOK, NEW w \in Workers, MigrateDelayed(w)
  PROVE  SingleOK'
<1>1. PICK batch \in Batches(delayed, since[w]) :
        /\ MigrateFromDelayed(batch)
        /\ Goto(w, IF Len(batch) = BatchSize THEN "migrateDelayed" ELSE "migrateReserved")
  BY DEF MigrateDelayed
<1>2. /\ pc[w] \notin Settling \cup {"handle"} /\ UNCHANGED <<now, held>>
      /\ \E location \in Location : Goto(w, location)
  BY <1>1 DEF MigrateDelayed, At, Settling, Location, Idling
<1>3. /\ ready \in Seq(Payload) /\ IsZSet(delayed) /\ IsFiniteSet(DOMAIN delayed)
      /\ IsZSet(reserved)
  BY DEF Inv, QueueOK, QueueTypeOK, FiniteKeys
<1>4. /\ \A i, k \in DOMAIN batch : batch[i].id = batch[k].id => i = k
      /\ batch \in Seq(Payload) /\ ToSet(batch) \subseteq DOMAIN delayed
  BY <1>3, BatchApart, BatchProperties DEF SingleOK, Apart
<1>5. /\ ready' = ready \o batch /\ reserved' = reserved
      /\ DOMAIN delayed' = DOMAIN delayed \ ToSet(batch)
      /\ ToSet(ready') = ToSet(ready) \cup ToSet(batch)
  <2>1. /\ ready' = ready \o batch /\ reserved' = reserved
        /\ delayed' = ZRem(delayed, ToSet(batch))
    BY <1>1 DEF MigrateFromDelayed
  <2>2. DOMAIN delayed' = DOMAIN delayed \ ToSet(batch)
    BY <1>3, <2>1, ZRemProperties
  <2>3. ToSet(ready') = ToSet(ready) \cup ToSet(batch)
    BY <1>3, <1>4, <2>1, ToSetConcat
  <2> QED
    BY <2>1, <2>2, <2>3
<1>6. Apart'
  <2>1. \A i, k \in DOMAIN ready' : ready'[i].id = ready'[k].id => i = k
    <3>1. \A i, k \in DOMAIN ready : ready[i].id = ready[k].id => i = k
      BY DEF SingleOK, Apart
    <3>2. \A p \in ToSet(ready), q \in ToSet(batch) : p.id # q.id
      BY <1>4 DEF SingleOK, Apart
    <3> QED
      BY <1>3, <1>4, <1>5, <3>1, <3>2, ConcatApart
  <2>2. \A p \in ToSet(ready'), q \in DOMAIN delayed' \cup DOMAIN reserved' : p.id # q.id
    BY <1>4, <1>5 DEF SingleOK, Apart
  <2> QED
    BY <1>5, <2>1, <2>2 DEF SingleOK, Apart
<1>7. \A v \in Workers : held'[v] # NoJob =>
        /\ \A p \in ToSet(ready') \cup DOMAIN delayed' : p.id # held[v].id
        /\ \A p \in DOMAIN reserved' : p.id = held[v].id =>
             p \in DOMAIN reserved /\ reserved'[p] = reserved[p]
  BY <1>2, <1>4, <1>5 DEF SingleOK, HeldAlone
<1>8. HeldAlone' /\ Timely'
  BY <1>2, <1>3, <1>7, HoldsNothing, StaysAlone DEF SingleOK
<1> QED
  BY <1>6, <1>8 DEF SingleOK

(* A reservation that is due is one nobody needs any more.                  *)
LEMMA MigrateReservedApart ==
  ASSUME Inv, SingleOK, NEW w \in Workers, MigrateReserved(w)
  PROVE  SingleOK'
<1>1. PICK batch \in Batches(reserved, since[w]) :
        /\ MigrateFromReserved(batch)
        /\ Goto(w, IF Len(batch) = BatchSize THEN "migrateReserved" ELSE "reserve")
  BY DEF MigrateReserved
<1>2. /\ pc[w] \notin Settling \cup {"handle"} /\ UNCHANGED <<now, held>>
      /\ \E location \in Location : Goto(w, location)
  BY <1>1 DEF MigrateReserved, At, Settling, Location, Idling
<1>3. /\ ready \in Seq(Payload) /\ IsZSet(reserved) /\ IsFiniteSet(DOMAIN reserved)
      /\ since \in [Workers -> Nat] /\ now \in Nat /\ pc \in [Workers -> Location]
  BY DEF Inv, QueueOK, QueueTypeOK, FiniteKeys, ControlOK
<1>4. /\ \A i, k \in DOMAIN batch : batch[i].id = batch[k].id => i = k
      /\ \A p \in ToSet(batch) : p \in DOMAIN reserved /\ reserved[p] <= since[w]
      /\ batch \in Seq(Payload) /\ ToSet(batch) \subseteq DOMAIN reserved
  BY <1>3, BatchApart, BatchProperties DEF SingleOK, Apart
<1>5. /\ ready' = ready \o batch /\ delayed' = delayed
      /\ DOMAIN reserved' = DOMAIN reserved \ ToSet(batch)
      /\ \A p \in DOMAIN reserved' : reserved'[p] = reserved[p]
      /\ ToSet(ready') = ToSet(ready) \cup ToSet(batch)
  BY <1>1, <1>3, <1>4, ZRemProperties, ToSetConcat DEF MigrateFromReserved, ZRem
<1>6. Apart'
  <2>1. \A i, k \in DOMAIN ready' : ready'[i].id = ready'[k].id => i = k
    <3>1. \A i, k \in DOMAIN ready : ready[i].id = ready[k].id => i = k
      BY DEF SingleOK, Apart
    <3>2. \A p \in ToSet(ready), q \in ToSet(batch) : p.id # q.id
      BY <1>4 DEF SingleOK, Apart
    <3> QED
      BY <1>3, <1>4, <1>5, <3>1, <3>2, ConcatApart
  <2>2. \A p \in ToSet(ready'), q \in DOMAIN delayed' \cup DOMAIN reserved' : p.id # q.id
    BY <1>4, <1>5 DEF SingleOK, Apart
  <2> QED
    BY <1>5, <2>1, <2>2 DEF SingleOK, Apart
<1>7. ASSUME NEW v \in Workers, held[v] # NoJob, NEW p \in ToSet(batch)
      PROVE  p.id # held[v].id
  <2>1. pc[v] \in Settling \cup {"handle"} /\ pc[v] \in Location
    BY <1>3, <1>7 DEF SingleOK, HeldAlone
  <2>2. now <= since[v] + Takes(pc[v]) /\ Takes(pc[v]) <= Needed(pc[v]) /\ since[w] <= now
    BY <2>1, Durations DEF SingleOK, Timely
  <2>3. Takes(pc[v]) \in Nat /\ Needed(pc[v]) \in Nat /\ since[v] \in Nat /\ since[w] \in Nat
    BY <1>3, <2>1, Durations
  <2>4. p \in DOMAIN reserved /\ reserved[p] \in Nat /\ reserved[p] <= since[w]
    BY <1>3, <1>4, <1>7 DEF IsZSet
  <2>5. ~(since[v] + Needed(pc[v]) < reserved[p])
    BY <1>3, <2>2, <2>3, <2>4
  <2> QED
    BY <1>7, <2>4, <2>5 DEF SingleOK, HeldAlone
<1>8. \A v \in Workers : held'[v] # NoJob =>
        /\ \A p \in ToSet(ready') \cup DOMAIN delayed' : p.id # held[v].id
        /\ \A p \in DOMAIN reserved' : p.id = held[v].id =>
             p \in DOMAIN reserved /\ reserved'[p] = reserved[p]
  BY <1>2, <1>5, <1>7 DEF SingleOK, HeldAlone
<1>9. HeldAlone' /\ Timely'
  BY <1>2, <1>3, <1>8, HoldsNothing, StaysAlone DEF SingleOK
<1> QED
  BY <1>6, <1>9 DEF SingleOK

(* A worker is handed a job that nobody has, for long enough.               *)
LEMMA ReserveJobApart ==
  ASSUME Prompt, Inv, SingleOK, NEW w \in Workers, ReserveJob(w)
  PROVE  SingleOK'
<1> DEFINE p == CountAttempt(Head(ready))
           location == IF Head(ready).id \in Malformed \cup Unhandled
                       THEN "saveFailed" ELSE "handle"
<1>1. /\ ready # <<>> /\ pc[w] = "reserve"
      /\ ready' = Tail(ready) /\ delayed' = delayed
      /\ reserved' = ZAdd(reserved, p, ReservedUntil(since[w]))
      /\ held' = [held EXCEPT ![w] = p]
      /\ Goto(w, location) /\ now' = now
  BY DEF ReserveJob, PopScript, At
<1>2. /\ ready \in Seq(Payload) /\ Tail(ready) \in Seq(Payload)
      /\ Len(ready) \in Nat \ {0} /\ DOMAIN ready = 1..Len(ready)
      /\ DOMAIN Tail(ready) = 1..(Len(ready) - 1)
      /\ \A i \in 1..(Len(ready) - 1) : Tail(ready)[i] = ready[i + 1]
      /\ Head(ready) = ready[1] /\ Head(ready) \in Payload
  <2>1. ready \in Seq(Payload) /\ Len(ready) \in Nat /\ DOMAIN ready = 1..Len(ready)
    BY DEF Inv, QueueOK, QueueTypeOK
  <2>2. Len(ready) # 0
    BY <1>1, <2>1, EmptySeq
  <2> QED
    BY <1>1, <2>1, <2>2, HeadTailProperties
<1>3. p \in Payload /\ p.id = Head(ready).id /\ p # NoJob
  BY <1>2, CountAttemptKeepsId, WorkerAssumption
<1>4. location \in {"saveFailed", "handle"} /\ location \in Location
  BY DEF Location, Settling
<1>5. /\ since \in [Workers -> Nat] /\ now \in Nat /\ held \in [Workers -> Payload \cup {NoJob}]
      /\ pc \in [Workers -> Location] /\ IsZSet(reserved) /\ IsZSet(delayed)
  BY DEF Inv, QueueOK, QueueTypeOK, ControlOK
<1> HIDE DEF p, location
<1>6. now + Needed(location) < ReservedUntil(since[w])
  <2>1. now <= since[w] + Longest
    BY <1>1 DEF SingleOK, Timely, Takes
  <2>2. Longest \in Nat /\ Latency \in Nat /\ Timeout \in Nat /\ RetryAfter \in Nat
        /\ since[w] \in Nat
    BY <1>5, Durations, WorkerAssumption, QueueAssumption
  <2>3. Needed(location) <= Timeout + Latency + 2 * Longest /\ Needed(location) \in Nat
    BY <1>4, <2>2, Durations DEF Needed
  <2> QED
    BY <1>5, <2>1, <2>2, <2>3 DEF Prompt, ReservedUntil
<1>7. /\ DOMAIN reserved' = DOMAIN reserved \cup {p}
      /\ \A q \in DOMAIN reserved' :
           reserved'[q] = IF q = p THEN ReservedUntil(since[w]) ELSE reserved[q]
      /\ ToSet(ready) = {Head(ready)} \cup ToSet(ready')
  BY <1>1, <1>2, ToSetHeadTail DEF ZAdd
<1>8. \A q \in ToSet(ready') \cup DOMAIN delayed \cup DOMAIN reserved : q.id # p.id
  <2>1. \A q \in DOMAIN delayed \cup DOMAIN reserved : q.id # p.id
    BY <1>3, <1>7 DEF SingleOK, Apart
  <2>2. ASSUME NEW i \in DOMAIN Tail(ready) PROVE Tail(ready)[i].id # p.id
    <3>1. i + 1 \in DOMAIN ready /\ 1 \in DOMAIN ready /\ i + 1 # 1
      BY <1>2
    <3> QED
      BY <1>2, <1>3, <3>1 DEF SingleOK, Apart
  <2> QED
    BY <1>1, <2>1, <2>2 DEF ToSet
<1>9. Apart'
  <2>1. \A i, k \in DOMAIN ready' : ready'[i].id = ready'[k].id => i = k
    <3>1. \A i, k \in DOMAIN Tail(ready) :
            /\ i + 1 \in DOMAIN ready /\ Tail(ready)[i] = ready[i + 1]
            /\ i + 1 = k + 1 => i = k
      BY <1>2
    <3> QED
      BY <1>1, <3>1 DEF SingleOK, Apart
  <2> QED
    BY <1>1, <1>7, <1>8, <2>1 DEF SingleOK, Apart
<1>10. /\ Timely' /\ pc'[w] = location /\ since'[w] = now
       /\ \A v \in Workers \ {w} : pc'[v] = pc[v] /\ since'[v] = since[v]
  BY <1>1, <1>4, GoesInTime DEF SingleOK
<1>11. HeldAlone'
  <2>1. held'[w] = p /\ \A v \in Workers \ {w} : held'[v] = held[v]
    BY <1>1, <1>5
  <2>2. \A v \in Workers \ {w} : held[v] # NoJob => held[v].id # p.id
    BY <1>3, <1>7 DEF SingleOK, HeldAlone
  <2>3. ASSUME NEW v \in Workers \ {w}, held[v] # NoJob
        PROVE  /\ pc'[v] \in Settling \cup {"handle"}
               /\ \A u \in Workers \ {v} : held'[u] # NoJob => held'[u].id # held[v].id
               /\ \A q \in ToSet(ready') \cup DOMAIN delayed' : q.id # held[v].id
               /\ \A q \in DOMAIN reserved' : q.id = held[v].id =>
                    q = held[v] /\ since'[v] + Needed(pc'[v]) < reserved'[q]
    BY <1>1, <1>7, <1>10, <2>1, <2>2, <2>3 DEF SingleOK, HeldAlone
  <2>4. /\ pc'[w] \in Settling \cup {"handle"}
        /\ \A u \in Workers \ {w} : held'[u] # NoJob => held'[u].id # p.id
        /\ \A q \in ToSet(ready') \cup DOMAIN delayed' : q.id # p.id
        /\ \A q \in DOMAIN reserved' : q.id = p.id =>
             q = p /\ since'[w] + Needed(pc'[w]) < reserved'[q]
    BY <1>1, <1>4, <1>6, <1>7, <1>8, <1>10, <2>1, <2>2 DEF Settling
  <2> QED
    BY <2>1, <2>3, <2>4 DEF HeldAlone
<1> QED
  BY <1>9, <1>10, <1>11 DEF SingleOK

(* Whoever is done with a job takes its reservation with him, or leaves it. *)
LEMMA AckApart ==
  ASSUME Inv, SingleOK, NEW w \in Workers, Ack(w) \/ AckFailed(w) \/ AckRejected(w)
  PROVE  SingleOK'
<1>1. /\ AckCommand(held[w]) \/ UNCHANGED queueVars
      /\ now' = now /\ pc[w] \in {"ack", "ackFailed"}
  BY DEF Ack, AckFailed, AckRejected, At
<1>2. \E location \in Location :
        /\ Goto(w, location)
        /\ \/ Drop(w)
           \/ /\ UNCHANGED held /\ location \in Settling
              /\ Takes(pc[w]) + Needed(location) <= Needed(pc[w])
  <2>1. CASE Ack(w) \/ AckFailed(w)
    BY <2>1 DEF Ack, AckFailed, Location, Idling
  <2>2. CASE AckRejected(w)
    <3>1. pc[w] = "ack" /\ UNCHANGED held /\ Goto(w, AfterError(w))
      BY <2>2 DEF AckRejected, At
    <3>2. AfterError(w) \in {"release", "saveFailed"}
      BY DEF AfterError
    <3> QED
      BY <3>1, <3>2, Durations DEF Location, Settling
  <2> QED
    BY <2>1, <2>2
<1>3. IsZSet(reserved)
  BY DEF Inv, QueueOK, QueueTypeOK
<1>4. /\ ready' = ready /\ delayed' = delayed
      /\ \A p \in DOMAIN reserved' : p \in DOMAIN reserved /\ reserved'[p] = reserved[p]
  BY <1>1 DEF AckCommand, ZRem, queueVars
<1>5. Apart'
  BY <1>4 DEF SingleOK, Apart
<1>6. \A v \in Workers : held'[v] # NoJob => held[v] # NoJob
  BY <1>2 DEF Drop, Inv, ControlOK
<1>7. HeldAlone' /\ Timely'
  BY <1>1, <1>2, <1>3, <1>4, <1>6, StaysAlone DEF SingleOK, HeldAlone
<1> QED
  BY <1>5, <1>7 DEF SingleOK

(* A job that is released waits where nobody else has it.                   *)
LEMMA ReleaseApart ==
  ASSUME Inv, SingleOK, NEW w \in Workers, Release(w)
  PROVE  SingleOK'
<1> DEFINE availableAt == since[w] + RetryDelay(held[w].attempts)
           again == [held[w] EXCEPT !.availableAt = availableAt]
<1>1. /\ pc[w] = "release"
      /\ reserved' = ZRem(reserved, {held[w]})
      /\ delayed' = ZAdd(delayed, again, availableAt)
      /\ ready' = ready
      /\ Goto(w, "loop") /\ Drop(w) /\ now' = now
  BY DEF Release, ReleaseScript, At
<1>2. held[w] # NoJob /\ again.id = held[w].id
  <2>1. held[w] \in Payload /\ held[w] # NoJob
    BY <1>1, WorkerAssumption DEF Inv, ControlOK, Settling
  <2> QED
    BY <2>1 DEF Payload
<1>3. /\ DOMAIN delayed' = DOMAIN delayed \cup {again}
      /\ DOMAIN reserved' = DOMAIN reserved \ {held[w]}
      /\ \A p \in DOMAIN reserved' : reserved'[p] = reserved[p]
  BY <1>1 DEF ZAdd, ZRem
<1>4. \A p \in ToSet(ready) \cup DOMAIN delayed \cup DOMAIN reserved' : p.id # held[w].id
  BY <1>2, <1>3 DEF SingleOK, HeldAlone
<1> HIDE DEF again
<1>5. Apart'
  <2>1. \A i, k \in DOMAIN ready' : ready'[i].id = ready'[k].id => i = k
    BY <1>1 DEF SingleOK, Apart
  <2>2. \A q, r \in DOMAIN delayed' : q.id = r.id => q = r
    BY <1>2, <1>3, <1>4 DEF SingleOK, Apart
  <2>3. \A q, r \in DOMAIN reserved' : q.id = r.id => q = r
    BY <1>3 DEF SingleOK, Apart
  <2>4. \A q \in ToSet(ready'), r \in DOMAIN delayed' \cup DOMAIN reserved' : q.id # r.id
    BY <1>1, <1>2, <1>3, <1>4 DEF SingleOK, Apart
  <2>5. \A q \in DOMAIN delayed', r \in DOMAIN reserved' : q.id # r.id
    BY <1>2, <1>3, <1>4 DEF SingleOK, Apart
  <2> QED
    BY <2>1, <2>2, <2>3, <2>4, <2>5 DEF Apart
<1>6. \A v \in Workers : held'[v] # NoJob => held[v] # NoJob /\ v # w
  BY <1>1 DEF Drop, Inv, ControlOK
<1>7. \A v \in Workers : held'[v] # NoJob =>
        /\ \A p \in ToSet(ready') \cup DOMAIN delayed' : p.id # held[v].id
        /\ \A p \in DOMAIN reserved' : p.id = held[v].id =>
             p \in DOMAIN reserved /\ reserved'[p] = reserved[p]
  <2>1. ASSUME NEW v \in Workers, held'[v] # NoJob
        PROVE  /\ held[v].id # held[w].id
               /\ \A p \in ToSet(ready) \cup DOMAIN delayed : p.id # held[v].id
    BY <1>2, <1>6, <2>1 DEF SingleOK, HeldAlone
  <2> QED
    BY <1>1, <1>2, <1>3, <2>1
<1>8. HeldAlone' /\ Timely'
  <2>1. "loop" \in Location /\ IsZSet(reserved)
    BY DEF Location, Idling, Inv, QueueOK, QueueTypeOK
  <2> QED
    BY <1>1, <1>7, <2>1, StaysAlone DEF SingleOK
<1> QED
  BY <1>5, <1>8 DEF SingleOK

(* A job that is enqueued is new.                                           *)
LEMMA EnqueueApart ==
  ASSUME Inv, SingleOK, NEW job \in Jobs, NEW delay \in Delays, Enqueue(job, delay)
  PROVE  SingleOK'
<1> DEFINE envelope == [id |-> job, attempts |-> 0, availableAt |-> now + delay]
<1>1. /\ job \notin enqueued /\ UNCHANGED <<now, pc, held, since>>
      /\ \/ ready' = Append(ready, envelope) /\ UNCHANGED <<delayed, reserved>>
         \/ /\ delayed' = ZAdd(delayed, envelope, now + delay)
            /\ UNCHANGED <<ready, reserved>>
  BY DEF Enqueue, EnqueueScript, workerVars
<1>2. envelope \in Payload /\ envelope.id = job
  BY WorkerAssumption DEF Inv, QueueOK, QueueTypeOK, Payload
<1> HIDE DEF envelope
<1>3. \A p \in Stored : p.id # job
  BY <1>1 DEF Inv, KnownJobs, StoredIds
<1>4. \A v \in Workers : held[v] # NoJob => held[v].id # job
  BY <1>1 DEF Inv, KnownJobs
<1>5. /\ ToSet(ready') \cup DOMAIN delayed' = ToSet(ready) \cup DOMAIN delayed \cup {envelope}
      /\ reserved' = reserved
      /\ \/ ToSet(ready') = ToSet(ready) \cup {envelope} /\ delayed' = delayed
         \/ ready' = ready /\ DOMAIN delayed' = DOMAIN delayed \cup {envelope}
  <2>1. CASE ready' = Append(ready, envelope) /\ UNCHANGED <<delayed, reserved>>
    BY <1>2, <2>1, ToSetAppend DEF Inv, QueueOK, QueueTypeOK
  <2>2. CASE delayed' = ZAdd(delayed, envelope, now + delay) /\ UNCHANGED <<ready, reserved>>
    BY <2>2 DEF ZAdd
  <2> QED
    BY <1>1, <2>1, <2>2
<1>6. \A i, k \in DOMAIN ready' : ready'[i].id = ready'[k].id => i = k
  <2>1. CASE ready' = ready
    BY <2>1 DEF SingleOK, Apart
  <2>2. CASE ready' = Append(ready, envelope)
    <3>1. /\ ready \in Seq(Payload) /\ Len(ready) \in Nat
          /\ DOMAIN ready = 1..Len(ready) /\ DOMAIN ready' = 1..(Len(ready) + 1)
          /\ ready'[Len(ready) + 1] = envelope
          /\ \A i \in 1..Len(ready) : ready'[i] = ready[i]
      BY <1>2, <2>2, AppendProperties DEF Inv, QueueOK, QueueTypeOK
    <3>2. \A i \in DOMAIN ready : ready[i] \in Stored
      BY DEF Stored, ToSet
    <3>3. \A i \in DOMAIN ready' : i \in DOMAIN ready \/ i = Len(ready) + 1
      BY <3>1
    <3>4. \A i \in DOMAIN ready : ready'[i].id # ready'[Len(ready) + 1].id
      BY <1>2, <1>3, <3>1, <3>2
    <3>5. \A i, k \in DOMAIN ready : ready'[i].id = ready'[k].id => i = k
      BY <3>1 DEF SingleOK, Apart
    <3> QED
      BY <3>3, <3>4, <3>5
  <2> QED
    BY <1>1, <2>1, <2>2
<1>7. Apart'
  BY <1>2, <1>3, <1>5, <1>6 DEF SingleOK, Apart, Stored
<1>8. HeldAlone'
  BY <1>1, <1>2, <1>4, <1>5 DEF SingleOK, HeldAlone
<1>9. Timely'
  BY <1>1 DEF SingleOK, Timely
<1> QED
  BY <1>7, <1>8, <1>9 DEF SingleOK

(* Time goes on only as long as nobody takes too long.                      *)
LEMMA TickApart ==
  ASSUME Inv, SingleOK, Tick
  PROVE  SingleOK'
<1>1. /\ now' = now + 1 /\ now \in Nat /\ since \in [Workers -> Nat]
      /\ UNCHANGED <<ready, delayed, reserved, pc, held, since>>
      /\ \A w \in Workers : now < since[w] + Patience(w)
  BY DEF Tick, MayWait, queueVars, workerVars, Inv, QueueOK, QueueTypeOK, ControlOK
<1>2. ASSUME NEW w \in Workers, pc[w] \in Settling \cup Closing \cup {"handle", "reserve"}
      PROVE  Patience(w) <= Takes(pc[w]) /\ Patience(w) \in Nat /\ Takes(pc[w]) \in Nat
  <2>1. /\ Latency \in Nat /\ InLine \in Nat /\ Timeout \in Nat
        /\ Longest \in Nat /\ Latency <= Longest /\ InLine <= Longest
    BY Durations, WorkerAssumption
  <2>2. CASE pc[w] = "handle"
    <3>1. Patience(w) = Timeout
      BY <2>2 DEF Patience, At, Calls, Closing, Idling
    <3>2. Takes(pc[w]) = Timeout
      BY <2>2 DEF Takes
    <3> QED
      BY <2>1, <3>1, <3>2
  <2>3. CASE pc[w] = "saveFailed"
    BY <2>1, <2>3 DEF Patience, Takes, At, Calls, Closing, Idling
  <2>4. CASE pc[w] \in Closing \cup {"ack", "release", "ackFailed", "reserve"}
    <3>1. Patience(w) = IF Answered(w) THEN Latency ELSE InLine
      BY <2>4 DEF Patience, At, Calls, Closing, Idling
    <3>2. Takes(pc[w]) = Longest
      BY <2>4 DEF Takes, Closing
    <3> QED
      BY <2>1, <3>1, <3>2
  <2> QED
    BY <1>2, <2>2, <2>3, <2>4 DEF Settling
<1>3. Timely'
  <2>1. ASSUME NEW w \in Workers PROVE since[w] <= now + 1
    BY <1>1 DEF SingleOK, Timely
  <2>2. ASSUME NEW w \in Workers, pc[w] \in Settling \cup Closing \cup {"handle", "reserve"}
        PROVE  now + 1 <= since[w] + Takes(pc[w])
    <3>1. now < since[w] + Patience(w) /\ since[w] \in Nat
      BY <1>1
    <3>2. Patience(w) <= Takes(pc[w]) /\ Patience(w) \in Nat /\ Takes(pc[w]) \in Nat
      BY <1>2, <2>2
    <3> QED
      BY <1>1, <3>1, <3>2
  <2> QED
    BY <1>1, <2>1, <2>2 DEF Timely
<1>4. Apart'
  BY <1>1 DEF SingleOK, Apart
<1>5. HeldAlone'
  BY <1>1 DEF SingleOK, HeldAlone
<1> QED
  BY <1>3, <1>4, <1>5 DEF SingleOK

(* A process that dies or is told to stop takes nobody's job.               *)
LEMMA ProcessApart ==
  ASSUME Inv, SingleOK, NEW p \in Processes, ProcessNext(p)
  PROVE  SingleOK'
<1>1. CASE Signal(p) \/ \E job \in Jobs : OrphanSettles(p, job)
  <2>1. UNCHANGED <<ready, delayed, reserved, now, pc, held, since>>
    BY <1>1 DEF Signal, OrphanSettles, queueVars
  <2> QED
    BY <2>1 DEF SingleOK, Timely, Apart, HeldAlone
<1>2. CASE Fresh(p)
  <2>1. /\ UNCHANGED <<ready, delayed, reserved, now>> /\ now \in Nat
        /\ pc' = [w \in Workers |-> IF ProcessOf[w] = p THEN "loop" ELSE pc[w]]
        /\ held' = [w \in Workers |-> IF ProcessOf[w] = p THEN NoJob ELSE held[w]]
        /\ since' = [w \in Workers |-> IF ProcessOf[w] = p THEN now ELSE since[w]]
    BY <1>2 DEF Fresh, queueVars, Inv, QueueOK, QueueTypeOK
  <2>2. Timely'
    BY <2>1 DEF SingleOK, Timely, Settling, Closing
  <2>3. Apart'
    BY <2>1 DEF SingleOK, Apart
  <2>4. HeldAlone'
    BY <2>1 DEF SingleOK, HeldAlone
  <2> QED
    BY <2>2, <2>3, <2>4 DEF SingleOK
<1> QED
  BY <1>1, <1>2 DEF ProcessNext, Restart, Crash

(* At the start nobody has anything.                                        *)
LEMMA InitSingle == Init => SingleOK
<1> SUFFICES ASSUME Init PROVE SingleOK
  OBVIOUS
<1>1. Timely /\ HeldAlone
  BY DEF Init, QueueInit, Timely, HeldAlone, Settling, Closing
<1>2. Apart
  BY DEF Init, QueueInit, Apart, ToSet
<1> QED
  BY <1>1, <1>2 DEF SingleOK

(* The invariant is inductive.                                              *)
LEMMA NextSingle == Prompt /\ Inv /\ SingleOK /\ [Next]_vars => SingleOK'
<1> SUFFICES ASSUME Prompt, Inv, SingleOK, [Next]_vars PROVE SingleOK'
  OBVIOUS
<1>1. CASE \E job \in Jobs, delay \in Delays : Enqueue(job, delay)
  BY <1>1, EnqueueApart
<1>2. CASE Tick
  BY <1>2, TickApart
<1>3. ASSUME NEW w \in Workers, WorkerNext(w) PROVE SingleOK'
  BY <1>3, QuietStep, MigrateDelayedApart, MigrateReservedApart, ReserveJobApart, AckApart,
     ReleaseApart DEF WorkerNext, Progress
<1>4. CASE \E p \in Processes : ProcessNext(p)
  BY <1>4, ProcessApart
<1>5. CASE UNCHANGED vars
  BY <1>5 DEF vars, queueVars, workerVars, SingleOK, Timely, Apart, HeldAlone
<1> QED
  BY <1>1, <1>2, <1>3, <1>4, <1>5 DEF Next

(* Of two workers only one has a job, and nobody else is served it, if what *)
(* a worker needs for a job, from the call that reserves it to the last     *)
(* that settles it, is shorter than the life of the reservation: for any    *)
(* number of workers and jobs, and whatever crashes, hangs or is lost.      *)
THEOREM OneHolder ==
  ASSUME Prompt
  PROVE  Spec => []SingleReservation
<1>1. Init => SingleOK
  BY InitSingle
<1>2. Inv /\ SingleOK /\ [Next]_vars => SingleOK'
  BY NextSingle
<1>3. SingleOK => SingleReservation
  BY DEF SingleOK, HeldAlone, SingleReservation
<1> QED
  BY <1>1, <1>2, <1>3, Invariance, PTL DEF Spec

-----------------------------------------------------------------------------
(* Attempts are accounted for, if workers are prompt.                       *)

Failing == {"closeTimeout", "closeError"}

(* The processes whose client is closed, or will be without another fault.  *)
Doomed ==
  {p \in Processes :
     \/ ~open[p]
     \/ \E w \in Workers : ProcessOf[w] = p /\ (stopping[w] \/ pc[w] \in Closing \cup {"exited"})}

HasJob(p, job) ==
  \E w \in Workers : ProcessOf[w] = p /\ held[w] # NoJob /\ held[w].id = job

(* The fault that dooms the process has cost it this job already, and it    *)
(* closes before the reservation expires.                                   *)
Charged(p, job) ==
  /\ \A q \in ToSet(ready) \cup DOMAIN delayed : q.id # job
  /\ \A w \in Workers : held[w] # NoJob => held[w].id # job
  /\ \E w \in Workers :
       /\ ProcessOf[w] = p /\ pc[w] \in Failing
       /\ \A q \in DOMAIN reserved : q.id = job => since[w] + Longest < reserved[q]

(* The processes that may still lose the job to a fault that has happened.  *)
Threats(job) ==
  {p \in Doomed : IF open[p] THEN ~Charged(p, job) ELSE HasJob(p, job)}

Within(attempts, job) == attempts + Cardinality(Threats(job)) <= MaxAttempts + faults

(* If the worker loses the job, its client closes before anyone gets it.    *)
InTime(w) ==
  \/ ~open[ProcessOf[w]]
  \/ pc[w] \in {"handle", "ack"}
  \/ \A p \in DOMAIN reserved :
       p = held[w] => since[w] + Needed(pc[w]) + Longest < reserved[p]

DoomsCounted == IsFiniteSet(Doomed) /\ Cardinality(Doomed) <= faults

RetriesCounted == \A w \in Workers : pc[w] = "release" => held[w].attempts < MaxAttempts

(* Whoever is served the job next is within the bound, and so is who has it.*)
JobCounted(job) ==
  /\ \A p \in ToSet(ready) \cup DOMAIN delayed :
       p.id = job => Within(p.attempts + 1, job)
  /\ \A p \in DOMAIN reserved :
       p.id = job =>
         \/ Within(p.attempts + 1, job)
         \/ \E w \in Workers : held[w] = p /\ InTime(w) /\ Within(p.attempts, job)

AttemptsCounted == \A job \in Jobs : JobCounted(job)

CountOK == DoomsCounted /\ RetriesCounted /\ AttemptsCounted

(* A step after which the job is nowhere where it was not.                  *)
Untouched(job) ==
  /\ \A p \in ToSet(ready') \cup DOMAIN delayed' :
       p.id = job => p \in ToSet(ready) \cup DOMAIN delayed
  /\ \A p \in DOMAIN reserved' :
       p.id = job => p \in DOMAIN reserved /\ reserved'[p] = reserved[p]
  /\ \A w \in Workers :
       held'[w] # NoJob /\ held'[w].id = job => held'[w] = held[w]

(* One element more or less.                                                *)
LEMMA Cardinals ==
  ASSUME NEW S, IsFiniteSet(S), NEW T, NEW x
  PROVE  /\ Cardinality(S) \in Nat
         /\ T \subseteq S => IsFiniteSet(T) /\ Cardinality(T) \in Nat /\ Cardinality(T) <= Cardinality(S)
         /\ T \subseteq S \cup {x} =>
              IsFiniteSet(T) /\ Cardinality(T) \in Nat /\ Cardinality(T) <= Cardinality(S) + 1
         /\ x \in S /\ T \subseteq S \ {x} => Cardinality(T) + 1 <= Cardinality(S)
<1>1. Cardinality(S) \in Nat
  BY FS_CardinalityType
<1>2. T \subseteq S => IsFiniteSet(T) /\ Cardinality(T) \in Nat /\ Cardinality(T) <= Cardinality(S)
  BY FS_Subset, FS_CardinalityType
<1>3. ASSUME T \subseteq S \cup {x}
      PROVE  IsFiniteSet(T) /\ Cardinality(T) \in Nat /\ Cardinality(T) <= Cardinality(S) + 1
  <2>1. /\ IsFiniteSet(S \cup {x})
        /\ Cardinality(S \cup {x}) = Cardinality(S) \/ Cardinality(S \cup {x}) = Cardinality(S) + 1
    BY FS_AddElement
  <2>2. /\ IsFiniteSet(T) /\ Cardinality(T) \in Nat
        /\ Cardinality(T) <= Cardinality(S \cup {x}) /\ Cardinality(S \cup {x}) \in Nat
    BY <1>3, <2>1, FS_Subset, FS_CardinalityType
  <2> QED
    BY <1>1, <2>1, <2>2
<1>4. ASSUME x \in S, T \subseteq S \ {x}
      PROVE  Cardinality(T) + 1 <= Cardinality(S)
  <2>1. IsFiniteSet(S \ {x}) /\ Cardinality(S \ {x}) = Cardinality(S) - 1
    BY <1>4, FS_RemoveElement
  <2>2. Cardinality(T) <= Cardinality(S \ {x}) /\ Cardinality(T) \in Nat
    BY <1>4, <2>1, FS_Subset, FS_CardinalityType
  <2> QED
    BY <1>1, <2>1, <2>2
<1> QED
  BY <1>1, <1>2, <1>3, <1>4

(* A fault pays for one more process that may lose the job, or for a loss.  *)
LEMMA WithinBound ==
  ASSUME Inv, DoomsCounted, NEW job, NEW n \in Nat, NEW m \in Nat, NEW x, Within(n, job),
         \/ faults' = faults /\ m = n /\ Threats(job)' \subseteq Threats(job)
         \/ faults' = faults + 1 /\ m = n /\ Threats(job)' \subseteq Threats(job) \cup {x}
         \/ faults' = faults + 1 /\ m = n + 1 /\ Threats(job)' \subseteq Threats(job)
         \/ /\ faults' = faults /\ m = n + 1
            /\ x \in Threats(job) /\ Threats(job)' \subseteq Threats(job) \ {x}
  PROVE  Within(m, job)'
<1> DEFINE S == Threats(job)
           T == Threats(job)'
<1>1. IsFiniteSet(S)
  <2>1. S \subseteq Doomed
    BY DEF Threats
  <2> QED
    BY <2>1, FS_Subset DEF DoomsCounted
<1>2. faults \in Nat /\ MaxAttempts \in Nat
  BY WorkerAssumption DEF Inv, RestOK
<1>3. n + Cardinality(S) <= MaxAttempts + faults
  BY DEF Within
<1> HIDE DEF S, T
<1>4. Cardinality(S) \in Nat /\ Cardinality(T) \in Nat
  <2>1. T \subseteq S \cup {x}
    BY DEF S, T
  <2> QED
    BY <1>1, <2>1, Cardinals
<1>5. m + Cardinality(T) <= MaxAttempts + faults'
  <2>1. CASE faults' = faults /\ m = n /\ T \subseteq S
    <3>1. Cardinality(T) <= Cardinality(S)
      BY <1>1, <2>1, Cardinals
    <3> QED
      BY <1>2, <1>3, <1>4, <2>1, <3>1
  <2>2. CASE faults' = faults + 1 /\ m = n /\ T \subseteq S \cup {x}
    <3>1. Cardinality(T) <= Cardinality(S) + 1
      BY <1>1, <2>2, Cardinals
    <3> QED
      BY <1>2, <1>3, <1>4, <2>2, <3>1
  <2>3. CASE faults' = faults + 1 /\ m = n + 1 /\ T \subseteq S
    <3>1. Cardinality(T) <= Cardinality(S)
      BY <1>1, <2>3, Cardinals
    <3> QED
      BY <1>2, <1>3, <1>4, <2>3, <3>1
  <2>4. CASE faults' = faults /\ m = n + 1 /\ x \in S /\ T \subseteq S \ {x}
    <3>1. Cardinality(T) + 1 <= Cardinality(S)
      BY <1>1, <2>4, Cardinals
    <3> QED
      BY <1>2, <1>3, <1>4, <2>4, <3>1
  <2> QED
    BY <2>1, <2>2, <2>3, <2>4 DEF S, T
<1> QED
  BY <1>5 DEF Within, T

(* A loss that comes with a fault of its own.                               *)
LEMMA LossPaid ==
  ASSUME Inv, DoomsCounted, NEW job, NEW n \in Nat, Within(n, job),
         faults' = faults + 1, Threats(job)' \subseteq Threats(job)
  PROVE  Within(n + 1, job)'
<1>1. n + 1 \in Nat /\ Threats(job)' \subseteq Threats(job) \cup {job}
  OBVIOUS
<1> QED
  BY <1>1, WithinBound

(* As many processes are doomed as there were faults, or fewer.             *)
LEMMA DoomsBound ==
  ASSUME Inv, DoomsCounted, NEW x,
         \/ Doomed' \subseteq Doomed /\ faults' \in {faults, faults + 1}
         \/ Doomed' \subseteq Doomed \cup {x} /\ faults' = faults + 1
  PROVE  DoomsCounted'
<1> DEFINE S == Doomed
           T == Doomed'
<1>1. IsFiniteSet(S) /\ Cardinality(S) <= faults /\ faults \in Nat
  BY DEF DoomsCounted, Inv, RestOK
<1>2. \/ T \subseteq S /\ faults' \in {faults, faults + 1}
      \/ T \subseteq S \cup {x} /\ faults' = faults + 1
  OBVIOUS
<1> HIDE DEF S, T
<1>3. IsFiniteSet(T) /\ Cardinality(T) <= faults'
  <2>1. CASE T \subseteq S /\ faults' \in {faults, faults + 1}
    <3>1. /\ IsFiniteSet(T) /\ Cardinality(T) \in Nat /\ Cardinality(S) \in Nat
          /\ Cardinality(T) <= Cardinality(S)
      BY <1>1, <2>1, Cardinals
    <3> QED
      BY <1>1, <2>1, <3>1
  <2>2. CASE T \subseteq S \cup {x} /\ faults' = faults + 1
    <3>1. /\ IsFiniteSet(T) /\ Cardinality(T) \in Nat /\ Cardinality(S) \in Nat
          /\ Cardinality(T) <= Cardinality(S) + 1
      BY <1>1, <2>2, Cardinals
    <3> QED
      BY <1>1, <2>2, <3>1
  <2> QED
    BY <1>2, <2>1, <2>2
<1> QED
  BY <1>3 DEF DoomsCounted, T

(* What a worker that goes on does to the fate of its process.              *)
LEMMA WorkerDooms ==
  ASSUME Inv, NEW w \in Workers, NEW location \in Location, Goto(w, location),
         UNCHANGED <<stopping, open>>
  PROVE  /\ Doomed' \subseteq Doomed \cup {ProcessOf[w]}
         /\ (location \notin Closing \cup {"exited"} \/ ProcessOf[w] \in Doomed)
              => Doomed' \subseteq Doomed
<1>1. pc' = [pc EXCEPT ![w] = location] /\ pc \in [Workers -> Location]
  BY DEF Goto, Inv, ControlOK
<1> QED
  BY <1>1 DEF Doomed

(* Who threatened a job that is not touched is a threat still.              *)
LEMMA ThreatsKept ==
  ASSUME NEW job, NEW X, Untouched(job),
         Doomed' \subseteq Doomed \cup X,
         \A p \in Processes \ X : open'[p] = open[p],
         \A w \in Workers : ProcessOf[w] \notin X /\ pc[w] \in Failing =>
           pc'[w] = pc[w] /\ since'[w] = since[w]
  PROVE  Threats(job)' \subseteq Threats(job) \cup X
<1> SUFFICES ASSUME NEW p \in Threats(job)', p \notin X
             PROVE  p \in Threats(job)
  OBVIOUS
<1>1. p \in Doomed /\ p \in Processes /\ open'[p] = open[p]
  BY DEF Threats, Doomed
<1>2. CASE open[p]
  <2>1. ~Charged(p, job)'
    BY <1>1, <1>2 DEF Threats
  <2>2. ASSUME Charged(p, job) PROVE Charged(p, job)'
    <3>1. PICK w \in Workers :
            /\ ProcessOf[w] = p /\ pc[w] \in Failing
            /\ \A q \in DOMAIN reserved : q.id = job => since[w] + Longest < reserved[q]
      BY <2>2 DEF Charged
    <3>2. pc'[w] = pc[w] /\ since'[w] = since[w]
      BY <3>1
    <3>3. \A q \in ToSet(ready') \cup DOMAIN delayed' : q.id # job
      BY <2>2 DEF Charged, Untouched
    <3>4. \A v \in Workers : held'[v] # NoJob => held'[v].id # job
      BY <2>2 DEF Charged, Untouched
    <3>5. \A q \in DOMAIN reserved' : q.id = job => since'[w] + Longest < reserved'[q]
      BY <3>1, <3>2 DEF Untouched
    <3> QED
      BY <3>1, <3>2, <3>3, <3>4, <3>5 DEF Charged
  <2> QED
    BY <1>1, <1>2, <2>1, <2>2 DEF Threats
<1>3. CASE ~open[p]
  <2>1. HasJob(p, job)'
    BY <1>1, <1>3 DEF Threats
  <2>2. HasJob(p, job)
    BY <2>1 DEF HasJob, Untouched
  <2> QED
    BY <1>1, <1>3, <2>2 DEF Threats
<1> QED
  BY <1>2, <1>3

(* A job that is not touched stays within the bound.                        *)
LEMMA StillCounted ==
  ASSUME Inv, CountOK, NEW job \in Jobs, Untouched(job), NEW x,
         \/ faults' = faults /\ Threats(job)' \subseteq Threats(job)
         \/ faults' = faults + 1 /\ Threats(job)' \subseteq Threats(job) \cup {x},
         \A w \in Workers : held[w] # NoJob /\ held[w].id = job /\ InTime(w) =>
           held'[w] = held[w] /\ InTime(w)'
  PROVE  JobCounted(job)'
<1>1. \A n \in Nat : Within(n, job) => Within(n, job)'
  <2> TAKE n \in Nat
  <2> HAVE Within(n, job)
  <2> QED
    BY WithinBound DEF CountOK
<1>2. \A p \in ToSet(ready) \cup DOMAIN delayed \cup DOMAIN reserved :
        p \in Payload /\ p.attempts \in Nat /\ p.attempts + 1 \in Nat
  <2>1. \A p \in Payload : p.attempts \in Nat /\ p.attempts + 1 \in Nat
    BY DEF Payload
  <2> QED
    BY <2>1, ToSetType DEF Inv, QueueOK, QueueTypeOK, IsZSet
<1>3. JobCounted(job)
  BY DEF CountOK, AttemptsCounted
<1>4. ASSUME NEW p \in ToSet(ready') \cup DOMAIN delayed', p.id = job
      PROVE  Within(p.attempts + 1, job)'
  <2>1. p \in ToSet(ready) \cup DOMAIN delayed
    BY <1>4 DEF Untouched
  <2>2. Within(p.attempts + 1, job)
    BY <1>3, <1>4, <2>1 DEF JobCounted
  <2> QED
    BY <1>1, <1>2, <2>1, <2>2
<1>5. ASSUME NEW p \in DOMAIN reserved', p.id = job
      PROVE  \/ Within(p.attempts + 1, job)'
             \/ \E w \in Workers : held'[w] = p /\ InTime(w)' /\ Within(p.attempts, job)'
  <2>1. p \in DOMAIN reserved
    BY <1>5 DEF Untouched
  <2>2. CASE Within(p.attempts + 1, job)
    BY <1>1, <1>2, <2>1, <2>2
  <2>3. ASSUME NEW w \in Workers, held[w] = p, InTime(w), Within(p.attempts, job)
        PROVE  held'[w] = p /\ InTime(w)' /\ Within(p.attempts, job)'
    <3>1. held[w] # NoJob
      BY <1>2, <2>1, <2>3, WorkerAssumption
    <3> QED
      BY <1>1, <1>2, <1>5, <2>1, <2>3, <3>1
  <2> QED
    BY <1>3, <1>5, <2>1, <2>2, <2>3 DEF JobCounted
<1> QED
  BY <1>4, <1>5 DEF JobCounted

(* A worker goes on, keeps what it holds and has time for what is to come.  *)
LEMMA GoesOnCounted ==
  ASSUME Inv, SingleOK, CountOK, NEW w \in Workers, NEW location \in Location,
         Goto(w, location), UNCHANGED <<ready, delayed, reserved, held, stopping, open, faults>>,
         pc[w] \notin Failing,
         location \notin Closing \cup {"exited"} \/ ProcessOf[w] \in Doomed,
         location = "release" => held[w].attempts < MaxAttempts,
         held[w] # NoJob /\ InTime(w) => InTime(w)'
  PROVE  CountOK'
<1>1. /\ pc'[w] = location /\ pc \in [Workers -> Location]
      /\ \A v \in Workers \ {w} : pc'[v] = pc[v] /\ since'[v] = since[v]
  BY DEF Goto, Inv, ControlOK
<1>2. Doomed' \subseteq Doomed
  BY WorkerDooms
<1>3. DoomsCounted'
  BY <1>2, DoomsBound DEF CountOK
<1>4. RetriesCounted'
  BY <1>1 DEF CountOK, RetriesCounted
<1>5. \A v \in Workers \ {w} : InTime(v) => InTime(v)'
  BY <1>1 DEF InTime
<1>6. ASSUME NEW job \in Jobs PROVE JobCounted(job)'
  <2>1. Untouched(job)
    BY DEF Untouched
  <2>2. \A v \in Workers : pc[v] \in Failing => pc'[v] = pc[v] /\ since'[v] = since[v]
    BY <1>1
  <2>3. Threats(job)' \subseteq Threats(job)
    <3>1. Threats(job)' \subseteq Threats(job) \cup {}
      BY <1>2, <2>1, <2>2, ThreatsKept
    <3> QED
      BY <3>1
  <2> QED
    BY <1>5, <2>1, <2>3, StillCounted
<1> QED
  BY <1>3, <1>4, <1>6 DEF CountOK, AttemptsCounted

(* The steps of a worker without a job.                                     *)
LEMMA IdleStep ==
  ASSUME Inv, SingleOK, CountOK, NEW w \in Workers,
         BeginPass(w) \/ ReserveNone(w) \/ WakeUp(w) \/ BlockTimeout(w)
  PROVE  CountOK'
<1>1. /\ pc[w] \in {"loop", "reserve", "blocked"}
      /\ UNCHANGED <<ready, delayed, reserved, held, stopping, open, faults>>
      /\ \E location \in {"closeStopped", "migrateDelayed", "blocked", "loop"} :
           Goto(w, location) /\ (location = "closeStopped" => stopping[w])
  BY DEF BeginPass, ReserveNone, WakeUp, BlockTimeout, TakeToken, At, queueVars, historyVars
<1>2. held[w] = NoJob
  BY <1>1, HoldsNothing DEF Settling
<1>3. PICK location \in {"closeStopped", "migrateDelayed", "blocked", "loop"} :
        Goto(w, location) /\ (location = "closeStopped" => stopping[w])
  BY <1>1
<1>4. /\ location \in Location /\ location # "release"
      /\ location \notin Closing \cup {"exited"} \/ ProcessOf[w] \in Doomed
  BY <1>3, WorkerAssumption DEF Location, Closing, Idling, Doomed
<1>5. pc[w] \notin Failing
  BY <1>1 DEF Failing
<1> QED
  BY <1>1, <1>2, <1>3, <1>4, <1>5, GoesOnCounted

(* The next step of a job begins early enough.                              *)
LEMMA TimeLeft ==
  ASSUME Inv, SingleOK, NEW w \in Workers, NEW location \in Location, Goto(w, location),
         now' = now, UNCHANGED <<reserved, held, open>>, held[w] # NoJob,
         \/ pc[w] = "handle" /\ location \in {"ack", "release", "saveFailed"}
         \/ pc[w] = "saveFailed" /\ location = "ackFailed" /\ InTime(w)
  PROVE  InTime(w)'
<1>1. /\ pc'[w] = location /\ since'[w] = now
      /\ since \in [Workers -> Nat] /\ now \in Nat /\ IsZSet(reserved)
  BY DEF Goto, Inv, ControlOK, QueueOK, QueueTypeOK
<1>2. Longest \in Nat /\ Latency \in Nat /\ Timeout \in Nat /\ since[w] \in Nat
  BY <1>1, Durations, WorkerAssumption
<1>3. now <= since[w] + Takes(pc[w])
  BY DEF SingleOK, Timely, Settling
<1>4. CASE location = "ack"
  BY <1>1, <1>4 DEF InTime
<1>5. CASE pc[w] = "handle" /\ location \in {"release", "saveFailed"}
  <2>1. ASSUME NEW p \in DOMAIN reserved, p = held[w]
        PROVE  now + Needed(location) + Longest < reserved[p]
    <3>1. since[w] + Needed("handle") < reserved[p] /\ reserved[p] \in Nat
      BY <1>1, <1>5, <2>1 DEF SingleOK, HeldAlone, IsZSet
    <3>2. now <= since[w] + Timeout
      BY <1>3, <1>5 DEF Takes
    <3>3. Needed(location) <= Latency + Longest /\ Needed(location) \in Nat
      BY <1>2, <1>5 DEF Needed
    <3>4. Needed("handle") = Timeout + Latency + 2 * Longest
      BY DEF Needed
    <3> QED
      BY <1>1, <1>2, <3>1, <3>2, <3>3, <3>4
  <2> QED
    BY <1>1, <2>1 DEF InTime
<1>6. CASE pc[w] = "saveFailed" /\ location = "ackFailed" /\ InTime(w)
  <2>1. CASE ~open[ProcessOf[w]]
    BY <2>1 DEF InTime
  <2>2. CASE open[ProcessOf[w]]
    <3>1. ASSUME NEW p \in DOMAIN reserved, p = held[w]
          PROVE  now + Needed(location) + Longest < reserved[p]
      <4>1. since[w] + Needed("saveFailed") + Longest < reserved[p] /\ reserved[p] \in Nat
        BY <1>1, <1>6, <2>2, <3>1 DEF InTime, IsZSet
      <4>2. now <= since[w] + Latency
        BY <1>3, <1>6 DEF Takes
      <4>3. Needed("saveFailed") = Latency + Longest /\ Needed(location) = Longest
        BY <1>6 DEF Needed
      <4> QED
        BY <1>1, <1>2, <4>1, <4>2, <4>3
    <3> QED
      BY <1>1, <3>1 DEF InTime
  <2> QED
    BY <2>1, <2>2
<1> QED
  BY <1>4, <1>5, <1>6

(* A handler that ends leaves time for what follows.                        *)
LEMMA HandlerCounted ==
  ASSUME Inv, SingleOK, CountOK, NEW w \in Workers, HandlerReturns(w) \/ HandlerThrows(w)
  PROVE  CountOK'
<1>1. /\ pc[w] = "handle" /\ now' = now
      /\ UNCHANGED <<ready, delayed, reserved, held, stopping, open, faults>>
      /\ \E location \in {"ack", "release", "saveFailed"} :
           Goto(w, location) /\ (location = "release" => held[w].attempts < MaxAttempts)
  BY DEF HandlerReturns, HandlerThrows, AfterError, At, queueVars, historyVars
<1>2. PICK location \in {"ack", "release", "saveFailed"} :
        Goto(w, location) /\ (location = "release" => held[w].attempts < MaxAttempts)
  BY <1>1
<1>3. /\ location \in Location /\ location \notin Closing \cup {"exited"}
      /\ pc[w] \notin Failing
  BY <1>1 DEF Location, Settling, Closing, Failing
<1>4. held[w] # NoJob => InTime(w)'
  BY <1>1, <1>2, <1>3, TimeLeft
<1> QED
  BY <1>1, <1>2, <1>3, <1>4, GoesOnCounted

(* The record of a failure is one more thing that has to be done in time.   *)
LEMMA SaveFailedCounted ==
  ASSUME Inv, SingleOK, CountOK, NEW w \in Workers, SaveFailed(w)
  PROVE  CountOK'
<1>1. /\ pc[w] = "saveFailed" /\ now' = now /\ Goto(w, "ackFailed")
      /\ UNCHANGED <<ready, delayed, reserved, held, stopping, open, faults>>
  BY DEF SaveFailed, At, queueVars
<1>2. /\ "ackFailed" \in Location /\ "ackFailed" \notin Closing \cup {"exited"}
      /\ pc[w] \notin Failing
  BY <1>1 DEF Location, Settling, Closing, Failing
<1>3. held[w] # NoJob /\ InTime(w) => InTime(w)'
  BY <1>1, <1>2, TimeLeft
<1> QED
  BY <1>1, <1>2, <1>3, GoesOnCounted

(* A worker loses what it holds to a fault, or to one that closed its client*)
(* before.                                                                  *)
LEMMA LosesCounted ==
  ASSUME Inv, SingleOK, CountOK, NEW w \in Workers, NEW location \in Failing,
         Goto(w, location), Drop(w), pc[w] \in Fatal \cup {"handle"},
         UNCHANGED <<ready, delayed, reserved, now, stopping, open>>,
         \/ ~open[ProcessOf[w]] /\ faults' = faults
         \/ faults' = faults + 1
  PROVE  CountOK'
<1> DEFINE p == ProcessOf[w]
<1>1. /\ pc'[w] = location /\ since'[w] = now /\ pc \in [Workers -> Location]
      /\ \A v \in Workers \ {w} : pc'[v] = pc[v] /\ since'[v] = since[v]
      /\ location \in Location /\ since \in [Workers -> Nat] /\ now \in Nat /\ IsZSet(reserved)
  BY DEF Goto, Inv, ControlOK, Failing, Location, Closing, QueueOK, QueueTypeOK
<1>2. /\ held' = [held EXCEPT ![w] = NoJob] /\ held \in [Workers -> Payload \cup {NoJob}]
      /\ p \in Processes
  BY WorkerAssumption DEF Drop, Inv, ControlOK
<1>3. /\ pc[w] \notin Failing /\ pc[w] # "ack"
      /\ held[w] # NoJob => pc[w] \in {"handle", "release", "saveFailed", "ackFailed"}
  BY DEF SingleOK, HeldAlone, Fatal, Failing, Settling, Idling
<1>4. Doomed' \subseteq Doomed \cup {p} /\ (~open[p] => Doomed' \subseteq Doomed)
  <2>1. ~open[p] => p \in Doomed
    BY <1>2 DEF Doomed
  <2> QED
    BY <1>1, <2>1, WorkerDooms
<1>5. DoomsCounted'
  BY <1>4, DoomsBound DEF CountOK
<1>6. RetriesCounted'
  <2>1. location # "release"
    BY DEF Failing
  <2> QED
    BY <1>1, <1>2, <2>1 DEF CountOK, RetriesCounted
<1>7. ASSUME NEW job \in Jobs
      PROVE  /\ Untouched(job)
             /\ Threats(job)' \subseteq Threats(job) \cup {p}
             /\ ~open[p] => Threats(job)' \subseteq Threats(job)
  <2>1. Untouched(job)
    BY <1>2 DEF Untouched
  <2>2. \A v \in Workers : pc[v] \in Failing => pc'[v] = pc[v] /\ since'[v] = since[v]
    BY <1>1, <1>3
  <2>3. Threats(job)' \subseteq Threats(job) \cup {p}
    BY <1>4, <2>1, <2>2, ThreatsKept
  <2>4. ASSUME ~open[p] PROVE Threats(job)' \subseteq Threats(job) \cup {}
    BY <1>4, <2>1, <2>2, <2>4, ThreatsKept
  <2> QED
    BY <2>1, <2>3, <2>4
<1>8. ASSUME NEW job \in Jobs, held[w] = NoJob \/ held[w].id # job
      PROVE  JobCounted(job)'
  <2>1. ASSUME NEW v \in Workers, held[v] # NoJob, held[v].id = job, InTime(v)
        PROVE  held'[v] = held[v] /\ InTime(v)'
    <3>1. v # w /\ held'[v] = held[v]
      BY <1>2, <1>8, <2>1
    <3> QED
      BY <1>1, <2>1, <3>1 DEF InTime
  <2>2. \/ faults' = faults /\ Threats(job)' \subseteq Threats(job)
        \/ faults' = faults + 1 /\ Threats(job)' \subseteq Threats(job) \cup {p}
    BY <1>7
  <2> QED
    BY <1>7, <2>1, <2>2, StillCounted
<1>9. ASSUME NEW job \in Jobs, NEW mine \in Payload, held[w] = mine, mine.id = job
      PROVE  JobCounted(job)'
  <2>0. held[w] # NoJob
    BY <1>9, WorkerAssumption
  <2>1. /\ \A q \in ToSet(ready') \cup DOMAIN delayed' : q.id # job
        /\ \A q \in DOMAIN reserved : q.id = job => q = mine
        /\ \A v \in Workers \ {w} : held[v] # NoJob => held[v].id # job
    BY <1>9, <2>0 DEF SingleOK, HeldAlone
  <2>2. \A v \in Workers : held'[v] # NoJob => held'[v].id # job
    BY <1>2, <2>1
  <2>3. mine.attempts \in Nat
    BY <1>2, <1>9, <2>0 DEF Payload
  <2>4. ASSUME mine \in DOMAIN reserved
        PROVE  Within(mine.attempts + 1, job)'
    <3>1. CASE Within(mine.attempts + 1, job)
      <4>1. \/ faults' = faults /\ Threats(job)' \subseteq Threats(job)
            \/ faults' = faults + 1 /\ Threats(job)' \subseteq Threats(job) \cup {p}
        BY <1>7
      <4> QED
        BY <2>3, <3>1, <4>1, WithinBound DEF CountOK
    <3>2. CASE InTime(w) /\ Within(mine.attempts, job) /\ ~open[p]
      <4>1. p \in Threats(job)
        BY <1>2, <1>9, <2>0, <3>2 DEF Threats, Doomed, HasJob
      <4>2. p \notin Threats(job)'
        BY <2>2, <3>2 DEF Threats, HasJob
      <4>3. Threats(job)' \subseteq Threats(job) \ {p}
        BY <1>7, <3>2, <4>2
      <4> QED
        BY <2>3, <3>2, <4>1, <4>3, WithinBound DEF CountOK
    <3>3. CASE InTime(w) /\ Within(mine.attempts, job) /\ open[p]
      <4>1. faults' = faults + 1
        BY <3>3
      <4>2. now + Longest < reserved[mine]
        <5>1. /\ Longest \in Nat /\ Latency \in Nat /\ Timeout \in Nat /\ since[w] \in Nat
              /\ reserved[mine] \in Nat /\ Needed(pc[w]) \in Nat
          BY <1>1, <2>4, Durations, WorkerAssumption DEF IsZSet
        <5>2. now <= since[w] + Takes(pc[w])
          BY <1>3, <1>9, <2>0 DEF SingleOK, Timely, Settling
        <5>3. CASE pc[w] = "handle"
          <6>1. since[w] + Needed("handle") < reserved[mine]
            BY <1>9, <2>0, <2>4, <5>3 DEF SingleOK, HeldAlone
          <6>2. Needed("handle") = Timeout + Latency + 2 * Longest /\ Takes("handle") = Timeout
            BY DEF Needed, Takes
          <6> QED
            BY <1>1, <5>1, <5>2, <5>3, <6>1, <6>2
        <5>4. CASE pc[w] # "handle"
          <6>1. since[w] + Needed(pc[w]) + Longest < reserved[mine]
            BY <1>3, <1>9, <2>4, <3>3, <5>4 DEF InTime
          <6>2. Takes(pc[w]) <= Needed(pc[w]) /\ Takes(pc[w]) \in Nat
            BY <1>1, <1>3, <1>9, <2>0, Durations DEF Settling
          <6> QED
            BY <1>1, <5>1, <5>2, <6>1, <6>2
        <5> QED
          BY <5>3, <5>4
      <4>3. Charged(p, job)'
        BY <1>1, <2>1, <2>2, <4>2 DEF Charged
      <4>4. p \notin Threats(job)'
        BY <3>3, <4>3 DEF Threats
      <4>5. Threats(job)' \subseteq Threats(job)
        BY <1>7, <4>4
      <4> QED
        BY <2>3, <3>3, <4>1, <4>5, LossPaid DEF CountOK
    <3> QED
      <4>1. JobCounted(job)
        BY DEF CountOK, AttemptsCounted
      <4>2. \A v \in Workers : held[v] = mine => v = w
        BY <1>9, <2>0 DEF SingleOK, HeldAlone
      <4> QED
        BY <1>9, <2>0, <2>4, <3>1, <3>2, <3>3, <4>1, <4>2 DEF JobCounted
  <2> QED
    BY <2>1, <2>4 DEF JobCounted
<1>10. ASSUME NEW job \in Jobs PROVE JobCounted(job)'
  <2>1. CASE held[w] = NoJob \/ held[w].id # job
    BY <1>8, <2>1
  <2>2. CASE held[w] # NoJob /\ held[w].id = job
    BY <1>2, <1>9, <2>2
  <2> QED
    BY <2>1, <2>2
<1> QED
  BY <1>5, <1>6, <1>10 DEF CountOK, AttemptsCounted

(* A handler that hangs and a call that is rejected lose the job.           *)
LEMMA FailsCounted ==
  ASSUME Inv, SingleOK, CountOK, NEW w \in Workers, HandlerTimesOut(w) \/ CallRejected(w)
  PROVE  CountOK'
<1>1. /\ pc[w] \in Fatal \cup {"handle"} /\ Drop(w)
      /\ UNCHANGED <<ready, delayed, reserved, now, stopping, open>>
      /\ \/ ~open[ProcessOf[w]] /\ faults' = faults
         \/ faults' = faults + 1
      /\ \E location \in Failing : Goto(w, location)
  BY DEF HandlerTimesOut, CallRejected, Fault, At, Failing, queueVars
<1> QED
  BY <1>1, LosesCounted

(* An ack lets go of the payload: there is nothing left to count.           *)
LEMMA AckCounted ==
  ASSUME Inv, SingleOK, CountOK, NEW w \in Workers, Ack(w) \/ AckFailed(w)
  PROVE  CountOK'
<1>1. /\ pc[w] \in {"ack", "ackFailed"} /\ Goto(w, "loop") /\ Drop(w)
      /\ UNCHANGED <<ready, delayed, stopping, open, faults>>
      /\ reserved' = ZRem(reserved, {held[w]})
  BY DEF Ack, AckFailed, AckCommand, At, historyVars
<1>2. /\ pc'[w] = "loop" /\ pc \in [Workers -> Location]
      /\ \A v \in Workers \ {w} : pc'[v] = pc[v] /\ since'[v] = since[v]
      /\ held' = [held EXCEPT ![w] = NoJob] /\ held \in [Workers -> Payload \cup {NoJob}]
      /\ held[w] # NoJob
  BY <1>1 DEF Goto, Drop, Inv, ControlOK, Settling
<1>3. /\ "loop" \in Location \ (Closing \cup {"exited"})
      /\ pc[w] \notin Failing
  BY <1>1 DEF Location, Idling, Closing, Failing
<1>4. /\ DOMAIN reserved' = DOMAIN reserved \ {held[w]}
      /\ \A q \in DOMAIN reserved' : reserved'[q] = reserved[q]
  BY <1>1 DEF ZRem
<1>5. Doomed' \subseteq Doomed
  BY <1>1, <1>3, WorkerDooms
<1>6. DoomsCounted' /\ RetriesCounted'
  BY <1>1, <1>2, <1>5, DoomsBound DEF CountOK, RetriesCounted
<1>7. ASSUME NEW job \in Jobs PROVE JobCounted(job)'
  <2>1. CASE held[w].id = job
    BY <1>1, <1>2, <1>4, <2>1 DEF JobCounted, SingleOK, HeldAlone
  <2>2. CASE held[w].id # job
    <3>1. Untouched(job)
      BY <1>1, <1>2, <1>4 DEF Untouched
    <3>2. Threats(job)' \subseteq Threats(job) \cup {}
      BY <1>1, <1>2, <1>3, <1>5, <3>1, ThreatsKept
    <3>3. \A v \in Workers : held[v] # NoJob /\ held[v].id = job /\ InTime(v) =>
            held'[v] = held[v] /\ InTime(v)'
      BY <1>1, <1>2, <1>4, <2>2 DEF InTime
    <3> QED
      BY <1>1, <3>1, <3>2, <3>3, StillCounted
  <2> QED
    BY <2>1, <2>2
<1> QED
  BY <1>6, <1>7 DEF CountOK, AttemptsCounted

(* An ack that is rejected by a fault has a retry to spare; by a client that*)
(* is closed, no time is needed for it.                                     *)
LEMMA AckRejectedCounted ==
  ASSUME Inv, SingleOK, CountOK, NEW w \in Workers, AckRejected(w)
  PROVE  CountOK'
<1> DEFINE p == ProcessOf[w]
           location == AfterError(w)
<1>1. /\ pc[w] = "ack" /\ Goto(w, location)
      /\ UNCHANGED <<ready, delayed, held, stopping, open>>
      /\ \A q \in DOMAIN reserved' : q \in DOMAIN reserved /\ reserved'[q] = reserved[q]
      /\ \/ ~open[p] /\ faults' = faults
         \/ faults' = faults + 1
  BY DEF AckRejected, Fault, AckCommand, ZRem, At, queueVars
<1>2. /\ location \in {"release", "saveFailed"}
      /\ location = "release" => held[w].attempts < MaxAttempts
  BY DEF AfterError
<1> HIDE DEF location
<1>3. /\ location \in Location /\ location \notin Closing \cup {"exited"}
      /\ pc[w] \notin Failing
  BY <1>1, <1>2 DEF Location, Settling, Closing, Failing
<1>4. /\ pc'[w] = location /\ pc \in [Workers -> Location]
      /\ \A v \in Workers \ {w} : pc'[v] = pc[v] /\ since'[v] = since[v]
      /\ held \in [Workers -> Payload \cup {NoJob}] /\ held[w] # NoJob
  BY <1>1 DEF Goto, Inv, ControlOK, Settling
<1>5. Doomed' \subseteq Doomed
  BY <1>1, <1>3, WorkerDooms
<1>6. DoomsCounted' /\ RetriesCounted'
  BY <1>1, <1>2, <1>4, <1>5, DoomsBound DEF CountOK, RetriesCounted
<1>7. ASSUME NEW job \in Jobs
      PROVE  Untouched(job) /\ Threats(job)' \subseteq Threats(job)
  <2>1. Untouched(job)
    BY <1>1 DEF Untouched
  <2>2. Threats(job)' \subseteq Threats(job) \cup {}
    BY <1>1, <1>3, <1>4, <1>5, <2>1, ThreatsKept
  <2> QED
    BY <2>1, <2>2
<1>8. \A v \in Workers \ {w} : InTime(v) => InTime(v)'
  BY <1>1, <1>4 DEF InTime
<1>9. ~open[p] => InTime(w)'
  BY <1>1 DEF InTime
<1>10. ASSUME NEW job \in Jobs, held[w].id # job \/ ~open[p]
       PROVE  JobCounted(job)'
  <2>1. \A v \in Workers : held[v] # NoJob /\ held[v].id = job /\ InTime(v) =>
          held'[v] = held[v] /\ InTime(v)'
    BY <1>1, <1>8, <1>9, <1>10
  <2>2. Threats(job)' \subseteq Threats(job) \cup {p}
    BY <1>7
  <2> QED
    BY <1>1, <1>7, <2>1, <2>2, StillCounted
<1>11. ASSUME NEW job \in Jobs, NEW mine \in Payload, held[w] = mine, mine.id = job,
              faults' = faults + 1
       PROVE  JobCounted(job)'
  <2>1. /\ \A q \in ToSet(ready') \cup DOMAIN delayed' : q.id # job
        /\ \A q \in DOMAIN reserved' : q.id = job => q = mine
        /\ \A v \in Workers : held[v] = mine => v = w
    BY <1>1, <1>4, <1>11 DEF SingleOK, HeldAlone
  <2>2. mine.attempts \in Nat /\ mine.attempts + 1 \in Nat
    BY <1>11 DEF Payload
  <2>3. Threats(job)' \subseteq Threats(job) /\ Threats(job)' \subseteq Threats(job) \cup {p}
    BY <1>7
  <2>4. ASSUME mine \in DOMAIN reserved'
        PROVE  Within(mine.attempts + 1, job)'
    <3>1. mine \in DOMAIN reserved
      BY <1>1, <2>4
    <3>2. Within(mine.attempts + 1, job) \/ Within(mine.attempts, job)
      BY <1>11, <2>1, <3>1 DEF CountOK, AttemptsCounted, JobCounted
    <3>3. CASE Within(mine.attempts + 1, job)
      BY <1>11, <2>2, <2>3, <3>3, WithinBound DEF CountOK
    <3>4. CASE Within(mine.attempts, job)
      BY <1>11, <2>2, <2>3, <3>4, LossPaid DEF CountOK
    <3> QED
      BY <3>2, <3>3, <3>4
  <2> QED
    BY <2>1, <2>4 DEF JobCounted
<1>12. ASSUME NEW job \in Jobs PROVE JobCounted(job)'
  <2>1. CASE held[w].id # job \/ ~open[p]
    BY <1>10, <2>1
  <2>2. CASE held[w].id = job /\ open[p]
    BY <1>1, <1>4, <1>11, <2>2
  <2> QED
    BY <2>1, <2>2
<1> QED
  BY <1>6, <1>12 DEF CountOK, AttemptsCounted

(* A job that is new, or may be tried again, is within the bound whatever   *)
(* the doomed processes do.                                                 *)
LEMMA Affordable ==
  ASSUME DoomsCounted', faults' \in Nat, NEW job, NEW n \in Nat, n <= MaxAttempts
  PROVE  Within(n, job)'
<1>1. Threats(job)' \subseteq Doomed'
  BY DEF Threats
<1>2. /\ Cardinality(Threats(job)') \in Nat /\ Cardinality(Doomed') \in Nat
      /\ Cardinality(Threats(job)') <= Cardinality(Doomed')
  BY <1>1, Cardinals DEF DoomsCounted
<1>3. Cardinality(Doomed') <= faults' /\ MaxAttempts \in Nat
  BY WorkerAssumption DEF DoomsCounted
<1> QED
  BY <1>2, <1>3 DEF Within

(* A job is released only if it may be tried again.                         *)
LEMMA ReleaseCounted ==
  ASSUME Inv, SingleOK, CountOK, NEW w \in Workers, Release(w)
  PROVE  CountOK'
<1> DEFINE availableAt == since[w] + RetryDelay(held[w].attempts)
           again == [held[w] EXCEPT !.availableAt = availableAt]
<1>1. /\ pc[w] = "release"
      /\ reserved' = ZRem(reserved, {held[w]})
      /\ delayed' = ZAdd(delayed, again, availableAt)
      /\ Goto(w, "loop") /\ Drop(w)
      /\ UNCHANGED <<ready, stopping, open, faults>>
  BY DEF Release, ReleaseScript, At, historyVars
<1>2. /\ pc'[w] = "loop" /\ pc \in [Workers -> Location]
      /\ \A v \in Workers \ {w} : pc'[v] = pc[v] /\ since'[v] = since[v]
      /\ held' = [held EXCEPT ![w] = NoJob] /\ held \in [Workers -> Payload \cup {NoJob}]
      /\ held[w] # NoJob
  BY <1>1 DEF Goto, Drop, Inv, ControlOK, Settling
<1>3. /\ "loop" \in Location \ (Closing \cup {"exited"})
      /\ pc[w] \notin Failing
  BY <1>1 DEF Location, Idling, Closing, Failing
<1>4. /\ DOMAIN reserved' = DOMAIN reserved \ {held[w]}
      /\ \A q \in DOMAIN reserved' : reserved'[q] = reserved[q]
      /\ DOMAIN delayed' = DOMAIN delayed \cup {again}
      /\ again.id = held[w].id /\ again.attempts = held[w].attempts
  BY <1>1, <1>2 DEF ZRem, ZAdd, Payload
<1> HIDE DEF again
<1>5. Doomed' \subseteq Doomed
  BY <1>1, <1>3, WorkerDooms
<1>6. DoomsCounted' /\ RetriesCounted'
  BY <1>1, <1>2, <1>5, DoomsBound DEF CountOK, RetriesCounted
<1>7. ASSUME NEW job \in Jobs PROVE JobCounted(job)'
  <2>1. CASE held[w].id = job
    <3>1. /\ \A q \in DOMAIN reserved' : q.id # job
          /\ \A q \in ToSet(ready') \cup DOMAIN delayed' : q.id = job => q = again
      BY <1>1, <1>2, <1>4, <2>1 DEF SingleOK, HeldAlone
    <3>2. ASSUME NEW mine, mine = again
          PROVE  Within(mine.attempts + 1, job)'
      <4>1. mine.attempts + 1 \in Nat /\ mine.attempts + 1 <= MaxAttempts
        BY <1>1, <1>2, <1>4, <3>2, WorkerAssumption DEF CountOK, RetriesCounted, Payload
      <4>2. faults' \in Nat
        BY <1>1 DEF Inv, RestOK
      <4> QED
        BY <1>6, <4>1, <4>2, Affordable
    <3> QED
      BY <3>1, <3>2 DEF JobCounted
  <2>2. CASE held[w].id # job
    <3>1. Untouched(job)
      BY <1>1, <1>2, <1>4, <2>2 DEF Untouched
    <3>2. Threats(job)' \subseteq Threats(job) \cup {}
      BY <1>1, <1>2, <1>3, <1>5, <3>1, ThreatsKept
    <3>3. \A v \in Workers : held[v] # NoJob /\ held[v].id = job /\ InTime(v) =>
            held'[v] = held[v] /\ InTime(v)'
      BY <1>1, <1>2, <1>4, <2>2 DEF InTime
    <3> QED
      BY <1>1, <3>1, <3>2, <3>3, StillCounted
  <2> QED
    BY <2>1, <2>2
<1> QED
  BY <1>6, <1>7 DEF CountOK, AttemptsCounted

(* A job that becomes ready counts as one somebody will be served.          *)
LEMMA MigrateDelayedCounted ==
  ASSUME Inv, SingleOK, CountOK, NEW w \in Workers, MigrateDelayed(w)
  PROVE  CountOK'
<1>1. PICK batch \in Batches(delayed, since[w]) :
        /\ MigrateFromDelayed(batch)
        /\ Goto(w, IF Len(batch) = BatchSize THEN "migrateDelayed" ELSE "migrateReserved")
  BY DEF MigrateDelayed
<1>2. PICK location \in {"migrateDelayed", "migrateReserved"} : Goto(w, location)
  BY <1>1
<1>3. /\ pc[w] = "migrateDelayed" /\ UNCHANGED <<reserved, held, stopping, open, faults>>
      /\ location \in Location /\ location \notin Closing \cup {"exited"}
      /\ pc[w] \notin Failing /\ location # "release"
  BY <1>1 DEF MigrateDelayed, MigrateFromDelayed, At, historyVars, Location, Idling, Closing, Failing
<1>4. /\ pc'[w] = location /\ pc \in [Workers -> Location] /\ held[w] = NoJob
      /\ \A v \in Workers \ {w} : pc'[v] = pc[v] /\ since'[v] = since[v]
  BY <1>2, <1>3, HoldsNothing DEF Goto, Inv, ControlOK, Settling
<1>5. ToSet(ready') \cup DOMAIN delayed' \subseteq ToSet(ready) \cup DOMAIN delayed
  <2>1. ready \in Seq(Payload) /\ IsZSet(delayed) /\ IsFiniteSet(DOMAIN delayed)
    BY DEF Inv, QueueOK, QueueTypeOK, FiniteKeys
  <2>2. batch \in Seq(Payload) /\ ToSet(batch) \subseteq DOMAIN delayed
    BY <2>1, BatchProperties
  <2>3. ready' = ready \o batch /\ delayed' = ZRem(delayed, ToSet(batch))
    BY <1>1 DEF MigrateFromDelayed
  <2>4. DOMAIN delayed' \subseteq DOMAIN delayed
    BY <2>3 DEF ZRem
  <2>5. ToSet(ready') = ToSet(ready) \cup ToSet(batch)
    BY <2>1, <2>2, <2>3, ToSetConcat
  <2> QED
    BY <2>2, <2>4, <2>5
<1>6. Doomed' \subseteq Doomed
  BY <1>2, <1>3, WorkerDooms
<1>7. DoomsCounted' /\ RetriesCounted'
  BY <1>3, <1>4, <1>6, DoomsBound DEF CountOK, RetriesCounted
<1>8. ASSUME NEW job \in Jobs PROVE JobCounted(job)'
  <2>1. Untouched(job)
    BY <1>3, <1>5 DEF Untouched
  <2>2. Threats(job)' \subseteq Threats(job) \cup {}
    BY <1>3, <1>4, <1>6, <2>1, ThreatsKept
  <2>3. \A v \in Workers : held[v] # NoJob /\ held[v].id = job /\ InTime(v) =>
          held'[v] = held[v] /\ InTime(v)'
    BY <1>3, <1>4 DEF InTime
  <2> QED
    BY <1>3, <2>1, <2>2, <2>3, StillCounted
<1> QED
  BY <1>7, <1>8 DEF CountOK, AttemptsCounted

(* A reservation that expired is nobody's, and no failing process waits for *)
(* it any more: it has been paid for.                                       *)
LEMMA MigrateReservedCounted ==
  ASSUME Inv, SingleOK, CountOK, SingleOK', NEW w \in Workers, MigrateReserved(w)
  PROVE  CountOK'
<1>1. PICK batch \in Batches(reserved, since[w]) :
        /\ MigrateFromReserved(batch)
        /\ Goto(w, IF Len(batch) = BatchSize THEN "migrateReserved" ELSE "reserve")
  BY DEF MigrateReserved
<1>2. PICK location \in {"migrateReserved", "reserve"} : Goto(w, location)
  BY <1>1
<1>3. /\ pc[w] = "migrateReserved" /\ UNCHANGED <<delayed, held, stopping, open, faults, now>>
      /\ location \in Location /\ location \notin Closing \cup {"exited"}
      /\ pc[w] \notin Failing /\ location # "release"
  BY <1>1 DEF MigrateReserved, MigrateFromReserved, At, historyVars, Location, Idling, Closing, Failing
<1>4. /\ pc'[w] = location /\ pc \in [Workers -> Location] /\ held[w] = NoJob
      /\ \A v \in Workers \ {w} : pc'[v] = pc[v] /\ since'[v] = since[v]
      /\ held \in [Workers -> Payload \cup {NoJob}]
      /\ since \in [Workers -> Nat] /\ now \in Nat
  BY <1>2, <1>3, HoldsNothing DEF Goto, Inv, ControlOK, Settling, QueueOK, QueueTypeOK
<1>5. /\ ToSet(ready') = ToSet(ready) \cup ToSet(batch)
      /\ DOMAIN reserved' = DOMAIN reserved \ ToSet(batch)
      /\ \A p \in DOMAIN reserved' : reserved'[p] = reserved[p]
      /\ \A p \in ToSet(batch) : p \in DOMAIN reserved /\ p \in Payload
                                 /\ reserved[p] \in Nat /\ reserved[p] <= since[w]
  <2>1. ready \in Seq(Payload) /\ IsZSet(reserved) /\ IsFiniteSet(DOMAIN reserved)
    BY DEF Inv, QueueOK, QueueTypeOK, FiniteKeys
  <2>2. /\ batch \in Seq(Payload)
        /\ \A p \in ToSet(batch) : p \in DOMAIN reserved /\ reserved[p] <= since[w]
    BY <2>1, BatchApart, BatchProperties DEF SingleOK, Apart
  <2>3. ready' = ready \o batch /\ reserved' = ZRem(reserved, ToSet(batch))
    BY <1>1 DEF MigrateFromReserved
  <2>4. ToSet(ready') = ToSet(ready) \cup ToSet(batch)
    BY <2>1, <2>2, <2>3, ToSetConcat
  <2>5. \A p \in DOMAIN reserved : p \in Payload /\ reserved[p] \in Nat
    BY <2>1 DEF IsZSet
  <2> QED
    BY <2>2, <2>3, <2>4, <2>5 DEF ZRem
<1>6. Doomed' \subseteq Doomed
  BY <1>2, <1>3, WorkerDooms
<1>7. DoomsCounted' /\ RetriesCounted'
  BY <1>3, <1>4, <1>6, DoomsBound DEF CountOK, RetriesCounted
<1>8. ASSUME NEW job \in Jobs, \A p \in ToSet(batch) : p.id # job
      PROVE  JobCounted(job)'
  <2>1. Untouched(job)
    BY <1>3, <1>5, <1>8 DEF Untouched
  <2>2. Threats(job)' \subseteq Threats(job) \cup {}
    BY <1>3, <1>4, <1>6, <2>1, ThreatsKept
  <2>3. \A v \in Workers : held[v] # NoJob /\ held[v].id = job /\ InTime(v) =>
          held'[v] = held[v] /\ InTime(v)'
    BY <1>3, <1>4, <1>5 DEF InTime
  <2> QED
    BY <1>3, <2>1, <2>2, <2>3, StillCounted
<1>9. ASSUME NEW job \in Jobs, NEW mine \in ToSet(batch), mine.id = job
      PROVE  JobCounted(job)'
  <2>1. \A v \in Workers : held[v] # NoJob => held[v].id # job
    BY <1>3, <1>5, <1>9 DEF SingleOK, HeldAlone
  <2>2. /\ \A p \in DOMAIN reserved' : p.id # job
        /\ \A p \in ToSet(ready') \cup DOMAIN delayed' : p.id = job => p = mine
    BY <1>3, <1>5, <1>9 DEF SingleOK, Apart
  <2>3. Within(mine.attempts + 1, job)
    <3>1. \A v \in Workers : held[v] # mine
      BY <1>4, <1>5, <1>9, <2>1, WorkerAssumption
    <3> QED
      BY <1>5, <1>9, <3>1 DEF CountOK, AttemptsCounted, JobCounted
  <2>4. Threats(job)' \subseteq Threats(job)
    <3>1. ASSUME NEW p \in Processes PROVE ~Charged(p, job)
      <4>1. ASSUME NEW v \in Workers, pc[v] \in Failing
            PROVE  ~(since[v] + Longest < reserved[mine])
        <5>1. now <= since[v] + Longest /\ since[w] <= now
          BY <4>1 DEF SingleOK, Timely, Takes, Closing, Failing
        <5>2. Longest \in Nat /\ since[v] \in Nat /\ since[w] \in Nat
          BY <1>4, Durations
        <5> QED
          BY <1>4, <1>5, <5>1, <5>2
      <4> QED
        BY <1>5, <1>9, <4>1 DEF Charged
    <3>2. \A p \in Processes : HasJob(p, job)' => HasJob(p, job)
      BY <1>3 DEF HasJob
    <3> QED
      BY <1>3, <1>6, <3>1, <3>2 DEF Threats, Doomed
  <2>5. mine.attempts + 1 \in Nat /\ Threats(job)' \subseteq Threats(job) \cup {w}
    BY <1>5, <1>9, <2>4 DEF Payload
  <2>6. Within(mine.attempts + 1, job)'
    BY <1>3, <2>3, <2>4, <2>5, WithinBound DEF CountOK
  <2> QED
    BY <2>2, <2>6 DEF JobCounted
<1> QED
  BY <1>7, <1>8, <1>9 DEF CountOK, AttemptsCounted

(* Who is served a job has one attempt more, which was allowed for.         *)
LEMMA ReserveJobCounted ==
  ASSUME Prompt, Inv, SingleOK, CountOK, SingleOK', NEW w \in Workers, ReserveJob(w)
  PROVE  CountOK'
<1> DEFINE p == CountAttempt(Head(ready))
           location == IF Head(ready).id \in Malformed \cup Unhandled
                       THEN "saveFailed" ELSE "handle"
<1>1. /\ ready # <<>> /\ pc[w] = "reserve" /\ open[ProcessOf[w]]
      /\ ready' = Tail(ready)
      /\ reserved' = ZAdd(reserved, p, ReservedUntil(since[w]))
      /\ held' = [held EXCEPT ![w] = p]
      /\ Goto(w, location)
      /\ UNCHANGED <<delayed, now, stopping, open, faults>>
  BY DEF ReserveJob, PopScript, At, Answered, historyVars
<1>2. ready \in Seq(Payload) /\ Head(ready) \in Payload
  BY <1>1, HeadTailProperties DEF Inv, QueueOK, QueueTypeOK
<1>3. /\ p \in Payload /\ p.id = Head(ready).id /\ p # NoJob
      /\ p.attempts \in {Head(ready).attempts, Head(ready).attempts + 1}
  BY <1>2, CountAttemptKeepsId, WorkerAssumption DEF CountAttempt, Payload
<1>4. /\ location \in {"saveFailed", "handle"} /\ location \in Location
      /\ location \notin Closing \cup {"exited"} /\ pc[w] \notin Failing
  BY <1>1 DEF Location, Settling, Closing, Failing
<1> HIDE DEF p, location
<1>5. /\ pc'[w] = location /\ since'[w] = now /\ pc \in [Workers -> Location]
      /\ \A v \in Workers \ {w} : pc'[v] = pc[v] /\ since'[v] = since[v]
      /\ held'[w] = p /\ \A v \in Workers \ {w} : held'[v] = held[v]
      /\ since \in [Workers -> Nat] /\ now \in Nat
      /\ ProcessOf[w] \in Processes
  BY <1>1, WorkerAssumption DEF Goto, Inv, ControlOK, QueueOK, QueueTypeOK
<1>6. /\ DOMAIN reserved' = DOMAIN reserved \cup {p}
      /\ reserved'[p] = ReservedUntil(since[w])
      /\ \A q \in DOMAIN reserved' : q # p => reserved'[q] = reserved[q]
      /\ ToSet(ready) = {Head(ready)} \cup ToSet(ready')
      /\ DOMAIN delayed' = DOMAIN delayed
  BY <1>1, <1>2, ToSetHeadTail DEF ZAdd
<1>7. Doomed' \subseteq Doomed
  BY <1>1, <1>4, WorkerDooms
<1>8. DoomsCounted' /\ RetriesCounted'
  BY <1>1, <1>4, <1>5, <1>7, DoomsBound DEF CountOK, RetriesCounted
<1>9. ASSUME NEW job \in Jobs, p.id # job
      PROVE  JobCounted(job)'
  <2>1. Untouched(job)
    BY <1>5, <1>6, <1>9 DEF Untouched
  <2>2. Threats(job)' \subseteq Threats(job) \cup {}
    BY <1>1, <1>4, <1>5, <1>7, <2>1, ThreatsKept
  <2>3. \A v \in Workers : held[v] # NoJob /\ held[v].id = job /\ InTime(v) =>
          held'[v] = held[v] /\ InTime(v)'
    <3> TAKE v \in Workers
    <3> HAVE held[v] # NoJob /\ held[v].id = job /\ InTime(v)
    <3>1. v # w
      BY <1>1, HoldsNothing DEF Settling
    <3>2. \A q \in DOMAIN reserved' : q = held[v] => q \in DOMAIN reserved /\ reserved'[q] = reserved[q]
      BY <1>6, <1>9
    <3> QED
      BY <1>1, <1>5, <3>1, <3>2 DEF InTime
  <2> QED
    BY <1>1, <2>1, <2>2, <2>3, StillCounted
<1>10. ASSUME NEW job \in Jobs, NEW mine \in Payload, p = mine, mine.id = job
       PROVE  JobCounted(job)'
  <2>1. /\ \A q \in ToSet(ready') \cup DOMAIN delayed' : q.id # job
        /\ \A q \in DOMAIN reserved' : q.id = job => q = mine
        /\ \A v \in Workers \ {w} : held'[v] # NoJob => held'[v].id # job
    <3>1. held'[w] # NoJob /\ held'[w].id = job
      BY <1>3, <1>5, <1>10
    <3> QED
      BY <1>5, <1>10, <3>1 DEF SingleOK, HeldAlone
  <2>2. Within(mine.attempts, job)
    <3>1. ASSUME NEW first \in Payload, first = Head(ready)
          PROVE  Within(mine.attempts, job)
      <4>1. Within(first.attempts + 1, job)
        BY <1>3, <1>6, <1>10, <3>1 DEF CountOK, AttemptsCounted, JobCounted
      <4>2. mine.attempts \in Nat /\ first.attempts \in Nat /\ mine.attempts <= first.attempts + 1
        BY <1>3, <1>10, <3>1 DEF Payload
      <4>3. Cardinality(Threats(job)) \in Nat /\ faults \in Nat /\ MaxAttempts \in Nat
        <5>1. Threats(job) \subseteq Doomed
          BY DEF Threats
        <5> QED
          BY <5>1, Cardinals, WorkerAssumption DEF CountOK, DoomsCounted, Inv, RestOK
      <4> QED
        BY <4>1, <4>2, <4>3 DEF Within
    <3> QED
      BY <1>2, <3>1
  <2>3. Threats(job)' \subseteq Threats(job)
    <3>1. Head(ready) \in ToSet(ready) /\ Head(ready).id = job
      BY <1>3, <1>6, <1>10
    <3>2. \A q \in Processes : ~Charged(q, job)
      BY <3>1 DEF Charged
    <3>3. \A q \in Processes : ~open[q] /\ HasJob(q, job)' => HasJob(q, job)
      BY <1>1, <1>5 DEF HasJob
    <3> QED
      BY <1>1, <1>7, <3>2, <3>3 DEF Threats, Doomed
  <2>4. Within(mine.attempts, job)'
    <3>1. mine.attempts \in Nat /\ Threats(job)' \subseteq Threats(job) \cup {w}
      BY <1>10, <2>3 DEF Payload
    <3> QED
      BY <1>1, <2>2, <2>3, <3>1, WithinBound DEF CountOK
  <2>5. InTime(w)'
    <3>1. CASE location = "handle"
      BY <1>5, <3>1 DEF InTime
    <3>2. CASE location = "saveFailed"
      <4>1. now + Needed("saveFailed") + Longest < ReservedUntil(since[w])
        <5>1. now <= since[w] + Longest
          BY <1>1 DEF SingleOK, Timely, Takes
        <5>2. Longest \in Nat /\ Latency \in Nat /\ Timeout \in Nat \ {0} /\ RetryAfter \in Nat
              /\ since[w] \in Nat
          BY <1>5, Durations, WorkerAssumption, QueueAssumption
        <5> QED
          BY <1>5, <5>1, <5>2 DEF Prompt, ReservedUntil, Needed
      <4> QED
        BY <1>5, <1>6, <3>2, <4>1 DEF InTime
    <3> QED
      BY <1>4, <3>1, <3>2
  <2> QED
    BY <1>5, <1>10, <2>1, <2>4, <2>5 DEF JobCounted
<1>11. ASSUME NEW job \in Jobs PROVE JobCounted(job)'
  <2>1. CASE p.id = job
    BY <1>3, <1>10, <2>1
  <2> QED
    BY <1>9, <2>1
<1> QED
  BY <1>8, <1>11 DEF CountOK, AttemptsCounted

(* A client that closes was counted when it was doomed to.                  *)
LEMMA CloseCounted ==
  ASSUME Inv, SingleOK, CountOK, NEW w \in Workers, Close(w)
  PROVE  CountOK'
<1> DEFINE p == ProcessOf[w]
<1>1. /\ pc[w] \in Closing /\ Goto(w, "exited")
      /\ open' = [open EXCEPT ![p] = FALSE]
      /\ \A v \in Workers : ProcessOf[v] # p => (stopping'[v] <=> stopping[v])
      /\ UNCHANGED <<ready, delayed, reserved, held, faults>>
  <2>1. \A v \in Workers : ProcessOf[v] # p => (stopping'[v] <=> stopping[v])
    BY DEF Close, Siblings
  <2> QED
    BY <2>1 DEF Close, queueVars, historyVars
<1>2. /\ pc'[w] = "exited" /\ pc \in [Workers -> Location]
      /\ \A v \in Workers \ {w} : pc'[v] = pc[v] /\ since'[v] = since[v]
      /\ held[w] = NoJob /\ p \in Processes /\ ~open'[p] /\ p \in Doomed
      /\ \A q \in Processes \ {p} : open'[q] = open[q]
  <2>1. held[w] = NoJob
    BY <1>1, HoldsNothing DEF Closing, Settling
  <2>2. p \in Processes /\ open \in [Processes -> BOOLEAN]
    BY WorkerAssumption DEF Inv, RestOK
  <2> QED
    BY <1>1, <2>1, <2>2 DEF Goto, Inv, ControlOK, Doomed
<1>3. Doomed' \subseteq Doomed
  BY <1>1, <1>2 DEF Doomed
<1>4. DoomsCounted'
  BY <1>1, <1>3, DoomsBound DEF CountOK
<1>5. RetriesCounted'
  BY <1>1, <1>2 DEF CountOK, RetriesCounted
<1>6. ASSUME NEW job \in Jobs PROVE JobCounted(job)'
  <2>1. Untouched(job)
    BY <1>1 DEF Untouched
  <2>2. \A v \in Workers : ProcessOf[v] \notin {p} => pc'[v] = pc[v] /\ since'[v] = since[v]
    BY <1>2
  <2>3. Threats(job)' \subseteq Threats(job) \cup {p}
    BY <1>2, <1>3, <2>1, <2>2, ThreatsKept
  <2>4. p \in Threats(job)' => p \in Threats(job)
    <3>1. p \in Threats(job)' => HasJob(p, job)'
      BY <1>2 DEF Threats
    <3>2. HasJob(p, job)' => HasJob(p, job)
      BY <1>1 DEF HasJob
    <3>3. HasJob(p, job) => ~Charged(p, job)
      BY DEF HasJob, Charged
    <3> QED
      BY <1>2, <3>1, <3>2, <3>3 DEF Threats
  <2>5. \A v \in Workers : held[v] # NoJob /\ held[v].id = job /\ InTime(v) =>
          held'[v] = held[v] /\ InTime(v)'
    <3> TAKE v \in Workers
    <3> HAVE held[v] # NoJob /\ held[v].id = job /\ InTime(v)
    <3>1. v # w /\ held'[v] = held[v] /\ ProcessOf[v] \in Processes
      BY <1>1, <1>2, WorkerAssumption
    <3> QED
      BY <1>1, <1>2, <3>1 DEF InTime
  <2>6. Threats(job)' \subseteq Threats(job)
    BY <2>3, <2>4
  <2> QED
    BY <1>1, <2>1, <2>5, <2>6, StillCounted
<1> QED
  BY <1>4, <1>5, <1>6 DEF CountOK, AttemptsCounted

(* A new job has its attempts before it.                                    *)
LEMMA EnqueueCounted ==
  ASSUME Inv, CountOK, NEW job \in Jobs, NEW delay \in Delays, Enqueue(job, delay)
  PROVE  CountOK'
<1> DEFINE envelope == [id |-> job, attempts |-> 0, availableAt |-> now + delay]
<1>1. /\ job \notin enqueued /\ UNCHANGED <<reserved, pc, held, since, stopping, open, faults>>
      /\ \/ ready' = Append(ready, envelope) /\ delayed' = delayed
         \/ ready' = ready /\ delayed' = ZAdd(delayed, envelope, now + delay)
  BY DEF Enqueue, EnqueueScript, workerVars
<1>2. envelope \in Payload /\ envelope.id = job /\ envelope.attempts = 0
  BY WorkerAssumption DEF Inv, QueueOK, QueueTypeOK, Payload
<1> HIDE DEF envelope
<1>3. \A p \in Stored : p.id # job
  BY <1>1 DEF Inv, KnownJobs, StoredIds
<1>4. ToSet(ready') \cup DOMAIN delayed' \subseteq ToSet(ready) \cup DOMAIN delayed \cup {envelope}
  <2>1. CASE ready' = Append(ready, envelope) /\ delayed' = delayed
    BY <1>2, <2>1, ToSetAppend DEF Inv, QueueOK, QueueTypeOK
  <2>2. CASE ready' = ready /\ delayed' = ZAdd(delayed, envelope, now + delay)
    BY <2>2 DEF ZAdd
  <2> QED
    BY <1>1, <2>1, <2>2
<1>5. Doomed' = Doomed
  BY <1>1 DEF Doomed
<1>6. DoomsCounted' /\ RetriesCounted' /\ faults' \in Nat
  BY <1>1, <1>5 DEF CountOK, DoomsCounted, RetriesCounted, Inv, RestOK
<1>7. ASSUME NEW other \in Jobs \ {job} PROVE JobCounted(other)'
  <2>1. Untouched(other)
    BY <1>1, <1>2, <1>4 DEF Untouched
  <2>2. Threats(other)' \subseteq Threats(other) \cup {}
    BY <1>1, <1>5, <2>1, ThreatsKept
  <2>3. \A v \in Workers : InTime(v) => InTime(v)'
    BY <1>1 DEF InTime
  <2> QED
    BY <1>1, <2>1, <2>2, <2>3, StillCounted
<1>8. JobCounted(job)'
  <2>1. /\ \A p \in DOMAIN reserved' : p.id # job
        /\ \A p \in ToSet(ready') \cup DOMAIN delayed' : p.id = job => p.attempts = 0
    BY <1>1, <1>2, <1>3, <1>4 DEF Stored
  <2>2. Within(1, job)'
    BY <1>6, Affordable, WorkerAssumption
  <2> QED
    BY <2>1, <2>2 DEF JobCounted
<1> QED
  BY <1>6, <1>7, <1>8 DEF CountOK, AttemptsCounted

(* A process that dies loses every job it has, for one fault.               *)
LEMMA FreshCounted ==
  ASSUME Inv, SingleOK, CountOK, NEW p \in Processes, Restart(p) \/ Crash(p)
  PROVE  CountOK'
<1>1. /\ UNCHANGED <<ready, delayed, reserved>>
      /\ pc' = [w \in Workers |-> IF ProcessOf[w] = p THEN "loop" ELSE pc[w]]
      /\ held' = [w \in Workers |-> IF ProcessOf[w] = p THEN NoJob ELSE held[w]]
      /\ since' = [w \in Workers |-> IF ProcessOf[w] = p THEN now ELSE since[w]]
      /\ stopping' = [w \in Workers |-> stopping[w] /\ ProcessOf[w] # p]
      /\ open' = [open EXCEPT ![p] = TRUE] /\ open \in [Processes -> BOOLEAN]
      /\ held \in [Workers -> Payload \cup {NoJob}]
  BY DEF Restart, Crash, Fresh, queueVars, Inv, RestOK, ControlOK
<1>2. \/ faults' = faults + 1
      \/ faults' = faults /\ \A w \in Workers : ProcessOf[w] = p => held[w] = NoJob
  <2>1. CASE Restart(p)
    <3>1. \A w \in Workers : ProcessOf[w] = p => pc[w] = "exited"
      BY <2>1 DEF Restart, At
    <3>2. \A w \in Workers : ProcessOf[w] = p => held[w] = NoJob
      BY <3>1, HoldsNothing DEF Settling
    <3> QED
      BY <2>1, <3>2 DEF Restart
  <2> QED
    BY <2>1 DEF Crash, Fault
<1>3. Doomed' \subseteq Doomed /\ p \notin Doomed'
  BY <1>1 DEF Doomed, Closing
<1>4. DoomsCounted'
  BY <1>2, <1>3, DoomsBound DEF CountOK
<1>5. RetriesCounted'
  BY <1>1 DEF CountOK, RetriesCounted
<1>6. ASSUME NEW job \in Jobs
      PROVE  Untouched(job) /\ Threats(job)' \subseteq Threats(job)
  <2>1. Untouched(job)
    BY <1>1 DEF Untouched
  <2>2. \A v \in Workers : ProcessOf[v] \notin {p} => pc'[v] = pc[v] /\ since'[v] = since[v]
    BY <1>1
  <2>3. Threats(job)' \subseteq Threats(job) \cup {p}
    BY <1>1, <1>3, <2>1, <2>2, ThreatsKept
  <2>4. p \notin Threats(job)'
    BY <1>3 DEF Threats
  <2> QED
    BY <2>1, <2>3, <2>4
<1>7. \A v \in Workers : ProcessOf[v] # p =>
        held'[v] = held[v] /\ (InTime(v) => InTime(v)')
  BY <1>1, WorkerAssumption DEF InTime
<1>8. ASSUME NEW job \in Jobs,
             \A v \in Workers : held[v] # NoJob /\ held[v].id = job => ProcessOf[v] # p
      PROVE  JobCounted(job)'
  <2>1. Threats(job)' \subseteq Threats(job) \cup {p}
    BY <1>6
  <2> QED
    BY <1>2, <1>6, <1>7, <1>8, <2>1, StillCounted
<1>9. ASSUME NEW job \in Jobs, NEW w \in Workers, NEW mine \in Payload,
             held[w] = mine, mine.id = job, ProcessOf[w] = p
      PROVE  JobCounted(job)'
  <2>1. held[w] # NoJob /\ faults' = faults + 1
    BY <1>2, <1>9, WorkerAssumption
  <2>2. /\ \A q \in ToSet(ready') \cup DOMAIN delayed' : q.id # job
        /\ \A q \in DOMAIN reserved' : q.id = job => q = mine
    BY <1>1, <1>9, <2>1 DEF SingleOK, HeldAlone
  <2>3. ASSUME mine \in DOMAIN reserved
        PROVE  Within(mine.attempts + 1, job)'
    <3>1. Within(mine.attempts + 1, job) \/ Within(mine.attempts, job)
      BY <1>9, <2>3 DEF CountOK, AttemptsCounted, JobCounted
    <3>2. /\ mine.attempts \in Nat /\ mine.attempts + 1 \in Nat
          /\ Threats(job)' \subseteq Threats(job) /\ Threats(job)' \subseteq Threats(job) \cup {p}
      BY <1>6, <1>9 DEF Payload
    <3>3. CASE Within(mine.attempts + 1, job)
      BY <2>1, <3>2, <3>3, WithinBound DEF CountOK
    <3>4. CASE Within(mine.attempts, job)
      BY <2>1, <3>2, <3>4, LossPaid DEF CountOK
    <3> QED
      BY <3>1, <3>3, <3>4
  <2> QED
    BY <1>1, <2>2, <2>3 DEF JobCounted
<1>10. ASSUME NEW job \in Jobs PROVE JobCounted(job)'
  <2>1. CASE \A v \in Workers : held[v] # NoJob /\ held[v].id = job => ProcessOf[v] # p
    BY <1>8, <2>1
  <2>2. CASE \E v \in Workers : held[v] # NoJob /\ held[v].id = job /\ ProcessOf[v] = p
    BY <1>1, <1>9, <2>2
  <2> QED
    BY <2>1, <2>2
<1> QED
  BY <1>4, <1>5, <1>10 DEF CountOK, AttemptsCounted

(* A signal, a handler that was abandoned, the clock.                       *)
LEMMA ElsewhereCounted ==
  ASSUME Inv, CountOK, NEW p \in Processes,
         UNCHANGED <<ready, delayed, reserved, pc, held, since, open>>,
         \/ UNCHANGED <<stopping, faults>>
         \/ /\ stopping' = [v \in Workers |-> stopping[v] \/ ProcessOf[v] = p]
            /\ faults' = faults + 1
  PROVE  CountOK'
<1>1. \/ Doomed' \subseteq Doomed /\ faults' = faults
      \/ Doomed' \subseteq Doomed \cup {p} /\ faults' = faults + 1
  BY DEF Doomed
<1>2. DoomsCounted'
  BY <1>1, DoomsBound DEF CountOK
<1>3. RetriesCounted'
  BY DEF CountOK, RetriesCounted
<1>4. ASSUME NEW job \in Jobs PROVE JobCounted(job)'
  <2>1. Untouched(job)
    BY DEF Untouched
  <2>2. \/ faults' = faults /\ Threats(job)' \subseteq Threats(job) \cup {}
        \/ faults' = faults + 1 /\ Threats(job)' \subseteq Threats(job) \cup {p}
    BY <1>1, <2>1, ThreatsKept
  <2>3. \A v \in Workers : InTime(v) => InTime(v)'
    BY DEF InTime
  <2> QED
    BY <2>1, <2>2, <2>3, StillCounted
<1> QED
  BY <1>2, <1>3, <1>4 DEF CountOK, AttemptsCounted

(* At the start no process is doomed and there is no job.                   *)
LEMMA InitCount == Init => CountOK
<1> SUFFICES ASSUME Init PROVE CountOK
  OBVIOUS
<1>1. Doomed = {}
  BY WorkerAssumption DEF Init, Doomed, Closing
<1>2. DoomsCounted
  BY <1>1, FS_EmptySet DEF DoomsCounted, Init
<1>3. RetriesCounted /\ AttemptsCounted
  BY DEF Init, QueueInit, RetriesCounted, AttemptsCounted, JobCounted, ToSet
<1> QED
  BY <1>2, <1>3 DEF CountOK

(* The invariant is inductive.                                              *)
LEMMA NextCount ==
  Prompt /\ Inv /\ SingleOK /\ SingleOK' /\ CountOK /\ [Next]_vars => CountOK'
<1> SUFFICES ASSUME Prompt, Inv, SingleOK, SingleOK', CountOK, [Next]_vars PROVE CountOK'
  OBVIOUS
<1>1. CASE \E job \in Jobs, delay \in Delays : Enqueue(job, delay)
  BY <1>1, EnqueueCounted
<1>2. ASSUME NEW w \in Workers, WorkerNext(w) PROVE CountOK'
  BY <1>2, IdleStep, MigrateDelayedCounted, MigrateReservedCounted, ReserveJobCounted,
     HandlerCounted, SaveFailedCounted, AckCounted, AckRejectedCounted, ReleaseCounted,
     FailsCounted, CloseCounted DEF WorkerNext, Progress
<1>3. ASSUME NEW p \in Processes, ProcessNext(p) PROVE CountOK'
  <2>1. CASE Restart(p) \/ Crash(p)
    BY <2>1, FreshCounted
  <2>2. CASE Signal(p) \/ \E job \in Jobs : OrphanSettles(p, job)
    BY <2>2, ElsewhereCounted DEF Signal, OrphanSettles, Fault, queueVars, historyVars
  <2> QED
    BY <1>3, <2>1, <2>2 DEF ProcessNext
<1>4. CASE Tick \/ UNCHANGED vars
  <2>1. UNCHANGED <<ready, delayed, reserved, pc, held, since, stopping, open, faults>>
    BY <1>4 DEF Tick, vars, queueVars, workerVars, historyVars
  <2>2. Doomed' = Doomed
    BY <2>1 DEF Doomed
  <2>3. \A job : Threats(job)' = Threats(job)
    BY <2>1, <2>2 DEF Threats, Charged, HasJob
  <2> QED
    BY <2>1, <2>2, <2>3
       DEF CountOK, DoomsCounted, RetriesCounted, AttemptsCounted, JobCounted, Within, InTime
<1> QED
  BY <1>1, <1>2, <1>3, <1>4 DEF Next

(* A job is tried maxAttempts times, and once more for each fault at most,  *)
(* if workers are prompt: no crash, hang, lost call or signal costs a job   *)
(* more than one attempt, not even one that closes the client on all the    *)
(* workers of a process.                                                    *)
THEOREM OneAttemptPerFault ==
  ASSUME Prompt
  PROVE  Spec => []AttemptsAccounted
<1>1. Init => SingleOK /\ CountOK
  BY InitSingle, InitCount
<1>2. Inv /\ SingleOK /\ CountOK /\ [Next]_vars => SingleOK' /\ CountOK'
  BY NextSingle, NextCount
<1>3. Inv /\ CountOK => AttemptsAccounted
  <2> SUFFICES ASSUME Inv, CountOK, NEW p \in Stored
               PROVE  p.attempts <= MaxAttempts + faults
    BY DEF AttemptsAccounted
  <2>1. p \in Payload
    BY ToSetType DEF Stored, Inv, QueueOK, QueueTypeOK, IsZSet
  <2>2. Within(p.attempts + 1, p.id) \/ Within(p.attempts, p.id)
    BY <2>1 DEF Stored, CountOK, AttemptsCounted, JobCounted, Payload
  <2>3. Cardinality(Threats(p.id)) \in Nat
    <3>1. Threats(p.id) \subseteq Doomed
      BY DEF Threats
    <3> QED
      BY <3>1, Cardinals DEF CountOK, DoomsCounted
  <2>4. p.attempts \in Nat /\ MaxAttempts \in Nat /\ faults \in Nat
    BY <2>1, WorkerAssumption DEF Payload, Inv, RestOK
  <2> QED
    BY <2>2, <2>3, <2>4 DEF Within
<1> QED
  BY <1>1, <1>2, <1>3, Invariance, PTL DEF Spec

-----------------------------------------------------------------------------
(* Nobody removes the reservation of another, however late workers are.     *)

Begun == \A w \in Workers : since[w] <= now

(* A copy of a job is in one place of Redis, and once.                      *)
CopiesApart ==
  /\ \A i, k \in DOMAIN ready : SameCopy(ready[i], ready[k]) => i = k
  /\ \A p, q \in DOMAIN delayed : SameCopy(p, q) => p = q
  /\ \A p, q \in DOMAIN reserved : SameCopy(p, q) => p = q
  /\ \A p \in ToSet(ready), q \in DOMAIN delayed \cup DOMAIN reserved : ~SameCopy(p, q)
  /\ \A p \in DOMAIN delayed, q \in DOMAIN reserved : ~SameCopy(p, q)

(* It has been served as often as any worker that has it was told, and no   *)
(* two workers were told the same.                                          *)
ServedOnce ==
  \A w \in Workers : held[w] # NoJob /\ held[w].id \notin Malformed =>
    /\ \A p \in Stored : SameCopy(held[w], p) => held[w].attempts <= p.attempts
    /\ \A v \in Workers \ {w} : held[v] # held[w]

FencedOK == Begun /\ CopiesApart /\ ServedOnce

(* What ReservationsFenced says of a step.                                  *)
Fences ==
  \A w \in Workers :
    (/\ held[w] # NoJob /\ held[w].id \notin Malformed
     /\ held[w] \in DOMAIN reserved /\ reserved[held[w]] > now
     /\ pc'[w] = pc[w] /\ held'[w] = held[w])
    => held[w] \in DOMAIN reserved'

(* A copy is a copy of itself, and of what it is a copy of.                 *)
LEMMA SameCopyTwice ==
  ASSUME NEW p, NEW q, SameCopy(p, q)
  PROVE  SameCopy(q, p) /\ SameCopy(p, p)
  BY DEF SameCopy

(* A worker that goes on has just begun.                                    *)
LEMMA GoesOnBegun ==
  ASSUME Inv, Begun, NEW w \in Workers, NEW location, Goto(w, location), now' = now
  PROVE  Begun' /\ pc'[w] = location
  BY DEF Begun, Goto, Inv, ControlOK, QueueOK, QueueTypeOK

(* Workers keep what they have, or let go of it, and nothing is stored that *)
(* is of a copy somebody keeps.                                             *)
LEMMA StillServed ==
  ASSUME Inv, ServedOnce,
         \A v \in Workers : held'[v] # NoJob => held'[v] = held[v],
         \A v \in Workers, p \in Stored' : held'[v] # NoJob =>
           p \in Stored \/ ~SameCopy(held[v], p)
  PROVE  ServedOnce'
<1> SUFFICES ASSUME NEW w \in Workers, held'[w] # NoJob, held'[w].id \notin Malformed
             PROVE  /\ \A p \in Stored' : SameCopy(held'[w], p) => held'[w].attempts <= p.attempts
                    /\ \A v \in Workers \ {w} : held'[v] # held'[w]
  BY DEF ServedOnce
<1>1. held'[w] = held[w] /\ held[w] # NoJob /\ held[w].id \notin Malformed
  OBVIOUS
<1>2. \A p \in Stored' : SameCopy(held[w], p) => held[w].attempts <= p.attempts
  BY <1>1 DEF ServedOnce
<1>3. ASSUME NEW v \in Workers \ {w} PROVE held'[v] # held'[w]
  BY <1>1 DEF ServedOnce
<1> QED
  BY <1>1, <1>2, <1>3

(* The steps of a worker that leave the keys alone.                         *)
LEMMA QuietFenced ==
  ASSUME Inv, FencedOK, NEW w \in Workers,
         \/ BeginPass(w) \/ ReserveNone(w) \/ WakeUp(w) \/ BlockTimeout(w) \/ Close(w)
         \/ HandlerReturns(w) \/ HandlerThrows(w) \/ HandlerTimesOut(w)
         \/ SaveFailed(w) \/ CallRejected(w)
  PROVE  FencedOK' /\ Fences
<1>1. /\ UNCHANGED <<ready, delayed, reserved, now>>
      /\ UNCHANGED held \/ Drop(w)
      /\ \E location \in Location : Goto(w, location)
  <2>1. CASE BeginPass(w) \/ ReserveNone(w) \/ WakeUp(w) \/ BlockTimeout(w) \/ Close(w)
    BY <2>1 DEF BeginPass, ReserveNone, WakeUp, TakeToken, BlockTimeout, Close, queueVars,
       Location, Closing, Idling
  <2>2. CASE HandlerReturns(w) \/ HandlerThrows(w) \/ SaveFailed(w)
    BY <2>2 DEF HandlerReturns, HandlerThrows, SaveFailed, AfterError, queueVars, Location,
       Settling
  <2>3. CASE HandlerTimesOut(w) \/ CallRejected(w)
    BY <2>3 DEF HandlerTimesOut, CallRejected, queueVars, Location, Closing
  <2> QED
    BY <2>1, <2>2, <2>3
<1>2. Begun'
  BY <1>1, GoesOnBegun DEF FencedOK
<1>3. CopiesApart'
  BY <1>1 DEF FencedOK, CopiesApart
<1>4. \A v \in Workers : held'[v] # NoJob => held'[v] = held[v]
  BY <1>1 DEF Drop, Inv, ControlOK
<1>5. Stored' = Stored
  BY <1>1 DEF Stored
<1>6. ServedOnce'
  BY <1>4, <1>5, StillServed DEF FencedOK
<1> QED
  BY <1>1, <1>2, <1>3, <1>6 DEF FencedOK, Fences

(* What migrate_expired moves is moved once.                                *)
LEMMA BatchOnce ==
  ASSUME NEW zset, IsZSet(zset), IsFiniteSet(DOMAIN zset), NEW asked,
         NEW batch \in Batches(zset, asked),
         \A p, q \in DOMAIN zset : SameCopy(p, q) => p = q
  PROVE  /\ \A i, k \in DOMAIN batch : SameCopy(batch[i], batch[k]) => i = k
         /\ \A p \in ToSet(batch) : p \in DOMAIN zset /\ zset[p] <= asked
<1>1. batch \in Seq(Payload) /\ ToSet(batch) \subseteq DOMAIN zset
  BY BatchProperties
<1>2. Len(batch) \in Nat /\ DOMAIN batch = 1..Len(batch)
  BY <1>1
<1>3. \A i \in DOMAIN batch : \A k \in 1..(i - 1) : batch[k] # batch[i]
  BY DEF Batches
<1>4. ASSUME NEW i \in DOMAIN batch, NEW k \in DOMAIN batch, SameCopy(batch[i], batch[k])
      PROVE  i = k
  <2>1. batch[i] \in DOMAIN zset /\ batch[k] \in DOMAIN zset
    BY <1>1 DEF ToSet
  <2>2. batch[i] = batch[k]
    BY <1>4, <2>1
  <2>3. i \in 1..(k - 1) \/ k \in 1..(i - 1) \/ i = k
    BY <1>2
  <2> QED
    BY <1>3, <2>2, <2>3
<1>5. \A p \in ToSet(batch) : zset[p] <= asked
  <2>1. \A i \in DOMAIN batch : batch[i] \in Due(zset, asked)
    BY DEF Batches
  <2> QED
    BY <2>1 DEF ToSet, Due
<1> QED
  BY <1>1, <1>4, <1>5

(* A batch is appended whose copies are not in the list.                    *)
LEMMA ConcatOnce ==
  ASSUME NEW s \in Seq(Payload), NEW t \in Seq(Payload),
         \A i, k \in DOMAIN s : SameCopy(s[i], s[k]) => i = k,
         \A i, k \in DOMAIN t : SameCopy(t[i], t[k]) => i = k,
         \A p \in ToSet(s), q \in ToSet(t) : ~SameCopy(p, q)
  PROVE  \A i, k \in DOMAIN (s \o t) : SameCopy((s \o t)[i], (s \o t)[k]) => i = k
<1>1. /\ Len(s) \in Nat /\ Len(t) \in Nat /\ DOMAIN s = 1..Len(s) /\ DOMAIN t = 1..Len(t)
      /\ DOMAIN (s \o t) = 1..(Len(s) + Len(t))
      /\ \A i \in 1..Len(s) : (s \o t)[i] = s[i]
      /\ \A i \in 1..Len(t) : (s \o t)[Len(s) + i] = t[i]
  BY ConcatProperties
<1>2. \A i \in DOMAIN (s \o t) :
        \/ i \in DOMAIN s /\ (s \o t)[i] = s[i] /\ s[i] \in ToSet(s)
        \/ /\ i \notin DOMAIN s /\ i - Len(s) \in DOMAIN t /\ (s \o t)[i] = t[i - Len(s)]
           /\ t[i - Len(s)] \in ToSet(t)
  <2> TAKE i \in DOMAIN (s \o t)
  <2>1. CASE i \in 1..Len(s)
    BY <1>1, <2>1 DEF ToSet
  <2>2. CASE i \notin 1..Len(s)
    <3>1. i - Len(s) \in 1..Len(t) /\ Len(s) + (i - Len(s)) = i
      BY <1>1, <2>2
    <3> QED
      BY <1>1, <2>2, <3>1 DEF ToSet
  <2> QED
    BY <2>1, <2>2
<1>3. \A i, k \in DOMAIN (s \o t) : i - Len(s) = k - Len(s) => i = k
  BY <1>1
<1>4. \A p \in ToSet(s), q \in ToSet(t) : ~SameCopy(q, p)
  BY SameCopyTwice
<1> QED
  BY <1>2, <1>3, <1>4

(* The migrations move copies; what they take away from the reservations    *)
(* has expired.                                                             *)
LEMMA MigrateDelayedFenced ==
  ASSUME Inv, FencedOK, NEW w \in Workers, MigrateDelayed(w)
  PROVE  FencedOK' /\ Fences
<1>1. PICK batch \in Batches(delayed, since[w]) :
        /\ MigrateFromDelayed(batch)
        /\ Goto(w, IF Len(batch) = BatchSize THEN "migrateDelayed" ELSE "migrateReserved")
  BY DEF MigrateDelayed
<1>2. UNCHANGED <<now, held>>
  BY DEF MigrateDelayed
<1>3. /\ ready \in Seq(Payload) /\ IsZSet(delayed) /\ IsFiniteSet(DOMAIN delayed)
  BY DEF Inv, QueueOK, QueueTypeOK, FiniteKeys
<1>4. /\ \A i, k \in DOMAIN batch : SameCopy(batch[i], batch[k]) => i = k
      /\ batch \in Seq(Payload) /\ ToSet(batch) \subseteq DOMAIN delayed
  BY <1>3, BatchOnce, BatchProperties DEF FencedOK, CopiesApart
<1>5. /\ ready' = ready \o batch /\ reserved' = reserved
      /\ DOMAIN delayed' = DOMAIN delayed \ ToSet(batch)
      /\ ToSet(ready') = ToSet(ready) \cup ToSet(batch)
  <2>1. /\ ready' = ready \o batch /\ reserved' = reserved
        /\ delayed' = ZRem(delayed, ToSet(batch))
    BY <1>1 DEF MigrateFromDelayed
  <2>2. DOMAIN delayed' = DOMAIN delayed \ ToSet(batch)
    BY <1>3, <2>1, ZRemProperties
  <2>3. ToSet(ready') = ToSet(ready) \cup ToSet(batch)
    BY <1>3, <1>4, <2>1, ToSetConcat
  <2> QED
    BY <2>1, <2>2, <2>3
<1>6. CopiesApart'
  <2>1. \A i, k \in DOMAIN ready' : SameCopy(ready'[i], ready'[k]) => i = k
    <3>1. \A i, k \in DOMAIN ready : SameCopy(ready[i], ready[k]) => i = k
      BY DEF FencedOK, CopiesApart
    <3>2. \A p \in ToSet(ready), q \in ToSet(batch) : ~SameCopy(p, q)
      BY <1>4 DEF FencedOK, CopiesApart
    <3> QED
      BY <1>3, <1>4, <1>5, <3>1, <3>2, ConcatOnce
  <2>2. ASSUME NEW p \in ToSet(batch), NEW q \in DOMAIN delayed \ ToSet(batch)
        PROVE  ~SameCopy(p, q)
    BY <1>4 DEF FencedOK, CopiesApart
  <2>3. \A p \in ToSet(ready'), q \in DOMAIN delayed' \cup DOMAIN reserved' : ~SameCopy(p, q)
    BY <1>4, <1>5, <2>2 DEF FencedOK, CopiesApart
  <2> QED
    BY <1>5, <2>1, <2>3 DEF FencedOK, CopiesApart
<1>7. Stored' = Stored
  BY <1>4, <1>5 DEF Stored
<1>8. ServedOnce'
  BY <1>2, <1>7, StillServed DEF FencedOK
<1>9. Begun'
  BY <1>1, <1>2, GoesOnBegun DEF FencedOK
<1> QED
  BY <1>5, <1>6, <1>8, <1>9 DEF FencedOK, Fences

LEMMA MigrateReservedFenced ==
  ASSUME Inv, FencedOK, NEW w \in Workers, MigrateReserved(w)
  PROVE  FencedOK' /\ Fences
<1>1. PICK batch \in Batches(reserved, since[w]) :
        /\ MigrateFromReserved(batch)
        /\ Goto(w, IF Len(batch) = BatchSize THEN "migrateReserved" ELSE "reserve")
  BY DEF MigrateReserved
<1>2. UNCHANGED <<now, held>>
  BY DEF MigrateReserved
<1>3. /\ ready \in Seq(Payload) /\ IsZSet(reserved) /\ IsFiniteSet(DOMAIN reserved)
      /\ since \in [Workers -> Nat] /\ now \in Nat
  BY DEF Inv, QueueOK, QueueTypeOK, FiniteKeys, ControlOK
<1>4. /\ \A i, k \in DOMAIN batch : SameCopy(batch[i], batch[k]) => i = k
      /\ \A p \in ToSet(batch) : p \in DOMAIN reserved /\ reserved[p] <= since[w]
      /\ batch \in Seq(Payload) /\ ToSet(batch) \subseteq DOMAIN reserved
  BY <1>3, BatchOnce, BatchProperties DEF FencedOK, CopiesApart
<1>5. /\ ready' = ready \o batch /\ delayed' = delayed
      /\ DOMAIN reserved' = DOMAIN reserved \ ToSet(batch)
      /\ ToSet(ready') = ToSet(ready) \cup ToSet(batch)
  <2>1. /\ ready' = ready \o batch /\ delayed' = delayed
        /\ reserved' = ZRem(reserved, ToSet(batch))
    BY <1>1 DEF MigrateFromReserved
  <2>2. DOMAIN reserved' = DOMAIN reserved \ ToSet(batch)
    BY <1>3, <2>1, ZRemProperties
  <2>3. ToSet(ready') = ToSet(ready) \cup ToSet(batch)
    BY <1>3, <1>4, <2>1, ToSetConcat
  <2> QED
    BY <2>1, <2>2, <2>3
<1>6. CopiesApart'
  <2>1. \A i, k \in DOMAIN ready' : SameCopy(ready'[i], ready'[k]) => i = k
    <3>1. \A i, k \in DOMAIN ready : SameCopy(ready[i], ready[k]) => i = k
      BY DEF FencedOK, CopiesApart
    <3>2. \A p \in ToSet(ready), q \in ToSet(batch) : ~SameCopy(p, q)
      BY <1>4 DEF FencedOK, CopiesApart
    <3> QED
      BY <1>3, <1>4, <1>5, <3>1, <3>2, ConcatOnce
  <2>2. ASSUME NEW p \in ToSet(batch), NEW q \in (DOMAIN reserved \ ToSet(batch)) \cup DOMAIN delayed
        PROVE  ~SameCopy(p, q)
    BY <1>4, SameCopyTwice DEF FencedOK, CopiesApart
  <2>3. \A p \in ToSet(ready'), q \in DOMAIN delayed' \cup DOMAIN reserved' : ~SameCopy(p, q)
    BY <1>4, <1>5, <2>2 DEF FencedOK, CopiesApart
  <2> QED
    BY <1>5, <2>1, <2>3 DEF FencedOK, CopiesApart
<1>7. Stored' = Stored
  BY <1>4, <1>5 DEF Stored
<1>8. ServedOnce'
  BY <1>2, <1>7, StillServed DEF FencedOK
<1>9. Begun'
  BY <1>1, <1>2, GoesOnBegun DEF FencedOK
<1>10. Fences
  <2>1. ASSUME NEW p \in DOMAIN reserved, reserved[p] > now PROVE p \in DOMAIN reserved'
    <3>1. since[w] <= now /\ reserved[p] \in Nat /\ since[w] \in Nat
      BY <1>3 DEF FencedOK, Begun, IsZSet
    <3> QED
      BY <1>3, <1>4, <1>5, <2>1, <3>1
  <2> QED
    BY <2>1 DEF Fences
<1> QED
  BY <1>6, <1>8, <1>9, <1>10 DEF FencedOK

(* pop.lua adds an attempt, and so makes a text that nobody has.            *)
LEMMA ReserveJobFenced ==
  ASSUME Inv, FencedOK, NEW w \in Workers, ReserveJob(w)
  PROVE  FencedOK' /\ Fences
<1> DEFINE h == Head(ready)
           p == CountAttempt(h)
           location == IF h.id \in Malformed \cup Unhandled THEN "saveFailed" ELSE "handle"
<1>1. /\ ready # <<>>
      /\ ready' = Tail(ready) /\ delayed' = delayed
      /\ reserved' = ZAdd(reserved, p, ReservedUntil(since[w]))
      /\ held' = [held EXCEPT ![w] = p]
      /\ Goto(w, location) /\ now' = now
  BY DEF ReserveJob, PopScript
<1>2. /\ ready \in Seq(Payload) /\ Tail(ready) \in Seq(Payload)
      /\ Len(ready) \in Nat \ {0} /\ DOMAIN ready = 1..Len(ready)
      /\ DOMAIN Tail(ready) = 1..(Len(ready) - 1)
      /\ \A i \in 1..(Len(ready) - 1) : Tail(ready)[i] = ready[i + 1]
      /\ Head(ready) = ready[1] /\ Head(ready) \in Payload
  <2>1. ready \in Seq(Payload) /\ Len(ready) \in Nat /\ DOMAIN ready = 1..Len(ready)
    BY DEF Inv, QueueOK, QueueTypeOK
  <2>2. Len(ready) # 0
    BY <1>1, <2>1, EmptySeq
  <2> QED
    BY <1>1, <2>1, <2>2, HeadTailProperties
<1>3. /\ p \in Payload /\ p.id = h.id /\ p.availableAt = h.availableAt
      /\ p.id \notin Malformed => p.attempts = h.attempts + 1
      /\ h.attempts \in Nat /\ p # NoJob
  BY <1>2, WorkerAssumption DEF CountAttempt, Payload
<1>4. held \in [Workers -> Payload \cup {NoJob}]
  BY DEF Inv, ControlOK
<1> HIDE DEF h, p, location
<1>5. \A q : SameCopy(q, p) <=> SameCopy(q, h)
  BY <1>3 DEF SameCopy
<1>6. /\ DOMAIN reserved' = DOMAIN reserved \cup {p}
      /\ ToSet(ready) = {h} \cup ToSet(ready')
  BY <1>1, <1>2, ToSetHeadTail DEF ZAdd, h
<1>7. \A q \in ToSet(ready') \cup DOMAIN delayed \cup DOMAIN reserved :
        ~SameCopy(q, p) /\ ~SameCopy(p, q)
  <2>1. \A q \in DOMAIN delayed \cup DOMAIN reserved : ~SameCopy(h, q) /\ ~SameCopy(q, h)
    BY <1>6, SameCopyTwice DEF FencedOK, CopiesApart
  <2>2. ASSUME NEW i \in DOMAIN Tail(ready)
        PROVE  ~SameCopy(h, Tail(ready)[i]) /\ ~SameCopy(Tail(ready)[i], h)
    <3>1. i + 1 \in DOMAIN ready /\ 1 \in DOMAIN ready /\ i + 1 # 1
      BY <1>2
    <3>2. ~SameCopy(ready[1], ready[i + 1]) /\ ~SameCopy(ready[i + 1], ready[1])
      BY <3>1 DEF FencedOK, CopiesApart
    <3> QED
      BY <1>2, <3>2 DEF h
  <2>3. \A q \in ToSet(ready') : ~SameCopy(h, q) /\ ~SameCopy(q, h)
    BY <1>1, <2>2 DEF ToSet
  <2> QED
    BY <1>5, <2>1, <2>3, SameCopyTwice
<1>8. CopiesApart'
  <2>1. \A i, k \in DOMAIN ready' : SameCopy(ready'[i], ready'[k]) => i = k
    <3>1. \A i, k \in DOMAIN Tail(ready) :
            /\ i + 1 \in DOMAIN ready /\ k + 1 \in DOMAIN ready
            /\ Tail(ready)[i] = ready[i + 1] /\ Tail(ready)[k] = ready[k + 1]
            /\ i + 1 = k + 1 => i = k
      BY <1>2
    <3> QED
      BY <1>1, <3>1 DEF FencedOK, CopiesApart
  <2>2. \A q, r \in DOMAIN reserved' : SameCopy(q, r) => q = r
    BY <1>6, <1>7 DEF FencedOK, CopiesApart
  <2>3. \A q \in ToSet(ready'), r \in DOMAIN delayed' \cup DOMAIN reserved' : ~SameCopy(q, r)
    BY <1>1, <1>6, <1>7 DEF FencedOK, CopiesApart
  <2>4. \A q \in DOMAIN delayed', r \in DOMAIN reserved' : ~SameCopy(q, r)
    BY <1>1, <1>6, <1>7 DEF FencedOK, CopiesApart
  <2> QED
    BY <1>1, <2>1, <2>2, <2>3, <2>4 DEF FencedOK, CopiesApart
<1>9. Begun' /\ pc'[w] = location
  BY <1>1, GoesOnBegun DEF FencedOK
<1>10. held'[w] = p /\ \A v \in Workers \ {w} : held'[v] = held[v]
  BY <1>1, <1>4
<1>11. h \in Stored /\ Stored' \subseteq Stored \cup {p}
  BY <1>1, <1>6 DEF Stored
<1>12. ASSUME NEW v \in Workers, held[v] # NoJob, held[v].id \notin Malformed
       PROVE  /\ SameCopy(held[v], p) => held[v].attempts <= h.attempts /\ held[v].attempts < p.attempts
              /\ held[v] # p
  <2>1. held[v] \in Payload /\ held[v].attempts \in Nat
    BY <1>4, <1>12 DEF Payload
  <2>2. SameCopy(held[v], p) => held[v].attempts <= h.attempts
    BY <1>5, <1>11, <1>12 DEF FencedOK, ServedOnce
  <2>3. SameCopy(held[v], p) => p.attempts = h.attempts + 1
    BY <1>3 DEF SameCopy
  <2>4. held[v] = p => SameCopy(held[v], p)
    BY <1>12 DEF SameCopy
  <2> QED
    BY <1>3, <2>1, <2>2, <2>3, <2>4
<1>13. ServedOnce'
  <2>1. ASSUME NEW v \in Workers \ {w}, held[v] # NoJob, held[v].id \notin Malformed
        PROVE  /\ \A q \in Stored' : SameCopy(held[v], q) => held[v].attempts <= q.attempts
               /\ \A u \in Workers \ {v} : held'[u] # held[v]
    <3>1. ASSUME NEW q \in Stored', SameCopy(held[v], q) PROVE held[v].attempts <= q.attempts
      <4>1. CASE q \in Stored
        BY <2>1, <3>1, <4>1 DEF FencedOK, ServedOnce
      <4>2. CASE q = p
        <5>1. held[v].attempts < p.attempts /\ held[v].attempts \in Nat /\ p.attempts \in Nat
          BY <1>3, <1>4, <1>12, <2>1, <3>1, <4>2 DEF Payload
        <5> QED
          BY <4>2, <5>1
      <4> QED
        BY <1>11, <4>1, <4>2
    <3>2. \A u \in Workers \ {v} : held'[u] # held[v]
      BY <1>10, <1>12, <2>1 DEF FencedOK, ServedOnce
    <3> QED
      BY <3>1, <3>2
  <2>2. ASSUME p.id \notin Malformed
        PROVE  /\ \A q \in Stored' : SameCopy(p, q) => p.attempts <= q.attempts
               /\ \A u \in Workers \ {w} : held[u] # p
    <3>1. \A q \in Stored' : SameCopy(p, q) => q = p
      BY <1>1, <1>6, <1>7 DEF Stored
    <3>2. p.attempts <= p.attempts
      BY <1>3 DEF Payload
    <3>3. \A u \in Workers \ {w} : held[u] # p
      BY <1>3, <1>12, <2>2
    <3> QED
      BY <3>1, <3>2, <3>3
  <2> QED
    BY <1>10, <2>1, <2>2 DEF ServedOnce
<1>14. Fences
  BY <1>6 DEF Fences
<1> QED
  BY <1>8, <1>9, <1>13, <1>14 DEF FencedOK

(* An ack finds the worker's own reservation, or nobody's: no other worker  *)
(* was told the same text.                                                  *)
LEMMA AckFenced ==
  ASSUME Inv, FencedOK, NEW w \in Workers, Ack(w) \/ AckFailed(w) \/ AckRejected(w)
  PROVE  FencedOK' /\ Fences
<1>1. /\ AckCommand(held[w]) \/ UNCHANGED queueVars
      /\ now' = now /\ pc[w] \in {"ack", "ackFailed"}
      /\ UNCHANGED held \/ Drop(w)
  BY DEF Ack, AckFailed, AckRejected, At
<1>2. \E location \in Location \ {pc[w]} : Goto(w, location)
  BY DEF Ack, AckFailed, AckRejected, AfterError, At, Location, Idling, Settling
<1>3. /\ ready' = ready /\ delayed' = delayed /\ DOMAIN reserved' \subseteq DOMAIN reserved
      /\ DOMAIN reserved \subseteq DOMAIN reserved' \cup {held[w]}
  BY <1>1 DEF AckCommand, ZRem, queueVars
<1>4. CopiesApart'
  BY <1>3 DEF FencedOK, CopiesApart
<1>5. \A v \in Workers : held'[v] # NoJob => held'[v] = held[v]
  BY <1>1 DEF Drop, Inv, ControlOK
<1>6. Stored' \subseteq Stored
  BY <1>3 DEF Stored
<1>7. ServedOnce'
  BY <1>5, <1>6, StillServed DEF FencedOK
<1>8. Begun' /\ pc'[w] # pc[w]
  BY <1>1, <1>2, GoesOnBegun DEF FencedOK
<1>9. Fences
  BY <1>3, <1>8 DEF Fences, FencedOK, ServedOnce
<1> QED
  BY <1>4, <1>7, <1>8, <1>9 DEF FencedOK

(* The same of release.lua.  The copy it makes has no twin.                 *)
LEMMA ReleaseFenced ==
  ASSUME Inv, FencedOK, NoTwins, NEW w \in Workers, Release(w)
  PROVE  FencedOK' /\ Fences
<1> DEFINE again == Released(w)
<1>1. /\ pc[w] = "release" /\ Answered(w)
      /\ reserved' = ZRem(reserved, {held[w]})
      /\ delayed' = ZAdd(delayed, again, since[w] + RetryDelay(held[w].attempts))
      /\ ready' = ready
      /\ Goto(w, "loop") /\ Drop(w) /\ now' = now
  BY DEF Release, ReleaseScript, At, Released
<1> HIDE DEF again
<1>2. /\ DOMAIN delayed' = DOMAIN delayed \cup {again}
      /\ DOMAIN reserved' = DOMAIN reserved \ {held[w]}
  BY <1>1 DEF ZAdd, ZRem
<1>3. \A p \in Elsewhere(w) : ~SameCopy(p, again) /\ ~SameCopy(again, p)
  BY <1>1, SameCopyTwice DEF NoTwins, At, again
<1>4. /\ \A p \in ToSet(ready) \cup DOMAIN delayed \cup DOMAIN reserved' :
           ~SameCopy(p, again) /\ ~SameCopy(again, p)
      /\ \A v \in Workers \ {w} : held[v] # NoJob => ~SameCopy(held[v], again)
  BY <1>2, <1>3 DEF Elsewhere
<1>5. CopiesApart'
  <2>1. \A i, k \in DOMAIN ready' : SameCopy(ready'[i], ready'[k]) => i = k
    BY <1>1 DEF FencedOK, CopiesApart
  <2>2. \A p, q \in DOMAIN delayed' : SameCopy(p, q) => p = q
    BY <1>2, <1>4 DEF FencedOK, CopiesApart
  <2>3. \A p, q \in DOMAIN reserved' : SameCopy(p, q) => p = q
    BY <1>2 DEF FencedOK, CopiesApart
  <2>4. \A p \in ToSet(ready'), q \in DOMAIN delayed' \cup DOMAIN reserved' : ~SameCopy(p, q)
    BY <1>1, <1>2, <1>4 DEF FencedOK, CopiesApart
  <2>5. \A p \in DOMAIN delayed', q \in DOMAIN reserved' : ~SameCopy(p, q)
    BY <1>2, <1>4 DEF FencedOK, CopiesApart
  <2> QED
    BY <2>1, <2>2, <2>3, <2>4, <2>5 DEF CopiesApart
<1>6. \A v \in Workers : held'[v] # NoJob => held'[v] = held[v] /\ v # w
  BY <1>1 DEF Drop, Inv, ControlOK
<1>7. Stored' \subseteq Stored \cup {again}
  BY <1>1, <1>2 DEF Stored
<1>8. ServedOnce'
  <2>1. \A v \in Workers, p \in Stored' : held'[v] # NoJob => p \in Stored \/ ~SameCopy(held[v], p)
    BY <1>4, <1>6, <1>7
  <2> QED
    BY <1>6, <2>1, StillServed DEF FencedOK
<1>9. Begun' /\ pc'[w] # pc[w]
  BY <1>1, GoesOnBegun DEF FencedOK
<1>10. Fences
  BY <1>2, <1>9 DEF Fences, FencedOK, ServedOnce
<1> QED
  BY <1>5, <1>8, <1>9, <1>10 DEF FencedOK

(* A job that is enqueued has no copy yet.                                  *)
LEMMA EnqueueFenced ==
  ASSUME Inv, FencedOK, NEW job \in Jobs, NEW delay \in Delays, Enqueue(job, delay)
  PROVE  FencedOK' /\ Fences
<1> DEFINE envelope == [id |-> job, attempts |-> 0, availableAt |-> now + delay]
<1>1. /\ job \notin enqueued /\ UNCHANGED <<now, pc, held, since>>
      /\ \/ ready' = Append(ready, envelope) /\ UNCHANGED <<delayed, reserved>>
         \/ /\ delayed' = ZAdd(delayed, envelope, now + delay)
            /\ UNCHANGED <<ready, reserved>>
  BY DEF Enqueue, EnqueueScript, workerVars
<1>2. envelope \in Payload /\ envelope.id = job
  BY WorkerAssumption DEF Inv, QueueOK, QueueTypeOK, Payload
<1> HIDE DEF envelope
<1>3. \A p \in Stored : ~SameCopy(p, envelope) /\ ~SameCopy(envelope, p)
  <2>1. \A p \in Stored : p.id # job
    BY <1>1 DEF Inv, KnownJobs, StoredIds
  <2> QED
    BY <1>2, <2>1 DEF SameCopy
<1>4. \A v \in Workers : held[v] # NoJob => ~SameCopy(held[v], envelope)
  BY <1>1, <1>2 DEF Inv, KnownJobs, SameCopy
<1>5. /\ reserved' = reserved
      /\ \/ ToSet(ready') = ToSet(ready) \cup {envelope} /\ delayed' = delayed
         \/ ready' = ready /\ DOMAIN delayed' = DOMAIN delayed \cup {envelope}
  <2>1. CASE ready' = Append(ready, envelope) /\ UNCHANGED <<delayed, reserved>>
    BY <1>2, <2>1, ToSetAppend DEF Inv, QueueOK, QueueTypeOK
  <2>2. CASE delayed' = ZAdd(delayed, envelope, now + delay) /\ UNCHANGED <<ready, reserved>>
    BY <2>2 DEF ZAdd
  <2> QED
    BY <1>1, <2>1, <2>2
<1>6. \A i, k \in DOMAIN ready' : SameCopy(ready'[i], ready'[k]) => i = k
  <2>1. CASE ready' = ready
    BY <2>1 DEF FencedOK, CopiesApart
  <2>2. CASE ready' = Append(ready, envelope)
    <3>1. /\ ready \in Seq(Payload) /\ Len(ready) \in Nat
          /\ DOMAIN ready = 1..Len(ready) /\ DOMAIN ready' = 1..(Len(ready) + 1)
          /\ ready'[Len(ready) + 1] = envelope
          /\ \A i \in 1..Len(ready) : ready'[i] = ready[i]
      BY <1>2, <2>2, AppendProperties DEF Inv, QueueOK, QueueTypeOK
    <3>2. \A i \in DOMAIN ready : ready[i] \in Stored
      BY DEF Stored, ToSet
    <3>3. \A i \in DOMAIN ready' : i \in DOMAIN ready \/ i = Len(ready) + 1
      BY <3>1
    <3>4. \A i \in DOMAIN ready : /\ ~SameCopy(ready'[i], ready'[Len(ready) + 1])
                                  /\ ~SameCopy(ready'[Len(ready) + 1], ready'[i])
      BY <1>3, <3>1, <3>2
    <3>5. \A i, k \in DOMAIN ready : SameCopy(ready'[i], ready'[k]) => i = k
      BY <3>1 DEF FencedOK, CopiesApart
    <3> QED
      BY <3>3, <3>4, <3>5
  <2> QED
    BY <1>1, <2>1, <2>2
<1>7. CopiesApart'
  <2>1. \A p, q \in DOMAIN delayed' : SameCopy(p, q) => p = q
    BY <1>3, <1>5 DEF FencedOK, CopiesApart, Stored
  <2>2. \A p \in ToSet(ready'), q \in DOMAIN delayed' \cup DOMAIN reserved' : ~SameCopy(p, q)
    BY <1>3, <1>5 DEF FencedOK, CopiesApart, Stored
  <2>3. \A p \in DOMAIN delayed', q \in DOMAIN reserved' : ~SameCopy(p, q)
    BY <1>3, <1>5 DEF FencedOK, CopiesApart, Stored
  <2> QED
    BY <1>5, <1>6, <2>1, <2>2, <2>3 DEF FencedOK, CopiesApart
<1>8. Stored' \subseteq Stored \cup {envelope}
  BY <1>5 DEF Stored
<1>9. ServedOnce'
  BY <1>1, <1>4, <1>8, StillServed DEF FencedOK
<1>10. Begun' /\ Fences
  BY <1>1, <1>5 DEF FencedOK, Begun, Fences
<1> QED
  BY <1>7, <1>9, <1>10 DEF FencedOK

(* Neither time nor the end of a process moves a copy.                      *)
LEMMA ElsewhereFenced ==
  ASSUME Inv, FencedOK, Tick \/ \E p \in Processes : ProcessNext(p)
  PROVE  FencedOK' /\ Fences
<1>1. /\ UNCHANGED <<ready, delayed, reserved>>
      /\ \A v \in Workers : held'[v] # NoJob => held'[v] = held[v]
      /\ Begun'
  <2>1. now \in Nat /\ since \in [Workers -> Nat]
    BY DEF Inv, QueueOK, QueueTypeOK, ControlOK
  <2>2. CASE Tick
    BY <2>1, <2>2 DEF Tick, queueVars, workerVars, FencedOK, Begun
  <2>3. CASE \E p \in Processes : Signal(p) \/ \E job \in Jobs : OrphanSettles(p, job)
    BY <2>3 DEF Signal, OrphanSettles, queueVars, FencedOK, Begun
  <2>4. CASE \E p \in Processes : Fresh(p)
    BY <2>1, <2>4 DEF Fresh, queueVars, FencedOK, Begun
  <2> QED
    BY <2>2, <2>3, <2>4 DEF ProcessNext, Restart, Crash
<1>2. CopiesApart'
  BY <1>1 DEF FencedOK, CopiesApart
<1>3. Stored' = Stored
  BY <1>1 DEF Stored
<1>4. ServedOnce'
  BY <1>1, <1>3, StillServed DEF FencedOK
<1> QED
  BY <1>1, <1>2, <1>4 DEF FencedOK, Fences

LEMMA InitFenced == Init => FencedOK
<1> SUFFICES ASSUME Init PROVE FencedOK
  OBVIOUS
<1>1. CopiesApart
  BY DEF Init, QueueInit, CopiesApart, ToSet
<1> QED
  BY <1>1 DEF Init, QueueInit, FencedOK, Begun, ServedOnce

(* The invariant is inductive where no release makes a twin.                *)
LEMMA NextFenced ==
  Inv /\ NoTwins /\ FencedOK /\ [Next]_vars => FencedOK' /\ Fences
<1> SUFFICES ASSUME Inv, NoTwins, FencedOK, [Next]_vars
             PROVE  FencedOK' /\ Fences
  OBVIOUS
<1>1. CASE \E job \in Jobs, delay \in Delays : Enqueue(job, delay)
  BY <1>1, EnqueueFenced
<1>2. CASE Tick \/ \E p \in Processes : ProcessNext(p)
  BY <1>2, ElsewhereFenced
<1>3. ASSUME NEW w \in Workers, WorkerNext(w) PROVE FencedOK' /\ Fences
  BY <1>3, QuietFenced, MigrateDelayedFenced, MigrateReservedFenced, ReserveJobFenced, AckFenced,
     ReleaseFenced DEF WorkerNext, Progress
<1>4. CASE UNCHANGED vars
  BY <1>4 DEF vars, queueVars, workerVars, FencedOK, Begun, CopiesApart, ServedOnce, Stored,
     Fences
<1> QED
  BY <1>1, <1>2, <1>3, <1>4 DEF Next

(* However late a worker is, its ack or release never removes the valid     *)
(* reservation of another, as long as no release makes the job a second     *)
(* copy with the same availableAt: for any backoff, any number of attempts, *)
(* workers and jobs, and whatever crashes, hangs or is lost.                *)
THEOREM LateWorkersAreFenced == Spec /\ []NoTwins => ReservationsFenced
<1>1. Init => FencedOK
  BY InitFenced
<1>2. Inv /\ NoTwins /\ FencedOK /\ [Next]_vars => FencedOK'
  BY NextFenced
<1>3. Inv /\ NoTwins /\ FencedOK /\ [Next]_vars =>
        [\A w \in Workers :
           (/\ held[w] # NoJob /\ held[w].id \notin Malformed
            /\ held[w] \in DOMAIN reserved /\ reserved[held[w]] > now
            /\ pc'[w] = pc[w] /\ held'[w] = held[w])
           => held[w] \in DOMAIN reserved']_vars
  BY NextFenced DEF Fences
<1> QED
  BY <1>1, <1>2, <1>3, Invariance, PTL DEF Spec, ReservationsFenced

(* Prompt workers make no twins: whoever releases a job has it alone.       *)
THEOREM PromptMakesNoTwins ==
  ASSUME Prompt
  PROVE  Spec => []NoTwins
<1>1. Init => SingleOK
  BY InitSingle
<1>2. Inv /\ SingleOK /\ [Next]_vars => SingleOK'
  BY NextSingle
<1>3. Inv /\ SingleOK => NoTwins
  <2> SUFFICES ASSUME Inv, SingleOK, NEW w \in Workers, pc[w] = "release",
                      NEW p \in Elsewhere(w)
               PROVE  ~SameCopy(p, Released(w))
    BY DEF NoTwins, At
  <2>1. held[w] # NoJob /\ held[w] \in Payload
    BY DEF Inv, ControlOK, Settling
  <2>2. Released(w).id = held[w].id
    BY <2>1 DEF Released, Payload
  <2>3. p.id # held[w].id
    BY <2>1 DEF Elsewhere, SingleOK, HeldAlone
  <2> QED
    BY <2>2, <2>3 DEF SameCopy
<1> QED
  BY <1>1, <1>2, <1>3, Invariance, PTL DEF Spec
=============================================================================
