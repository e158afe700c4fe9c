------------------------------ MODULE RedisQueue ------------------------------
(***************************************************************************)
(* The Redis side of the task queue: RedisQueueDriver and the Lua scripts   *)
(* it evaluates.  Redis runs a script atomically, so one script is one      *)
(* operator that gives the next value of the four keys of a queue:          *)
(*                                                                          *)
(*   ready     LIST of payloads, served from the left                       *)
(*   delayed   ZSET payload -> unix second at which it becomes ready        *)
(*   reserved  ZSET payload -> unix second at which its reservation expires *)
(*   notify    LIST of '1' tokens, of which only the length matters         *)
(*                                                                          *)
(* A payload is the JSON text of an envelope.  What tells two payloads of   *)
(* one job apart is the attempt counter and availableAt; the other fields   *)
(* never change after createQueueJobEnvelope, so they are left out.         *)
(***************************************************************************)
EXTENDS Integers, Sequences, FiniteSets, SequencesExt

CONSTANTS
  Jobs,          \* envelope ids (job_<uuid>)
  Malformed,     \* the jobs whose payload is not JSON (left by a foreign writer)
  RetryAfter,    \* COMFYUI_WORKER_RETRY_AFTER_SECONDS, the life of a reservation
  BatchSize,     \* migrateBatchSize
  Backoff        \* envelope.backoff, a sequence of seconds

ASSUME QueueAssumption ==
  /\ Malformed \subseteq Jobs
  /\ RetryAfter \in Nat \ {0}
  /\ BatchSize \in Nat \ {0}
  /\ Backoff \in Seq(Nat)

VARIABLES ready, delayed, reserved, notify, now

queueVars == <<ready, delayed, reserved, notify>>

Payload == [id : Jobs, attempts : Nat, availableAt : Nat]

-----------------------------------------------------------------------------
(* Sorted sets.                                                              *)

ZAdd(zset, member, score) ==
  [m \in DOMAIN zset \cup {member} |-> IF m = member THEN score ELSE zset[m]]

ZRem(zset, members) == [m \in DOMAIN zset \ members |-> zset[m]]

(* Every payload that Redis holds, wherever it is.                          *)
Stored == ToSet(ready) \cup DOMAIN delayed \cup DOMAIN reserved

StoredIds == {p.id : p \in Stored}

-----------------------------------------------------------------------------
(* computeRetryDelaySeconds: the delay listed for this attempt, the last    *)
(* one when the list is shorter, none when it is empty.                     *)
RetryDelay(attempts) ==
  IF Backoff = <<>> THEN 0
  ELSE IF attempts = 0 THEN Backoff[1]
       ELSE IF attempts <= Len(Backoff) THEN Backoff[attempts]
            ELSE Backoff[Len(Backoff)]

(* enqueue: push.lua without a delay, later.lua (no token) with one.        *)
EnqueueScript(job, delay) ==
  LET envelope == [id |-> job, attempts |-> 0, availableAt |-> now + delay]
  IN  \/ /\ delay = 0
         /\ ready' = Append(ready, envelope)
         /\ notify' = notify + 1
         /\ UNCHANGED <<delayed, reserved>>
      \/ /\ delay > 0
         /\ delayed' = ZAdd(delayed, envelope, now + delay)
         /\ UNCHANGED <<ready, reserved, notify>>

(* Faulty variant: pop.lua hands the payload out as it is.                   *)
KeepAttempts(p) == p

(* The rewrite pop.lua makes of a payload that decodes.                     *)
CountAttempt(p) ==
  IF p.id \in Malformed THEN p ELSE [p EXCEPT !.attempts = @ + 1]

(* Faulty variant: the reservation expires the moment it is made.            *)
ExpiresAtOnce(asked) == asked

(* The score of a reservation.  The driver reads its clock before it calls  *)
(* a script: "asked" is when it did.                                        *)
ReservedUntil(asked) == asked + RetryAfter

(* Faulty variants of pop.lua: a token is taken from an empty list; no      *)
(* token is taken; the payload is not reserved.                             *)
PopBelowZero(asked) ==
  LET p == CountAttempt(Head(ready))
  IN  /\ ready' = Tail(ready)
      /\ reserved' = ZAdd(reserved, p, ReservedUntil(asked))
      /\ notify' = notify - 1
      /\ UNCHANGED delayed

PopWithoutToken(asked) ==
  LET p == CountAttempt(Head(ready))
  IN  /\ ready' = Tail(ready)
      /\ reserved' = ZAdd(reserved, p, ReservedUntil(asked))
      /\ UNCHANGED <<delayed, notify>>

PopWithoutReservation(asked) ==
  /\ ready' = Tail(ready)
  /\ notify' = IF notify > 0 THEN notify - 1 ELSE 0
  /\ UNCHANGED <<delayed, reserved>>

(* pop.lua on a list that is not empty.                                     *)
PopScript(asked) ==
  LET p == CountAttempt(Head(ready))
  IN  /\ ready' = Tail(ready)
      /\ reserved' = ZAdd(reserved, p, ReservedUntil(asked))
      /\ notify' = IF notify > 0 THEN notify - 1 ELSE 0
      /\ UNCHANGED delayed

(* ack: ZREM of exactly the payload that reserve returned; how many members *)
(* it removed is not looked at.                                             *)
AckCommand(p) ==
  /\ reserved' = ZRem(reserved, {p})
  /\ UNCHANGED <<ready, delayed, notify>>

(* Faulty variant: a payload that is released is not delayed.                *)
ReleaseAndForget(p, availableAt) ==
  /\ reserved' = ZRem(reserved, {p})
  /\ UNCHANGED <<ready, delayed, notify>>

(* release.lua: the payload is delayed again whether or not the ZREM found  *)
(* the reservation.                                                         *)
ReleaseScript(p, availableAt) ==
  LET again == [p EXCEPT !.availableAt = availableAt]
  IN  /\ reserved' = ZRem(reserved, {p})
      /\ delayed' = ZAdd(delayed, again, availableAt)
      /\ UNCHANGED <<ready, notify>>

(* What one call of migrate_expired may move: the due members with the      *)
(* lowest scores, at most BatchSize of them, in the order of their scores.  *)
Due(zset, asked) == {m \in DOMAIN zset : zset[m] <= asked}

BatchLength(due) ==
  IF Cardinality(due) < BatchSize THEN Cardinality(due) ELSE BatchSize

Batches(zset, asked) ==
  LET due == Due(zset, asked)
  IN  {batch \in [1..BatchLength(due) -> due] :
         \A i \in DOMAIN batch :
           /\ \A k \in 1..(i - 1) : batch[k] # batch[i]
           /\ \A m \in due :
                zset[m] < zset[batch[i]] => \E k \in 1..(i - 1) : batch[k] = m}

MigrateFromDelayed(batch) ==
  /\ delayed' = ZRem(delayed, ToSet(batch))
  /\ ready' = ready \o batch
  /\ notify' = notify + Len(batch)
  /\ UNCHANGED reserved

MigrateFromReserved(batch) ==
  /\ reserved' = ZRem(reserved, ToSet(batch))
  /\ ready' = ready \o batch
  /\ notify' = notify + Len(batch)
  /\ UNCHANGED delayed

(* A BLPOP that finds a token.                                              *)
TakeToken ==
  /\ notify > 0
  /\ notify' = notify - 1
  /\ UNCHANGED <<ready, delayed, reserved>>

QueueInit ==
  /\ ready = <<>>
  /\ delayed = [m \in {} |-> 0]
  /\ reserved = [m \in {} |-> 0]
  /\ notify = 0
  /\ now = 0

(* A ZSET of payloads: a function from some payloads to their scores.       *)
IsZSet(zset) ==
  /\ DOMAIN zset \subseteq Payload
  /\ zset \in [DOMAIN zset -> Nat]

QueueTypeOK ==
  /\ ready \in Seq(Payload)
  /\ IsZSet(delayed)
  /\ IsZSet(reserved)
  /\ notify \in Nat
  /\ now \in Nat
=============================================================================
