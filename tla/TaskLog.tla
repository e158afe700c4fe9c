------------------------------- MODULE TaskLog -------------------------------
(* The history of tasks: worker_task_events, numbered within a task, and     *)
(* worker_task_attempts, one row per attempt.  The number of an event is     *)
(* read before the event is inserted; a unique index on (task_id, event_seq) *)
(* refuses the loser of a race, which then tries again, three times in all.  *)
EXTENDS TaskRuns, Sequences, FiniteSetsExt

ASSUME ApiIsNoRun == "api" \notin Runs

VARIABLES
  events,     \* of each task: the events by their number
  attempts,   \* of each task: what is recorded of its attempts
  appending,  \* of each run: where it is in appendEvent
  appended    \* of each run: the events whose append has returned (history)

logVars == <<events, attempts, appending, appended>>

Tries == 3

Fresh == [seq |-> 0, tries |-> 0]

LogInit ==
  /\ events = [t \in Tasks |-> [n \in {1} |-> [by |-> "api", type |-> "accepted"]]]
  /\ attempts = [t \in Tasks |-> [a \in 1..MaxAttempts |-> "none"]]
  /\ appending = [r \in Runs |-> Fresh]
  /\ appended = [r \in Runs |-> <<>>]

NumbersOf(t) == DOMAIN events[t]

(* getNextEventSequence().                                                   *)
ReadSequence(r) ==
  /\ appending[r].seq = 0
  /\ appending' = [appending EXCEPT ![r].seq = Max(NumbersOf(TaskOf[r])) + 1]
  /\ UNCHANGED <<events, attempts, appended>>

(* The number is free.                                                       *)
Free(r) == appending[r].seq # 0 /\ appending[r].seq \notin NumbersOf(TaskOf[r])

(* The unique index refuses the insert.                                      *)
Taken(r) == appending[r].seq \in NumbersOf(TaskOf[r])

(* A log with an event under a number.                                       *)
With(log, n, event) == [m \in DOMAIN log \cup {n} |-> IF m = n THEN event ELSE log[m]]

(* Faulty variant: without the unique index, two events have one number.     *)
OverwriteEvent(r, type) ==
  /\ appending[r].seq # 0
  /\ events' = [events EXCEPT ![TaskOf[r]] =
                  With(@, appending[r].seq, [by |-> r, type |-> type])]

(* The INSERT of appendEvent.                                                *)
InsertEvent(r, type) ==
  /\ Free(r)
  /\ events' = [events EXCEPT ![TaskOf[r]] =
                  With(@, appending[r].seq, [by |-> r, type |-> type])]

(* ... and its return.                                                       *)
Returns(r, type) ==
  /\ appending' = [appending EXCEPT ![r] = Fresh]
  /\ appended' = [appended EXCEPT ![r] = Append(@, type)]
  /\ UNCHANGED attempts

(* Error 23505, and another try: the number is read again.                   *)
TryAgain(r) ==
  /\ Taken(r) /\ appending[r].tries + 1 < Tries
  /\ appending' = [appending EXCEPT ![r] = [seq |-> 0, tries |-> @.tries + 1]]
  /\ UNCHANGED <<events, attempts, appended>>

(* The third error 23505 is thrown.                                          *)
GivesUp(r) == Taken(r) /\ appending[r].tries + 1 = Tries

Abandon(r) == appending' = [appending EXCEPT ![r] = Fresh]

(* Faulty variant: ON CONFLICT DO NOTHING.                                   *)
InsertAttempt(t, a, status) ==
  attempts' = [attempts EXCEPT ![t][a] = IF @ = "none" THEN status ELSE @]

(* saveAttempt(): an upsert on (task_id, attempt_no).                        *)
UpsertAttempt(t, a, status) == attempts' = [attempts EXCEPT ![t][a] = status]
=============================================================================
