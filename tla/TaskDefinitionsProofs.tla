------------------------ MODULE TaskDefinitionsProofs ------------------------
(***************************************************************************)
(* OneEnabled and PublishedIsEnabled, for all requests, names and histories *)
(* of restarts and failures.                                                *)
(*                                                                          *)
(* Clean says of a history without overlaps what each client has open.  A   *)
(* transaction that enables a row has seen every row that is enabled when   *)
(* it commits (Covered): for a request, because nobody else writes; for a   *)
(* process that starts, because another one that commits before it takes    *)
(* its version (Fresh), and the unique index refuses it.                    *)
(*                                                                          *)
(* Current adds what is published: nothing until the API has its definition *)
(* (Beginning); from then on a worker that still starts replaces nothing    *)
(* (Settled), and every name has what is chosen or is owed by a client that *)
(* will publish it (Owes).                                                  *)
(***************************************************************************)
EXTENDS TaskDefinitions, FiniteSetTheorems, SequenceTheorems, WellFoundedInduction, TLAPS

-----------------------------------------------------------------------------
(* What a history without overlaps keeps.                                   *)

(* Where clients can be.                                                    *)
Transacting == {"disable", "locking", "write", "commit"}

AdminSteps == {"idle", "put", "delete", "sync", "publish"} \cup Transacting

StarterSteps == {"start", "count", "number", "publishAll", "publish", "ready"} \cup Transacting

Seen == UNION {[N -> Bodies \cup {None}] : N \in SUBSET Names}

Client ==
  [at : AdminSteps \cup StarterSteps, id : Nat, row : Row \cup {Gone}, before : Names \cup {None},
   targets : SUBSET Nat, disabled : SUBSET Nat, names : Seq(Names), seen : Seen]

(* The table has finitely many versions, so there is a highest one.         *)
TableOK ==
  /\ table \in Seq(Row \cup {Gone})
  /\ \E b \in Nat : \A i \in Rows : table[i].version <= b

ClientsOK ==
  /\ clients \in [Clients -> Client]
  /\ \A a \in Admins : clients[a].at \in AdminSteps
  /\ \A p \in Starters : clients[p].at \in StarterSteps
  /\ ~At(Worker, "publishAll") /\ ~At(Worker, "publish")

Types ==
  /\ TableOK /\ ClientsOK
  /\ published \in [Names -> Bodies \cup {None}]
  /\ failures \in Nat

(* Requests come one after the other, and only when both processes run.     *)
Alone == \A a \in Admins : Busy(a) => \A c \in Clients \ {a} : ~Busy(c)

OneEach == \A name \in Names : \A i, k \in EnabledOf(name) : i = k

(* No enabled row escapes a transaction.                                    *)
Covered(c) == Others(c) \subseteq clients[c].targets \cup clients[c].disabled

(* What a transaction has written is of its worker name, and not its row.   *)
Prepared(c) ==
  /\ clients[c].row \in Row
  /\ clients[c].disabled \subseteq Rows \ {clients[c].id}
  /\ \A i \in clients[c].disabled : table[i].worker = clients[c].row.worker
  /\ clients[c].at \in {"disable", "locking"} => clients[c].row.enabled
  /\ clients[c].at \in {"write", "commit"} => clients[c].targets = {}

NamesOf(c) == {clients[c].names[n] : n \in DOMAIN clients[c].names}

(* A request publishes the name its row had and the one it gets.            *)
RequestOK(a) ==
  /\ clients[a].at \in {"put", "delete"} =>
       /\ clients[a].id \in Rows
       /\ clients[a].before = table[clients[a].id].worker
       /\ clients[a].before \in NamesOf(a)
  /\ clients[a].at \in Transacting =>
       /\ Prepared(a)
       /\ clients[a].row.enabled /\ ~At(a, "disable") => Covered(a)
       /\ clients[a].row.worker \in NamesOf(a)
       /\ \/ clients[a].id = NewId
          \/ clients[a].id \in Rows /\ table[clients[a].id].worker \in NamesOf(a)

(* The version after the last one.                                          *)
Fresh(version) ==
  /\ version = 1 \/ version - 1 \in Versions
  /\ \A v \in Versions : v < version

(* A process that starts adds the next version, or one that is taken.       *)
StarterOK(p) ==
  /\ clients[p].names = <<>>
  /\ At(p, "number") => clients[p].row \in Row /\ clients[p].row.version \in Versions
  /\ clients[p].at \in Transacting =>
       /\ Prepared(p)
       /\ clients[p].id = NewId
       /\ clients[p].row = BuiltIn(clients[p].row.version)
       /\ Fresh(clients[p].row.version) \/ clients[p].row.version \in Versions
       /\ Fresh(clients[p].row.version) /\ ~At(p, "disable") => Covered(p)
       /\ At(p, "commit") => Fresh(clients[p].row.version)

OneCommits == \A p, q \in Starters : At(p, "commit") /\ At(q, "commit") => p = q

Clean ==
  /\ Types /\ Alone /\ OneEach /\ OneCommits
  /\ \A a \in Admins : RequestOK(a)
  /\ \A p \in Starters : StarterOK(p)

CleanOK == ~overlapped => Clean

-----------------------------------------------------------------------------
(* The API has yet to find, or make, its definition.                        *)
Starting == clients[Server].at \in {"start", "count", "number"} \cup Transacting

(* From then on the worker, if it still starts, finds nothing to replace, or*)
(* replaces the definition of this build by itself.                         *)
Settled ==
  \/ At(Worker, "ready")
  \/ Chosen(WorkerName) = "builtin"
  \/ clients[Worker].at \in {"start", "count"} /\ Versions # {} /\ Chosen(WorkerName) # "old"

(* The names a client is going to publish.                                  *)
Owes(c) ==
  CASE At(c, "sync")    -> NamesOf(c)
    [] At(c, "publish") -> NamesOf(c) \cup DOMAIN clients[c].seen
    [] OTHER            -> {}

(* Before, no request has been let in.                                      *)
Beginning ==
  /\ \A i \in Rows : table[i].worker = WorkerName => table[i].body # "custom"
  /\ At(Worker, "number") => EnabledOf(WorkerName) # {}
  /\ clients[Worker].at \in Transacting => EnabledOf(WorkerName) # {} \/ Versions = {}
  /\ At(Server, "count") => Chosen(WorkerName) # "old"

Current ==
  /\ Starting \/ At(Server, "publishAll") => \A name \in Names : published[name] = None
  /\ IF Starting THEN Beginning ELSE Settled
  /\ ~Starting /\ ~At(Server, "publishAll") =>
       \A name \in Names : published[name] = Chosen(name) \/ \E c \in Clients : name \in Owes(c)
  /\ \A c \in Clients : At(c, "publish") =>
       \A n \in DOMAIN clients[c].seen : clients[c].seen[n] = Chosen(n)

CurrentOK == ~overlapped /\ failures = 0 => Current

-----------------------------------------------------------------------------
(* Numbers.                                                                 *)

(* A set of numbers has a least one.                                        *)
LEMMA MinOf ==
  ASSUME NEW S \in SUBSET Nat, S # {}
  PROVE  \E n \in S : \A m \in S : n <= m
<1>1. PICK n \in S : \A m \in S : <<m, n>> \notin OpToRel(<, Nat)
  BY NatLessThanWellFounded, WFMin
<1>2. ASSUME NEW m \in S
      PROVE  n <= m
  <2>1. ~(m < n)
    BY <1>1 DEF OpToRel
  <2> QED
    BY <2>1
<1> QED
  BY <1>2

(* The Max of a bounded set is its greatest element.                        *)
LEMMA MaxOf ==
  ASSUME NEW S \in SUBSET Nat, S # {}, NEW b \in Nat, \A v \in S : v <= b
  PROVE  Max(S) \in S /\ \A v \in S : v <= Max(S)
<1> DEFINE T == {b - v : v \in S}
<1>1. \A v \in S : v \in Nat /\ b - v \in Nat
  OBVIOUS
<1>2. T \in SUBSET Nat
  BY <1>1
<1>3. T # {}
  OBVIOUS
<1> HIDE DEF T
<1>4. PICK n \in T : \A m \in T : n <= m
  BY <1>2, <1>3, MinOf
<1>5. PICK u \in S : n = b - u
  BY <1>4 DEF T
<1>6. \A v \in S : b - v \in T
  BY DEF T
<1>7. ASSUME NEW v \in S
      PROVE  u >= v
  <2>1. b - u <= b - v
    BY <1>4, <1>5, <1>6
  <2> QED
    BY <1>1, <2>1
<1>8. Max(S) \in S /\ \A v \in S : Max(S) >= v
  BY <1>7 DEF Max
<1>9. \A v \in S : v \in Nat /\ (Max(S) >= v => v <= Max(S))
  BY <1>1, <1>8
<1> QED
  BY <1>8, <1>9

-----------------------------------------------------------------------------
(* The table.                                                               *)

(* The two processes and the requests are different.                        *)
LEMMA DifferentClients ==
  /\ Server \in Starters /\ Worker \in Starters /\ Server # Worker
  /\ Server \in Clients /\ Worker \in Clients
  /\ \A a \in Admins : a \in Clients /\ a \notin Starters /\ a # Server /\ a # Worker
  /\ \A p \in Starters : p \in Clients /\ p \notin Admins
  /\ \A c \in Clients : c \in Admins \/ c \in Starters
BY DefinitionAssumption DEF Starters, Clients

(* The rows of a table have ids and are rows.                               *)
LEMMA RowsOfTable ==
  ASSUME TableOK
  PROVE  \A i \in Rows : /\ i \in Nat /\ i # NewId /\ i \in DOMAIN table /\ i \in 1..Len(table)
                         /\ table[i] \in Row
BY DEF TableOK, Rows, NewId

(* So have those of the next table.                                         *)
LEMMA RowsOfNextTable ==
  ASSUME TableOK'
  PROVE  \A i \in Rows' : /\ i \in Nat /\ i # NewId /\ i \in DOMAIN table' /\ i \in 1..Len(table')
                          /\ table'[i] \in Row
BY DEF TableOK, Rows, NewId

(* What is said of the table stays true while nobody writes it.             *)
LEMMA SameTable ==
  ASSUME UNCHANGED table
  PROVE  /\ Rows' = Rows /\ Versions' = Versions
         /\ TableOK => TableOK'
         /\ OneEach => OneEach'
         /\ \A name \in Names : EnabledOf(name)' = EnabledOf(name)
         /\ \A name \in Names : Chosen(name)' = Chosen(name)
BY DEF Rows, Versions, EnabledOf, Chosen, TableOK, OneEach

(* The only enabled row of a name is the chosen one.                        *)
LEMMA ChosenIsOnly ==
  ASSUME TableOK, OneEach, NEW name \in Names
  PROVE  /\ \A i \in EnabledOf(name) : Chosen(name) = table[i].body
         /\ EnabledOf(name) = {} => Chosen(name) = None
<1>1. ASSUME NEW i \in EnabledOf(name)
      PROVE  Chosen(name) = table[i].body
  <2>1. \A k \in EnabledOf(name) : k = i
    BY <1>1 DEF OneEach
  <2>2. table[i].version \in Nat
    BY <1>1, RowsOfTable DEF EnabledOf, Row
  <2>3. \A k \in EnabledOf(name) : table[k].version <= table[i].version
    BY <2>1, <2>2
  <2> DEFINE only == CHOOSE j \in EnabledOf(name) :
                       \A k \in EnabledOf(name) : table[k].version <= table[j].version
  <2>4. only \in EnabledOf(name)
    BY <1>1, <2>3
  <2>5. only = i
    BY <2>1, <2>4
  <2> HIDE DEF only
  <2> QED
    BY <1>1, <2>5 DEF Chosen, only
<1> QED
  BY <1>1 DEF Chosen

(* The same of the next table.                                              *)
LEMMA NextChosenIsOnly ==
  ASSUME TableOK', OneEach', NEW name \in Names
  PROVE  /\ \A i \in EnabledOf(name)' : Chosen(name)' = table'[i].body
         /\ EnabledOf(name)' = {} => Chosen(name)' = None
<1>1. ASSUME NEW i \in EnabledOf(name)'
      PROVE  Chosen(name)' = table'[i].body
  <2>1. \A k \in EnabledOf(name)' : k = i
    BY <1>1 DEF OneEach
  <2>2. table'[i].version \in Nat
    BY <1>1, RowsOfNextTable DEF EnabledOf, Row
  <2>3. \A k \in EnabledOf(name)' : table'[k].version <= table'[i].version
    BY <2>1, <2>2
  <2> DEFINE only == CHOOSE j \in EnabledOf(name)' :
                       \A k \in EnabledOf(name)' : table'[k].version <= table'[j].version
  <2>4. only \in EnabledOf(name)'
    BY <1>1, <2>3
  <2>5. only = i
    BY <2>1, <2>4
  <2> HIDE DEF only
  <2> QED
    BY <1>1, <2>5 DEF Chosen, only
<1> QED
  BY <1>1 DEF Chosen

(* Something is chosen if and only if something is enabled.                 *)
LEMMA ChosenIsBody ==
  ASSUME TableOK, OneEach, NEW name \in Names
  PROVE  /\ Chosen(name) \in Bodies \cup {None}
         /\ Chosen(name) = None <=> EnabledOf(name) = {}
<1>1. CASE EnabledOf(name) = {}
  BY <1>1, ChosenIsOnly
<1>2. CASE EnabledOf(name) # {}
  <2>1. PICK i \in EnabledOf(name) : TRUE
    BY <1>2
  <2>2. table[i].body \in Bodies
    BY <2>1, RowsOfTable DEF EnabledOf, Row
  <2>3. None \notin Bodies
    BY DefinitionAssumption
  <2> QED
    BY <1>2, <2>1, <2>2, <2>3, ChosenIsOnly
<1> QED
  BY <1>1, <1>2

(* Versions are numbers, and bounded.                                       *)
LEMMA VersionsAreNumbers ==
  ASSUME TableOK
  PROVE  /\ Versions \in SUBSET Nat
         /\ \E b \in Nat : \A v \in Versions : v <= b
         /\ \A i \in Rows : table[i].worker = WorkerName => table[i].version \in Versions
<1>1. Versions \in SUBSET Nat
  BY RowsOfTable DEF Versions, Row
<1>2. PICK b \in Nat : \A i \in Rows : table[i].version <= b
  BY DEF TableOK
<1>3. \A v \in Versions : v <= b
  BY <1>2 DEF Versions
<1>4. \A i \in Rows : table[i].worker = WorkerName => table[i].version \in Versions
  BY DEF Versions
<1> QED
  BY <1>1, <1>3, <1>4

-----------------------------------------------------------------------------
(* Clients.                                                                 *)

(* Nothing to publish, and no names.                                        *)
LEMMA EmptyIsSeen ==
  /\ <<>> \in Seen /\ <<>> \in Seq(Names)
  /\ DOMAIN <<>> = {}
<1>1. <<>> \in [{} -> Bodies \cup {None}]
  OBVIOUS
<1>2. {} \in SUBSET Names
  OBVIOUS
<1>3. <<>> \in Seen
  BY <1>1, <1>2 DEF Seen
<1> QED
  BY <1>3

(* What is to be published of a set of names.                               *)
LEMMA IsSeen ==
  ASSUME NEW N \in SUBSET Names, NEW f \in [N -> Bodies \cup {None}]
  PROVE  f \in Seen
BY DEF Seen

(* And back.                                                                *)
LEMMA SeenIs ==
  ASSUME NEW f \in Seen
  PROVE  /\ DOMAIN f \in SUBSET Names
         /\ \A n \in DOMAIN f : f[n] \in Bodies \cup {None}
         /\ f = [n \in DOMAIN f |-> f[n]]
<1>1. PICK N \in SUBSET Names : f \in [N -> Bodies \cup {None}]
  BY DEF Seen
<1> QED
  BY <1>1

(* One less.                                                                *)
LEMMA SeenWithout ==
  ASSUME NEW f \in Seen, NEW n
  PROVE  [m \in DOMAIN f \ {n} |-> f[m]] \in Seen
<1>1. DOMAIN f \ {n} \in SUBSET Names
  BY SeenIs
<1>2. [m \in DOMAIN f \ {n} |-> f[m]] \in [DOMAIN f \ {n} -> Bodies \cup {None}]
  BY SeenIs
<1> QED
  BY <1>1, <1>2, IsSeen

(* A client that has not read anything.                                     *)
LEMMA RestingIsClient ==
  ASSUME NEW at \in AdminSteps \cup StarterSteps
  PROVE  /\ Resting(at) \in Client
         /\ Resting(at).at = at /\ Resting(at).id = NewId /\ Resting(at).row = Gone
         /\ Resting(at).targets = {} /\ Resting(at).disabled = {}
         /\ Resting(at).names = <<>> /\ Resting(at).seen = <<>>
BY EmptyIsSeen DEF Resting, Client, NewId

(* A client that begins its transaction.                                    *)
LEMMA OpenedIsClient ==
  ASSUME NEW id \in Nat, NEW row \in Row, NEW names \in Seq(Names)
  PROVE  /\ Opened(id, row, names) \in Client
         /\ Opened(id, row, names).at \in {"disable", "write"}
         /\ Opened(id, row, names).at = "disable" <=> row.enabled
         /\ Opened(id, row, names).id = id /\ Opened(id, row, names).row = row
         /\ Opened(id, row, names).targets = {} /\ Opened(id, row, names).disabled = {}
         /\ Opened(id, row, names).names = names
<1>1. row.enabled \in BOOLEAN
  BY DEF Row
<1>2. /\ Resting("disable") \in Client /\ Resting("write") \in Client
      /\ Resting("disable").at = "disable" /\ Resting("write").at = "write"
      /\ \A at \in {"disable", "write"} :
            Resting(at).targets = {} /\ Resting(at).disabled = {}
  BY RestingIsClient DEF AdminSteps, Transacting
<1> DEFINE at == IF row.enabled THEN "disable" ELSE "write"
           r == Resting(at)
<1>3. /\ r \in Client /\ r.at = at /\ r.targets = {} /\ r.disabled = {} /\ at \in {"disable", "write"}
      /\ at = "disable" <=> row.enabled
  BY <1>1, <1>2
<1>4. Opened(id, row, names) = [r EXCEPT !.id = id, !.row = row, !.names = names]
  BY DEF Opened
<1> HIDE DEF r, at
<1> QED
  BY <1>3, <1>4 DEF Client

(* A step of one client.                                                    *)
Only(c) ==
  /\ ClientsOK'
  /\ \A d \in Clients \ {c} : clients'[d] = clients[d]

(* Where it leaves that client and the others.                              *)
LEMMA OneSteps ==
  ASSUME ClientsOK, NEW c \in Clients, NEW r \in Client, Steps(c, r),
         c \in Admins => r.at \in AdminSteps,
         c \in Starters => r.at \in StarterSteps,
         c = Worker => r.at \notin {"publishAll", "publish"}
  PROVE  Only(c) /\ clients'[c] = r
<1>1. /\ clients' \in [Clients -> Client] /\ clients'[c] = r
      /\ \A d \in Clients \ {c} : clients'[d] = clients[d]
  BY DEF Steps, ClientsOK
<1>2. ClientsOK'
  BY <1>1, DifferentClients DEF ClientsOK, At
<1> QED
  BY <1>1, <1>2 DEF Only

(* A request keeps the invariant: nobody else does anything.                *)
LEMMA RequestKeeps ==
  ASSUME Clean, NEW a \in Admins, Only(a),
         Busy(a) \/ \A c \in Clients \ {a} : ~Busy(c),
         TableOK', OneEach', RequestOK(a)',
         published' \in [Names -> Bodies \cup {None}], failures' \in Nat
  PROVE  Clean'
<1>1. \A c \in Clients \ {a} : /\ clients[c].at \in {"idle", "ready"}
                               /\ clients'[c].at \in {"idle", "ready"}
                               /\ clients'[c] = clients[c]
  BY DEF Clean, Alone, Busy, Only
<1>2. Types'
  BY DEF Types, Only
<1>3. Alone'
  BY <1>1, DifferentClients DEF Alone, Busy
<1>4. OneCommits'
  BY <1>1, DifferentClients DEF OneCommits, At
<1>5. \A b \in Admins : RequestOK(b)'
  <2> SUFFICES ASSUME NEW b \in Admins, b # a
               PROVE  RequestOK(b)'
    OBVIOUS
  <2>1. clients'[b].at \in {"idle", "ready"}
    BY <1>1, DifferentClients
  <2> QED
    BY <2>1 DEF RequestOK, Transacting
<1>6. \A p \in Starters : StarterOK(p)'
  <2> SUFFICES ASSUME NEW p \in Starters
               PROVE  StarterOK(p)'
    OBVIOUS
  <2>1. clients'[p].at \in {"idle", "ready"} /\ clients'[p] = clients[p]
    BY <1>1, DifferentClients
  <2>2. clients[p].names = <<>>
    BY DEF Clean, StarterOK
  <2> QED
    BY <2>1, <2>2 DEF StarterOK, Transacting, At
<1> QED
  BY <1>2, <1>3, <1>4, <1>5, <1>6 DEF Clean

(* While a process starts no request runs.                                  *)
LEMMA NoRequestBeside ==
  ASSUME Clean, NEW p \in Starters, Busy(p)
  PROVE  \A a \in Admins : ~Busy(a) /\ clients[a].at = "idle"
<1> SUFFICES ASSUME NEW a \in Admins
             PROVE  ~Busy(a) /\ clients[a].at = "idle"
  OBVIOUS
<1>1. ~Busy(a)
  BY DifferentClients DEF Clean, Alone
<1>2. clients[a].at \in AdminSteps
  BY DEF Clean, Types, ClientsOK
<1> QED
  BY <1>1, <1>2 DEF Busy, AdminSteps, Transacting

(* What is said of a client stays true while neither it nor the table       *)
(* changes.                                                                 *)
LEMMA SameStarter ==
  ASSUME UNCHANGED table, NEW p \in Starters, clients'[p] = clients[p], StarterOK(p),
         clients[p].row \in Row => clients[p].row.worker \in Names
  PROVE  StarterOK(p)'
<1>1. Rows' = Rows /\ Versions' = Versions
  BY SameTable
<1>2. \A v : Fresh(v)' <=> Fresh(v)
  BY <1>1 DEF Fresh
<1>3. clients[p].row \in Row => Others(p)' = Others(p)
  BY SameTable DEF Others
<1>4. Prepared(p)' <=> Prepared(p)
  BY <1>1 DEF Prepared
<1>5. clients[p].row \in Row => (Covered(p)' <=> Covered(p))
  BY <1>3 DEF Covered
<1> QED
  BY <1>1, <1>2, <1>4, <1>5 DEF StarterOK, At, Prepared

(* A process that starts keeps the invariant with the table.                *)
LEMMA StarterKeeps ==
  ASSUME Clean, NEW p \in Starters, Only(p), UNCHANGED <<table, failures>>, Busy(p),
         published' \in [Names -> Bodies \cup {None}],
         StarterOK(p)',
         At(p, "commit")' => \A q \in Starters \ {p} : ~At(q, "commit")
  PROVE  Clean'
<1>1. \A a \in Admins : clients'[a] = clients[a] /\ clients[a].at = "idle"
  BY NoRequestBeside, DifferentClients DEF Only
<1>2. \A q \in Starters \ {p} : clients'[q] = clients[q]
  BY DifferentClients DEF Only
<1>3. Types' /\ OneEach'
  BY SameTable DEF Clean, Types, Only
<1>4. Alone'
  BY <1>1 DEF Alone, Busy
<1>5. OneCommits'
  BY <1>2 DEF OneCommits, At, Clean
<1>6. \A a \in Admins : RequestOK(a)'
  BY <1>1 DEF RequestOK, Transacting
<1>7. \A q \in Starters : StarterOK(q)'
  <2> SUFFICES ASSUME NEW q \in Starters, q # p
               PROVE  StarterOK(q)'
    OBVIOUS
  <2>1. StarterOK(q) /\ (clients[q].row \in Row => clients[q].row.worker \in Names)
    BY DEF Clean, Row
  <2> QED
    BY <1>2, <2>1, SameStarter
<1> QED
  BY <1>3, <1>4, <1>5, <1>6, <1>7 DEF Clean

-----------------------------------------------------------------------------
(* Transactions.                                                            *)

(* What a COMMIT makes of the table: row j is the one of the request.       *)
Committed(c, j) ==
  /\ j \notin clients[c].disabled
  /\ j = clients[c].id \/ (clients[c].id = NewId /\ j \notin Rows)
  /\ TableOK'
  /\ Rows' = Rows \cup {j}
  /\ table'[j] = clients[c].row
  /\ \A i \in Rows \ {j} :
       table'[i] = IF i \in clients[c].disabled THEN [table[i] EXCEPT !.enabled = FALSE]
                   ELSE table[i]

(* A row more.                                                              *)
LEMMA Appended ==
  ASSUME NEW T, NEW k \in Seq(T), NEW r \in T
  PROVE  /\ Append(k, r) \in Seq(T)
         /\ DOMAIN Append(k, r) = DOMAIN k \cup {Len(k) + 1}
         /\ Append(k, r)[Len(k) + 1] = r
         /\ \A i \in DOMAIN k : Append(k, r)[i] = k[i] /\ i # Len(k) + 1
         /\ Len(k) + 1 \in Nat /\ Len(k) + 1 # 0
OBVIOUS

(* COMMIT does that.                                                        *)
LEMMA CommitWrites ==
  ASSUME TableOK, NEW c \in Clients, clients[c].id = NewId \/ clients[c].id \in Rows,
         Prepared(c), Commit(c)
  PROVE  \E j : Committed(c, j)
<1> DEFINE t == clients[c]
           kept == [i \in DOMAIN table |->
                      CASE i \in t.disabled       -> [table[i] EXCEPT !.enabled = FALSE]
                        [] i = t.id /\ i \in Rows -> t.row
                        [] OTHER                  -> table[i]]
<1>1. t.row \in Row /\ t.disabled \subseteq Rows \ {t.id}
  BY DEF Prepared
<1>2. table' = IF t.id = NewId THEN Append(kept, t.row) ELSE kept
  BY DEF Commit
<1>3. \A i \in Rows : i # NewId /\ i \in DOMAIN table /\ table[i] \in Row
  BY RowsOfTable
<1>4. \A i \in DOMAIN table :
        /\ i \in t.disabled => kept[i] = [table[i] EXCEPT !.enabled = FALSE]
        /\ i = t.id /\ i \in Rows => kept[i] = t.row
        /\ i \notin t.disabled /\ ~(i = t.id /\ i \in Rows) => kept[i] = table[i]
  BY <1>1
<1>5. DOMAIN kept = DOMAIN table
  OBVIOUS
<1>6. \A i \in Rows : [table[i] EXCEPT !.enabled = FALSE] \in Row
  BY <1>3 DEF Row
<1>7. kept \in Seq(Row \cup {Gone}) /\ Len(kept) = Len(table)
  <2>1. \A i \in DOMAIN table : kept[i] \in Row \cup {Gone}
    BY <1>1, <1>4, <1>6 DEF TableOK
  <2>2. table \in Seq(Row \cup {Gone}) /\ DOMAIN table = 1..Len(table) /\ Len(table) \in Nat
    BY DEF TableOK
  <2>3. kept \in [1..Len(table) -> Row \cup {Gone}]
    BY <2>1, <2>2
  <2> HIDE DEF kept
  <2> QED
    BY <2>2, <2>3
<1>8. Gone \notin Row
  BY DefinitionAssumption
<1>9. PICK b \in Nat : \A i \in Rows : table[i].version <= b
  BY DEF TableOK
<1> DEFINE m == IF t.row.version <= b THEN b ELSE t.row.version
<1>10. m \in Nat /\ t.row.version <= m /\ b <= m
  BY <1>1, <1>9 DEF Row
<1>11. \A i \in Rows : table[i].version <= m
  <2> SUFFICES ASSUME NEW i \in Rows
               PROVE  table[i].version <= m
    OBVIOUS
  <2>1. table[i].version \in Nat /\ table[i].version <= b
    BY <1>3, <1>9 DEF Row
  <2> HIDE DEF m
  <2> QED
    BY <1>10, <2>1
<1> HIDE DEF kept, m, t
<1>12. {i \in DOMAIN table : kept[i] # Gone} = Rows
  <2> SUFFICES ASSUME NEW i \in DOMAIN table
               PROVE  kept[i] # Gone <=> i \in Rows
    BY DEF Rows
  <2>1. CASE i \in Rows
    <3>1. kept[i] \in Row
      BY <1>1, <1>3, <1>4, <1>6, <2>1
    <3> QED
      BY <1>8, <2>1, <3>1
  <2>2. CASE i \notin Rows
    BY <1>1, <1>4, <2>2 DEF Rows
  <2> QED
    BY <2>1, <2>2
<1>13. \A i \in Rows : kept[i].version <= m
  BY <1>1, <1>3, <1>4, <1>10, <1>11 DEF Row
<1>14. CASE t.id = NewId
  <2> DEFINE j == Len(kept) + 1
  <2>1. /\ table' \in Seq(Row \cup {Gone}) /\ DOMAIN table' = DOMAIN table \cup {j}
        /\ table'[j] = t.row /\ j \notin Rows
        /\ \A i \in DOMAIN table : table'[i] = kept[i]
    <3>1. table' = Append(kept, t.row) /\ t.row \in Row \cup {Gone}
      BY <1>1, <1>2, <1>14
    <3>2. \A i \in DOMAIN kept : i # j
      BY <1>7, Appended, <3>1
    <3> QED
      BY <1>3, <1>5, <1>7, <3>1, <3>2, Appended
  <2> HIDE DEF j
  <2>2. Rows' = Rows \cup {j}
    BY <1>1, <1>8, <1>12, <2>1 DEF Rows
  <2>3. \A i \in Rows' : table'[i].version <= m
    BY <1>3, <1>10, <1>13, <2>1, <2>2
  <2>4. TableOK'
    BY <1>10, <2>1, <2>3 DEF TableOK
  <2>5. \A i \in Rows : table'[i] = IF i \in t.disabled THEN [table[i] EXCEPT !.enabled = FALSE] ELSE table[i]
    BY <1>3, <1>4, <1>14, <2>1
  <2>6. Committed(c, j)
    BY <1>1, <1>14, <2>1, <2>2, <2>4, <2>5 DEF Committed, t
  <2> QED
    BY <2>6
<1>15. CASE t.id # NewId
  <2>1. table' = kept /\ t.id \in Rows
    BY <1>2, <1>15 DEF t
  <2>2. Rows' = Rows \cup {t.id}
    BY <1>5, <1>12, <2>1 DEF Rows
  <2>3. TableOK'
    BY <1>7, <1>10, <1>13, <2>1, <2>2 DEF TableOK
  <2>4. \A i \in Rows \ {t.id} :
           table'[i] = IF i \in t.disabled THEN [table[i] EXCEPT !.enabled = FALSE] ELSE table[i]
    BY <1>3, <1>4, <2>1
  <2>5. table'[t.id] = t.row
    BY <1>3, <1>4, <2>1
  <2>6. Committed(c, t.id)
    BY <1>1, <2>1, <2>2, <2>3, <2>4, <2>5 DEF Committed, t
  <2> QED
    BY <2>6
<1> QED
  BY <1>14, <1>15

(* The enabled rows after it.                                               *)
LEMMA CommitEnables ==
  ASSUME TableOK, OneEach, NEW c \in Clients, Prepared(c), clients[c].at = "commit",
         clients[c].row.enabled => Covered(c), NEW j, Committed(c, j)
  PROVE  /\ OneEach'
         /\ \A name \in Names : clients[c].row.enabled /\ name = clients[c].row.worker =>
              EnabledOf(name)' = {j}
<1> DEFINE t == clients[c]
           w == clients[c].row.worker
<1>1. \A i \in Rows \ {j} :
         /\ i \in t.disabled => table'[i].enabled = FALSE
         /\ i \notin t.disabled => table'[i] = table[i]
  BY RowsOfTable DEF Committed, Row
<1>2. Rows' = Rows \cup {j} /\ table'[j] = t.row /\ t.row \in Row /\ w \in Names
  BY DEF Committed, Prepared, Row
<1>3. ASSUME NEW name \in Names, NEW i \in EnabledOf(name)', i # j
      PROVE  i \in EnabledOf(name) /\ i \notin t.disabled
  <2>1. i \in Rows \ {j} /\ table'[i].worker = name /\ table'[i].enabled
    BY <1>2, <1>3 DEF EnabledOf
  <2> QED
    BY <1>1, <2>1 DEF EnabledOf
<1>4. ASSUME t.row.enabled, NEW i \in EnabledOf(w)
      PROVE  i \in t.disabled \/ i = j
  <2>1. Others(c) \subseteq t.disabled
    BY <1>4 DEF Covered, Prepared
  <2>2. i \in Others(c) \/ i = t.id
    BY <1>4 DEF Others
  <2>3. i = t.id => i = j
    <3> SUFFICES ASSUME i = t.id, t.id = NewId
                 PROVE  FALSE
      BY DEF Committed
    <3> QED
      BY <1>4, RowsOfTable DEF EnabledOf
  <2> QED
    BY <2>1, <2>2, <2>3
<1>5. \A name \in Names : j \in EnabledOf(name)' <=> name = w /\ t.row.enabled
  BY <1>2 DEF EnabledOf
<1>6. ASSUME t.row.enabled, NEW name \in Names, name = w
      PROVE  EnabledOf(name)' = {j}
  <2>1. j \in EnabledOf(name)'
    BY <1>5, <1>6
  <2>2. ASSUME NEW i \in EnabledOf(name)', i # j
        PROVE  FALSE
    BY <1>3, <1>4, <1>6, <2>2
  <2> QED
    BY <2>1, <2>2
<1>7. ASSUME NEW name \in Names, NEW i \in EnabledOf(name)', NEW k \in EnabledOf(name)'
      PROVE  i = k
  <2>1. CASE t.row.enabled /\ name = w
    BY <1>6, <1>7, <2>1
  <2>2. CASE ~(t.row.enabled /\ name = w)
    <3>1. i # j /\ k # j
      BY <1>5, <1>7, <2>2
    <3> QED
      BY <1>3, <1>7, <3>1 DEF OneEach
  <2> QED
    BY <2>1, <2>2
<1>8. OneEach'
  BY <1>7 DEF OneEach
<1> QED
  BY <1>6, <1>8

(* Names that the request has nothing to do with keep their rows.           *)
LEMMA CommitLeaves ==
  ASSUME TableOK, NEW c \in Clients, Prepared(c), NEW j, Committed(c, j),
         NEW name \in Names, name # clients[c].row.worker,
         clients[c].id \in Rows => table[clients[c].id].worker # name
  PROVE  /\ EnabledOf(name)' = EnabledOf(name)
         /\ \A i \in EnabledOf(name) : table'[i] = table[i]
<1> DEFINE t == clients[c]
<1>1. \A i \in Rows \ {j} :
         /\ i \in t.disabled => table'[i].worker = table[i].worker
         /\ i \notin t.disabled => table'[i] = table[i]
  BY RowsOfTable DEF Committed, Row
<1>2. Rows' = Rows \cup {j} /\ table'[j] = t.row
  BY DEF Committed
<1>3. j \in Rows => j = t.id
  BY DEF Committed
<1>4. \A i \in t.disabled : table[i].worker # name
  BY DEF Prepared
<1>5. j \notin EnabledOf(name) /\ j \notin EnabledOf(name)'
  BY <1>2, <1>3 DEF EnabledOf
<1>6. ASSUME NEW i \in Rows \ {j}
      PROVE  /\ i \in EnabledOf(name)' <=> i \in EnabledOf(name)
             /\ i \in EnabledOf(name) => table'[i] = table[i]
  BY <1>1, <1>2, <1>4, <1>6 DEF EnabledOf
<1> QED
  BY <1>2, <1>5, <1>6 DEF EnabledOf

(* The fields of a client.                                                  *)
LEMMA ClientIs ==
  ASSUME ClientsOK, NEW c \in Clients
  PROVE  /\ clients[c] \in Client
         /\ clients[c].id \in Nat /\ clients[c].names \in Seq(Names) /\ clients[c].seen \in Seen
         /\ clients[c].targets \in SUBSET Nat /\ clients[c].disabled \in SUBSET Nat
BY DEF ClientsOK, Client

(* A transaction goes on, up to its COMMIT.                                 *)
Advances(c) == Disable(c) \/ Lock(c) \/ Write(c)

Onward(c) ==
  /\ UNCHANGED <<table, published, requests, failures, overlapped>>
  /\ Only(c)
  /\ clients[c].at \in {"disable", "locking", "write"}
  /\ clients'[c].at \in {"locking", "write", "commit"}
  /\ clients'[c].id = clients[c].id /\ clients'[c].row = clients[c].row
  /\ clients'[c].names = clients[c].names
  /\ Prepared(c)'
  /\ At(c, "disable") \/ Covered(c) => Covered(c)'
  /\ At(c, "commit")' => Write(c)

(* The rows to disable are rows, and not the one of the request.            *)
LEMMA OthersAre ==
  ASSUME TableOK, NEW c \in Clients
  PROVE  /\ Others(c) \subseteq Rows \ {clients[c].id}
         /\ Rows \subseteq Nat
         /\ \A i \in Others(c) : table[i].worker = clients[c].row.worker
BY RowsOfTable DEF Others, EnabledOf

(* A client that visits rows.                                               *)
LEMMA VisitsAre ==
  ASSUME ClientsOK, NEW c \in Clients, NEW T \in SUBSET Nat, NEW D \in SUBSET Nat,
         Visits(c, T, D)
  PROVE  /\ Only(c)
         /\ clients'[c].id = clients[c].id /\ clients'[c].row = clients[c].row
         /\ clients'[c].names = clients[c].names
         /\ clients'[c].targets = T /\ clients'[c].disabled = D
         /\ clients'[c].at = IF T = {} THEN "write" ELSE "locking"
<1> DEFINE at == IF T = {} THEN "write" ELSE "locking"
           r == [clients[c] EXCEPT !.at = at, !.targets = T, !.disabled = D]
<1>1. clients[c] \in Client
  BY DEF ClientsOK
<1>2. at \in Transacting
  BY DEF Transacting
<1>3. /\ r \in Client /\ r.at = at /\ r.id = clients[c].id /\ r.row = clients[c].row
      /\ r.names = clients[c].names /\ r.targets = T /\ r.disabled = D
  <2> HIDE DEF at
  <2> QED
    BY <1>1, <1>2 DEF Client, AdminSteps
<1>4. Steps(c, r)
  BY DEF Visits
<1>5. r.at \in AdminSteps /\ r.at \in StarterSteps /\ r.at \notin {"publishAll", "publish"}
  BY <1>2, <1>3 DEF AdminSteps, StarterSteps, Transacting
<1>6. Only(c) /\ clients'[c] = r
  <2> HIDE DEF r
  <2> QED
    BY <1>3, <1>4, <1>5, OneSteps
<1> QED
  BY <1>3, <1>6

(* Every step of a transaction before COMMIT is one onward.                 *)
LEMMA Goes ==
  ASSUME TableOK, ClientsOK, NEW c \in Clients, Prepared(c), Advances(c)
  PROVE  Onward(c)
<1>1. Rows' = Rows /\ \A name \in Names : EnabledOf(name)' = EnabledOf(name)
  BY SameTable DEF Advances, Disable, Lock, Write
<1>2. clients[c].row \in Row /\ clients[c].row.worker \in Names
  BY DEF Prepared, Row
<1>3. clients'[c].row = clients[c].row /\ clients'[c].id = clients[c].id => Others(c)' = Others(c)
  BY <1>1, <1>2 DEF Others
<1>4. CASE Disable(c)
  <2>1. Others(c) \in SUBSET Nat /\ {} \in SUBSET Nat
    BY OthersAre
  <2>2. /\ Only(c) /\ clients'[c].id = clients[c].id /\ clients'[c].row = clients[c].row
        /\ clients'[c].names = clients[c].names
        /\ clients'[c].targets = Others(c) /\ clients'[c].disabled = {}
        /\ clients'[c].at = IF Others(c) = {} THEN "write" ELSE "locking"
    BY <1>4, <2>1, VisitsAre DEF Disable
  <2>3. Prepared(c)'
    BY <1>4, <2>2 DEF Prepared, Disable, At
  <2>4. Covered(c)'
    BY <1>3, <2>2 DEF Covered
  <2> QED
    BY <1>4, <2>2, <2>3, <2>4 DEF Onward, Disable, At
<1>5. CASE Lock(c)
  <2>1. PICK i \in clients[c].targets :
          Visits(c, clients[c].targets \ {i}, clients[c].disabled \cup ({i} \cap Others(c)))
    BY <1>5 DEF Lock
  <2> DEFINE T == clients[c].targets \ {i}
             D == clients[c].disabled \cup ({i} \cap Others(c))
  <2>2. T \in SUBSET Nat /\ D \in SUBSET Nat
    BY OthersAre, ClientIs
  <2>3. /\ Only(c) /\ clients'[c].id = clients[c].id /\ clients'[c].row = clients[c].row
        /\ clients'[c].names = clients[c].names
        /\ clients'[c].targets = T /\ clients'[c].disabled = D
        /\ clients'[c].at = IF T = {} THEN "write" ELSE "locking"
    <3> HIDE DEF T, D
    <3>1. Visits(c, T, D)
      BY <2>1 DEF T, D
    <3> QED
      BY <2>2, <3>1, VisitsAre
  <2>4. D \subseteq Rows \ {clients[c].id} /\ \A k \in D : table[k].worker = clients[c].row.worker
    BY OthersAre DEF Prepared
  <2>5. UNCHANGED <<table, published, requests, failures, overlapped>> /\ At(c, "locking")
    BY <1>5 DEF Lock
  <2>6. Prepared(c)'
    <3> HIDE DEF T, D
    <3> QED
      BY <1>1, <2>3, <2>4, <2>5 DEF Prepared, At
  <2>7. Covered(c) => Covered(c)'
    BY <1>3, <2>3 DEF Covered
  <2> HIDE DEF T, D
  <2> QED
    BY <2>3, <2>5, <2>6, <2>7 DEF Onward, At
<1>6. CASE Write(c)
  <2> DEFINE r == [clients[c] EXCEPT !.at = "commit"]
  <2>1. /\ r \in Client /\ r.at = "commit" /\ r.id = clients[c].id /\ r.row = clients[c].row
        /\ r.names = clients[c].names /\ r.targets = clients[c].targets
        /\ r.disabled = clients[c].disabled
    BY ClientIs DEF Client, AdminSteps, Transacting
  <2>2. Steps(c, r) /\ UNCHANGED <<table, published, requests, failures, overlapped>> /\ At(c, "write")
    BY <1>6 DEF Write
  <2> HIDE DEF r
  <2>3. Only(c) /\ clients'[c] = r
    BY <2>1, <2>2, OneSteps DEF AdminSteps, StarterSteps, Transacting
  <2>4. Prepared(c)'
    BY <1>1, <2>1, <2>2, <2>3 DEF Prepared, At
  <2>5. Covered(c) => Covered(c)'
    BY <1>3, <2>1, <2>3 DEF Covered
  <2> QED
    BY <1>6, <2>1, <2>2, <2>3, <2>4, <2>5 DEF Onward, At
<1> QED
  BY <1>4, <1>5, <1>6 DEF Advances

(* A client starts over, or a request ends.                                 *)
LEMMA Rests ==
  ASSUME ClientsOK, NEW c \in Clients, NEW at, Steps(c, Resting(at)),
         c \in Admins => at \in AdminSteps,
         c \in Starters => at \in StarterSteps,
         c = Worker => at \notin {"publishAll", "publish"}
  PROVE  /\ Only(c) /\ clients'[c] = Resting(at)
         /\ clients'[c].at = at /\ clients'[c].names = <<>> /\ clients'[c].seen = <<>>
<1>1. at \in AdminSteps \cup StarterSteps
  BY DifferentClients
<1>2. Resting(at) \in Client /\ Resting(at).at = at /\ Resting(at).names = <<>> /\ Resting(at).seen = <<>>
  BY <1>1, RestingIsClient
<1> QED
  BY <1>2, OneSteps

-----------------------------------------------------------------------------
(* Requests.                                                                *)

(* Sequences of one name, and of two.                                       *)
LEMMA OneNames ==
  ASSUME NEW n \in Names
  PROVE  /\ <<n>> \in Seq(Names) /\ DOMAIN <<n>> = {1} /\ <<n>>[1] = n
         /\ \A m \in Names : <<n, m>> \in Seq(Names) /\ DOMAIN <<n, m>> = {1, 2}
                             /\ <<n, m>>[1] = n /\ <<n, m>>[2] = m
OBVIOUS

(* A request is let in when all else is at rest.                            *)
LEMMA LetIn ==
  ASSUME Clean, NEW a \in Admins, Admit(a), ~overlapped'
  PROVE  /\ a \in Clients /\ At(a, "idle") /\ ~overlapped
         /\ \A c \in Clients \ {a} : ~Busy(c)
BY DifferentClients DEF Admit

(* POST.                                                                    *)
LEMMA PostKeeps ==
  ASSUME Clean, NEW a \in Admins, Post(a), ~overlapped'
  PROVE  Clean' /\ Only(a) /\ clients'[a].at \in Transacting
<1>1. PICK row \in [worker : Names, version : 1..MaxVersion, enabled : BOOLEAN, body : {"custom"}] :
        Steps(a, Opened(NewId, row, <<row.worker>>))
  BY DEF Post
<1>2. row \in Row /\ row.worker \in Names
  BY DefinitionAssumption DEF Row, Bodies
<1> DEFINE names == <<row.worker>>
           r == Opened(NewId, row, names)
<1>3. names \in Seq(Names) /\ DOMAIN names = {1} /\ names[1] = row.worker
  BY <1>2, OneNames
<1> HIDE DEF names
<1>4. /\ r \in Client /\ r.at \in {"disable", "write"} /\ (r.at = "disable" <=> row.enabled)
      /\ r.id = NewId /\ r.row = row /\ r.targets = {} /\ r.disabled = {} /\ r.names = names
  BY <1>2, <1>3, OpenedIsClient DEF NewId
<1> HIDE DEF r
<1>5. Steps(a, r)
  BY <1>1 DEF r, names
<1>6. a \in Clients /\ \A c \in Clients \ {a} : ~Busy(c)
  BY LetIn DEF Post
<1>7. Only(a) /\ clients'[a] = r
  BY <1>4, <1>5, <1>6, OneSteps, DifferentClients DEF Clean, Types, AdminSteps, Transacting
<1>8. UNCHANGED <<table, published, failures>>
  BY DEF Post
<1>9. TableOK' /\ OneEach'
  BY <1>8, SameTable DEF Clean, Types
<1>10. RequestOK(a)'
  <2>1. Prepared(a)'
    BY <1>2, <1>4, <1>7 DEF Prepared
  <2>2. row.worker \in NamesOf(a)'
    BY <1>3, <1>4, <1>7 DEF NamesOf
  <2> QED
    BY <1>4, <1>7, <2>1, <2>2 DEF RequestOK, At, Transacting
<1>11. Clean'
  BY <1>6, <1>7, <1>8, <1>9, <1>10, RequestKeeps DEF Clean, Types
<1> QED
  BY <1>4, <1>7, <1>11 DEF Transacting

(* PUT and DELETE, as they come.                                            *)
LEMMA FindKeeps ==
  ASSUME Clean, NEW a \in Admins, Find(a), ~overlapped'
  PROVE  Clean' /\ Only(a) /\ clients'[a].at \in {"put", "delete"}
<1>1. PICK i \in Rows, step \in {"put", "delete"} :
        Steps(a, [Resting(step) EXCEPT !.id = i, !.before = table[i].worker,
                                       !.names = <<table[i].worker>>])
  BY DEF Find
<1>2. i \in Nat /\ table[i].worker \in Names
  BY RowsOfTable DEF Clean, Types, Row
<1> DEFINE n == table[i].worker
           r == [Resting(step) EXCEPT !.id = i, !.before = n, !.names = <<n>>]
<1>3. <<n>> \in Seq(Names) /\ DOMAIN <<n>> = {1} /\ <<n>>[1] = n
  BY <1>2, OneNames
<1>4. r \in Client /\ r.at = step /\ r.id = i /\ r.before = n /\ r.names = <<n>>
  <2>1. Resting(step) \in Client /\ Resting(step).at = step
    BY RestingIsClient DEF AdminSteps
  <2> HIDE DEF n
  <2> QED
    BY <1>2, <1>3, <2>1 DEF Client, n
<1> HIDE DEF r
<1>5. Steps(a, r)
  BY <1>1 DEF r
<1>6. a \in Clients /\ \A c \in Clients \ {a} : ~Busy(c)
  BY LetIn DEF Find
<1>7. Only(a) /\ clients'[a] = r
  BY <1>4, <1>5, <1>6, OneSteps, DifferentClients DEF Clean, Types, AdminSteps
<1>8. UNCHANGED <<table, published, failures>>
  BY DEF Find
<1>9. TableOK' /\ OneEach' /\ Rows' = Rows
  BY <1>8, SameTable DEF Clean, Types
<1>10. RequestOK(a)'
  <2>1. clients'[a].before \in NamesOf(a)'
    BY <1>3, <1>4, <1>7 DEF NamesOf
  <2> QED
    BY <1>1, <1>4, <1>7, <1>8, <1>9, <2>1 DEF RequestOK, At, Transacting
<1>11. Clean'
  BY <1>6, <1>7, <1>8, <1>9, <1>10, RequestKeeps DEF Clean, Types
<1> QED
  BY <1>4, <1>7, <1>11

(* A request that ends, or goes on to publish, keeps it with the table.     *)
LEMMA EndKeeps ==
  ASSUME Clean, NEW a \in Admins, Busy(a), Only(a), clients'[a].at \in {"idle", "sync", "publish"},
         TableOK', OneEach',
         published' \in [Names -> Bodies \cup {None}], failures' \in Nat
  PROVE  Clean'
<1>1. RequestOK(a)'
  BY DEF RequestOK, Transacting
<1> QED
  BY <1>1, RequestKeeps

(* PUT reads the row and opens its transaction.                             *)
LEMMA PutKeeps ==
  ASSUME Clean, NEW a \in Admins, Put(a)
  PROVE  Clean' /\ Only(a) /\ clients'[a].at \in Transacting \cup {"idle"}
<1> DEFINE i == clients[a].id
           before == clients[a].before
<1>1. At(a, "put") /\ a \in Clients /\ Busy(a)
  BY DifferentClients DEF Put, At, Busy
<1>2. i \in Rows /\ i \in Nat /\ before = table[i].worker /\ before \in NamesOf(a)
      /\ table[i] \in Row /\ before \in Names
  BY <1>1, RowsOfTable DEF Clean, RequestOK, At, Types, Row
<1>3. PICK row \in Changes(table[i]) : Steps(a, Opened(i, row, NamesToSync(before, row)))
  BY <1>2 DEF Put
<1>4. row \in Row /\ row.worker \in Names
  BY <1>2 DEF Changes, Row, Bodies
<1> DEFINE names == NamesToSync(before, row)
           r == Opened(i, row, names)
<1>5. /\ names \in Seq(Names)
      /\ \E k \in DOMAIN names : names[k] = before
      /\ \E k \in DOMAIN names : names[k] = row.worker
  <2>1. CASE row.worker = before
    BY <1>2, <2>1, OneNames DEF NamesToSync
  <2>2. CASE row.worker # before
    BY <1>2, <1>4, <2>2, OneNames DEF NamesToSync
  <2> QED
    BY <2>1, <2>2
<1> HIDE DEF names
<1>6. /\ r \in Client /\ r.at \in {"disable", "write"} /\ (r.at = "disable" <=> row.enabled)
      /\ r.id = i /\ r.row = row /\ r.targets = {} /\ r.disabled = {} /\ r.names = names
  BY <1>2, <1>4, <1>5, OpenedIsClient
<1> HIDE DEF r
<1>7. Steps(a, r) /\ UNCHANGED <<table, published, requests, failures, overlapped>>
  BY <1>3 DEF Put, r, names
<1>8. Only(a) /\ clients'[a] = r
  BY <1>1, <1>6, <1>7, OneSteps, DifferentClients DEF Clean, Types, AdminSteps, Transacting
<1>9. TableOK' /\ OneEach' /\ Rows' = Rows
  BY <1>7, SameTable DEF Clean, Types
<1>10. RequestOK(a)'
  <2>1. Prepared(a)'
    BY <1>4, <1>6, <1>8 DEF Prepared
  <2>2. row.worker \in NamesOf(a)' /\ before \in NamesOf(a)'
    BY <1>5, <1>6, <1>8 DEF NamesOf
  <2>3. clients'[a].id \in Rows' /\ table'[clients'[a].id].worker \in NamesOf(a)'
    BY <1>2, <1>6, <1>7, <1>8, <1>9, <2>2
  <2> QED
    BY <1>6, <1>8, <2>1, <2>2, <2>3 DEF RequestOK, At, Transacting
<1>11. Clean'
  BY <1>1, <1>7, <1>8, <1>9, <1>10, RequestKeeps DEF Clean, Types
<1> QED
  BY <1>6, <1>8, <1>11 DEF Transacting

(* DELETE takes one row away.                                               *)
LEMMA DeleteKeeps ==
  ASSUME Clean, NEW a \in Admins, Delete(a)
  PROVE  /\ Clean' /\ Only(a) /\ Busy(a)
         /\ clients'[a].at = "sync" /\ clients'[a].names = clients[a].names
         /\ \A name \in Names \ NamesOf(a) :
              /\ EnabledOf(name)' = EnabledOf(name)
              /\ \A i \in EnabledOf(name) : table'[i] = table[i]
<1> DEFINE k == clients[a].id
<1>1. At(a, "delete") /\ a \in Clients /\ Busy(a)
  BY DifferentClients DEF Delete, At, Busy
<1>2. k \in Rows /\ table[k].worker \in NamesOf(a) /\ table \in Seq(Row \cup {Gone}) /\ k \in DOMAIN table
  BY <1>1, RowsOfTable DEF Clean, RequestOK, At, Types, TableOK
<1> DEFINE r == [clients[a] EXCEPT !.at = "sync"]
<1>3. r \in Client /\ r.at = "sync" /\ r.names = clients[a].names
  BY <1>1, ClientIs DEF Client, AdminSteps, Clean, Types
<1>4. Steps(a, r) /\ table' = [table EXCEPT ![k] = Gone] /\ UNCHANGED <<published, failures>>
  BY <1>2 DEF Delete
<1> HIDE DEF r
<1>5. Only(a) /\ clients'[a] = r
  BY <1>1, <1>3, <1>4, OneSteps, DifferentClients DEF Clean, Types, AdminSteps
<1>6. Rows' = Rows \ {k} /\ \A i \in Rows' : table'[i] = table[i]
  BY <1>2, <1>4 DEF Rows
<1>7. TableOK'
  <2>1. table' \in Seq(Row \cup {Gone})
    BY <1>2, <1>4
  <2>2. PICK b \in Nat : \A i \in Rows : table[i].version <= b
    BY DEF Clean, Types, TableOK
  <2>3. \A i \in Rows' : table'[i].version <= b
    BY <1>6, <2>2
  <2> QED
    BY <2>1, <2>3 DEF TableOK
<1>8. \A name \in Names : \A i \in EnabledOf(name)' : i \in EnabledOf(name)
  BY <1>6 DEF EnabledOf
<1>9. OneEach'
  BY <1>8 DEF OneEach, Clean
<1>10. ASSUME NEW name \in Names \ NamesOf(a)
       PROVE  /\ EnabledOf(name)' = EnabledOf(name)
              /\ \A i \in EnabledOf(name) : table'[i] = table[i]
  <2>1. k \notin EnabledOf(name)
    BY <1>2, <1>10 DEF EnabledOf
  <2> QED
    BY <1>6, <2>1 DEF EnabledOf
<1>11. Clean'
  BY <1>1, <1>3, <1>4, <1>5, <1>7, <1>9, EndKeeps DEF Clean, Types
<1> QED
  BY <1>1, <1>3, <1>5, <1>10, <1>11

(* Only a transaction or a DELETE waits for another.                        *)
LEMMA WaitingIsBusy ==
  ASSUME NEW c \in Clients, WaitsFor(c) # {}
  PROVE  clients[c].at \in {"locking", "write", "delete"}
BY DEF WaitsFor, At

(* A step that only ends what a client does.                                *)
LEMMA RollsBack ==
  ASSUME NEW c \in Clients, Conflict(c) \/ Deadlock(c)
  PROVE  /\ clients[c].at \in {"locking", "write", "delete"}
         /\ GivesUp(c)
         /\ UNCHANGED <<table, published, requests, failures, overlapped>>
BY WaitingIsBusy DEF Conflict, Deadlock, At

(* The request is refused.                                                  *)
LEMMA RequestGivesUpKeeps ==
  ASSUME Clean, NEW a \in Admins, Conflict(a) \/ Deadlock(a)
  PROVE  Clean' /\ Only(a) /\ clients'[a].at = "idle" /\ Busy(a) /\ clients[a].at # "sync" /\ clients[a].at # "publish"
<1>1. /\ a \in Clients /\ a \notin Starters /\ a # Worker /\ clients[a].at \in {"locking", "write", "delete"}
      /\ GivesUp(a) /\ UNCHANGED <<table, published, requests, failures, overlapped>>
  BY RollsBack, DifferentClients
<1>2. Steps(a, Resting("idle"))
  BY <1>1 DEF GivesUp
<1>3. Only(a) /\ clients'[a].at = "idle"
  BY <1>1, <1>2, Rests DEF Clean, Types, AdminSteps
<1>4. TableOK' /\ OneEach'
  BY <1>1, SameTable DEF Clean, Types
<1>5. Busy(a)
  BY <1>1 DEF Busy
<1> QED
  BY <1>1, <1>3, <1>4, <1>5, EndKeeps DEF Clean, Types

(* The request goes on to its COMMIT.                                       *)
LEMMA RequestGoesKeeps ==
  ASSUME Clean, NEW a \in Admins, Advances(a)
  PROVE  Clean' /\ Onward(a)
<1>1. a \in Clients /\ clients[a].at \in Transacting /\ Busy(a)
  BY DifferentClients DEF Advances, Disable, Lock, Write, At, Transacting, Busy
<1>2. RequestOK(a)
  BY DEF Clean
<1>3. Onward(a)
  BY <1>1, <1>2, Goes DEF Clean, Types, RequestOK
<1>4. TableOK' /\ OneEach' /\ Rows' = Rows
  BY <1>3, SameTable DEF Clean, Types, Onward
<1>5. NamesOf(a)' = NamesOf(a)
  BY <1>3 DEF NamesOf, Onward
<1>6. clients[a].row.enabled => (At(a, "disable") \/ Covered(a))
  BY <1>1, <1>2 DEF RequestOK
<1>7. RequestOK(a)'
  BY <1>1, <1>2, <1>3, <1>4, <1>5, <1>6 DEF RequestOK, Onward, At
<1>8. Clean'
  BY <1>1, <1>3, <1>4, <1>7, RequestKeeps DEF Clean, Types, Onward
<1> QED
  BY <1>3, <1>8

(* And commits: names it does not publish keep what they have.              *)
LEMMA RequestCommitKeeps ==
  ASSUME Clean, NEW a \in Admins, Commit(a)
  PROVE  /\ Clean' /\ Only(a) /\ Busy(a)
         /\ clients'[a].at = "sync" /\ clients'[a].names = clients[a].names
         /\ \A name \in Names \ NamesOf(a) :
              /\ EnabledOf(name)' = EnabledOf(name)
              /\ \A i \in EnabledOf(name) : table'[i] = table[i]
<1>1. a \in Clients /\ a \notin Starters /\ clients[a].at = "commit" /\ Busy(a)
  BY DifferentClients DEF Commit, At, Busy
<1>2. /\ Prepared(a) /\ (clients[a].row.enabled => Covered(a))
      /\ clients[a].row.worker \in NamesOf(a)
      /\ clients[a].id = NewId \/ clients[a].id \in Rows
      /\ clients[a].id \in Rows => table[clients[a].id].worker \in NamesOf(a)
  <2>1. TableOK /\ RequestOK(a) /\ NewId \notin Rows
    BY RowsOfTable DEF Clean, Types
  <2> QED
    BY <1>1, <2>1 DEF RequestOK, Transacting, At
<1>3. PICK j : Committed(a, j)
  BY <1>1, <1>2, CommitWrites DEF Clean, Types
<1>4. OneEach'
  BY <1>1, <1>2, <1>3, CommitEnables DEF Clean, Types
<1>5. ASSUME NEW name \in Names \ NamesOf(a)
      PROVE  /\ EnabledOf(name)' = EnabledOf(name)
             /\ \A i \in EnabledOf(name) : table'[i] = table[i]
  BY <1>1, <1>2, <1>3, <1>5, CommitLeaves DEF Clean, Types
<1> DEFINE r == [Resting("sync") EXCEPT !.names = clients[a].names]
<1>6. r \in Client /\ r.at = "sync" /\ r.names = clients[a].names
  <2>1. Resting("sync") \in Client /\ Resting("sync").at = "sync"
    BY RestingIsClient DEF AdminSteps
  <2> QED
    BY <1>1, <2>1, ClientIs DEF Client, Clean, Types
<1> HIDE DEF r
<1>7. Steps(a, r) /\ UNCHANGED <<published, requests, failures, overlapped>>
  <2>1. Exists(a)
    BY <1>2 DEF Exists
  <2> QED
    BY <1>1, <2>1 DEF Commit, r
<1>8. Only(a) /\ clients'[a] = r
  BY <1>1, <1>6, <1>7, OneSteps, DifferentClients DEF Clean, Types, AdminSteps
<1>9. Clean'
  BY <1>1, <1>3, <1>4, <1>6, <1>7, <1>8, EndKeeps DEF Committed, Clean, Types
<1> QED
  BY <1>1, <1>5, <1>6, <1>8, <1>9

(* The names are the first one and the others.                              *)
LEMMA SequenceOfNames ==
  ASSUME NEW s \in Seq(Names), s # <<>>
  PROVE  /\ Head(s) \in Names /\ Tail(s) \in Seq(Names)
         /\ {s[n] : n \in DOMAIN s} = {Tail(s)[n] : n \in DOMAIN Tail(s)} \cup {Head(s)}
<1>1. Len(s) \in Nat \ {0} /\ DOMAIN s = 1..Len(s) /\ Head(s) = s[1] /\ Head(s) \in Names
  OBVIOUS
<1>2. /\ Tail(s) \in Seq(Names) /\ DOMAIN Tail(s) = 1..(Len(s) - 1)
      /\ \A n \in 1..(Len(s) - 1) : Tail(s)[n] = s[n + 1]
  OBVIOUS
<1>3. ASSUME NEW n \in DOMAIN s
      PROVE  s[n] \in {Tail(s)[m] : m \in DOMAIN Tail(s)} \cup {Head(s)}
  <2>1. CASE n = 1
    BY <1>1, <2>1
  <2>2. CASE n # 1
    <3>1. n - 1 \in 1..(Len(s) - 1) /\ s[n] = Tail(s)[n - 1]
      BY <1>1, <1>2, <2>2
    <3> QED
      BY <1>2, <3>1
  <2> QED
    BY <2>1, <2>2
<1>4. ASSUME NEW n \in DOMAIN Tail(s)
      PROVE  Tail(s)[n] \in {s[m] : m \in DOMAIN s}
  <2>1. n + 1 \in DOMAIN s /\ Tail(s)[n] = s[n + 1]
    BY <1>1, <1>2
  <2> QED
    BY <2>1
<1>5. Head(s) \in {s[m] : m \in DOMAIN s}
  BY <1>1
<1> QED
  BY <1>1, <1>2, <1>3, <1>4, <1>5

(* A request takes up the next name.                                        *)
LEMMA SyncKeeps ==
  ASSUME Clean, NEW a \in Admins, Sync(a)
  PROVE  /\ Clean' /\ Only(a) /\ Busy(a)
         /\ \/ clients[a].names = <<>> /\ clients'[a].at = "idle"
            \/ /\ clients'[a].at = "publish"
               /\ NamesOf(a) = NamesOf(a)' \cup DOMAIN clients'[a].seen
               /\ \A n \in DOMAIN clients'[a].seen : n \in Names /\ clients'[a].seen[n] = Chosen(n)
<1> DEFINE s == clients[a].names
<1>1. a \in Clients /\ a # Worker /\ a \notin Starters /\ Busy(a) /\ s \in Seq(Names) /\ At(a, "sync")
  BY ClientIs, DifferentClients DEF Sync, At, Busy, Clean, Types
<1>2. UNCHANGED <<table, published, requests, failures, overlapped>>
  BY DEF Sync
<1>3. TableOK' /\ OneEach'
  BY <1>2, SameTable DEF Clean, Types
<1>4. CASE s = <<>>
  <2>1. Steps(a, Resting("idle"))
    BY <1>4 DEF Sync
  <2>2. Only(a) /\ clients'[a].at = "idle"
    BY <1>1, <2>1, Rests DEF Clean, Types, AdminSteps
  <2>3. Clean'
    BY <1>1, <1>2, <1>3, <2>2, EndKeeps DEF Clean, Types
  <2> QED
    BY <1>1, <1>4, <2>2, <2>3
<1>5. CASE s # <<>>
  <2> DEFINE h == Head(s)
             seen == [n \in {h} |-> Chosen(n)]
             r == [clients[a] EXCEPT !.at = "publish", !.names = Tail(s), !.seen = seen]
  <2>1. /\ h \in Names /\ Tail(s) \in Seq(Names)
        /\ {s[n] : n \in DOMAIN s} = {Tail(s)[n] : n \in DOMAIN Tail(s)} \cup {h}
    BY <1>1, <1>5, SequenceOfNames
  <2>2. seen \in Seen /\ DOMAIN seen = {h} /\ \A n \in DOMAIN seen : seen[n] = Chosen(n)
    <3>1. Chosen(h) \in Bodies \cup {None}
      BY <2>1, ChosenIsBody DEF Clean, Types
    <3>2. {h} \in SUBSET Names /\ seen \in [{h} -> Bodies \cup {None}]
      BY <2>1, <3>1
    <3> QED
      BY <3>2, IsSeen
  <2>3. Steps(a, r)
    BY <1>5 DEF Sync
  <2> HIDE DEF seen, h
  <2>4. r \in Client /\ r.at = "publish" /\ r.names = Tail(s) /\ r.seen = seen
    BY <1>1, <2>1, <2>2, ClientIs DEF Client, AdminSteps, Clean, Types
  <2> HIDE DEF r
  <2>5. Only(a) /\ clients'[a] = r
    BY <1>1, <2>3, <2>4, OneSteps DEF Clean, Types, AdminSteps
  <2>6. Clean'
    BY <1>1, <1>2, <1>3, <2>4, <2>5, EndKeeps DEF Clean, Types
  <2>7. NamesOf(a) = NamesOf(a)' \cup DOMAIN clients'[a].seen
    BY <2>1, <2>2, <2>4, <2>5 DEF NamesOf
  <2> QED
    BY <1>1, <2>1, <2>2, <2>4, <2>5, <2>6, <2>7
<1> QED
  BY <1>4, <1>5

(* A publication, of a request or of the API when it starts.                *)
Publishes(c) ==
  /\ Only(c)
  /\ clients'[c].names = clients[c].names
  /\ \/ /\ DOMAIN clients[c].seen = {} /\ UNCHANGED published
        /\ clients'[c].at = IF c \in Starters THEN "ready" ELSE "sync"
     \/ \E n \in DOMAIN clients[c].seen :
          /\ published' = [published EXCEPT ![n] = clients[c].seen[n]]
          /\ clients'[c].at = "publish"
          /\ DOMAIN clients'[c].seen = DOMAIN clients[c].seen \ {n}
          /\ \A m \in DOMAIN clients'[c].seen : clients'[c].seen[m] = clients[c].seen[m]

(* What Publish does.                                                       *)
LEMMA PublishDoes ==
  ASSUME Clean, NEW c \in Clients, Publish(c), c \in Starters => clients[c].names = <<>>
  PROVE  /\ Publishes(c) /\ Busy(c) /\ c # Worker
         /\ published' \in [Names -> Bodies \cup {None}]
         /\ UNCHANGED <<table, requests, failures, overlapped>>
<1>1. /\ At(c, "publish") /\ Busy(c) /\ clients[c] \in Client /\ c # Worker
      /\ clients[c].seen \in Seen /\ published \in [Names -> Bodies \cup {None}]
  BY ClientIs DEF Publish, At, Busy, Clean, Types, ClientsOK
<1>2. UNCHANGED <<table, requests, failures, overlapped>>
  BY DEF Publish
<1>3. CASE DOMAIN clients[c].seen = {} /\ c \in Starters
  <2>1. Steps(c, Resting("ready")) /\ UNCHANGED published
    BY <1>3 DEF Publish
  <2>2. Only(c) /\ clients'[c].at = "ready" /\ clients'[c].names = <<>>
    BY <1>1, <1>3, <2>1, Rests, DifferentClients DEF Clean, Types, StarterSteps
  <2> QED
    BY <1>1, <1>2, <1>3, <2>1, <2>2 DEF Publishes
<1>4. CASE DOMAIN clients[c].seen = {} /\ c \notin Starters
  <2> DEFINE r == [clients[c] EXCEPT !.at = "sync"]
  <2>1. Steps(c, r) /\ UNCHANGED published
    BY <1>4 DEF Publish
  <2>2. r \in Client /\ r.at = "sync" /\ r.names = clients[c].names
    BY <1>1 DEF Client, AdminSteps
  <2> HIDE DEF r
  <2>3. Only(c) /\ clients'[c] = r
    BY <1>1, <1>4, <2>1, <2>2, OneSteps DEF Clean, Types, AdminSteps
  <2> QED
    BY <1>1, <1>2, <1>4, <2>1, <2>2, <2>3 DEF Publishes
<1>5. CASE DOMAIN clients[c].seen # {}
  <2>1. PICK n \in DOMAIN clients[c].seen :
          /\ published' = [published EXCEPT ![n] = clients[c].seen[n]]
          /\ Steps(c, [clients[c] EXCEPT !.seen = [m \in DOMAIN @ \ {n} |-> @[m]]])
    BY <1>5 DEF Publish
  <2> DEFINE f == clients[c].seen
             rest == [m \in DOMAIN f \ {n} |-> f[m]]
             r == [clients[c] EXCEPT !.seen = rest]
  <2>2. /\ rest \in Seen /\ DOMAIN rest = DOMAIN f \ {n} /\ \A m \in DOMAIN rest : rest[m] = f[m]
        /\ n \in Names /\ f[n] \in Bodies \cup {None}
    BY <1>1, SeenWithout, SeenIs
  <2>3. Steps(c, r)
    BY <2>1
  <2> HIDE DEF rest
  <2>4. r \in Client /\ r.at = "publish" /\ r.names = clients[c].names /\ r.seen = rest
    BY <1>1, <2>2 DEF Client, At
  <2> HIDE DEF r
  <2>5. Only(c) /\ clients'[c] = r
    BY <1>1, <2>3, <2>4, OneSteps DEF Clean, Types, AdminSteps, StarterSteps
  <2>6. published' \in [Names -> Bodies \cup {None}]
    BY <1>1, <2>1, <2>2
  <2>7. Publishes(c)
    BY <2>1, <2>2, <2>4, <2>5 DEF Publishes
  <2> QED
    BY <1>1, <1>2, <2>6, <2>7
<1> QED
  BY <1>3, <1>4, <1>5

-----------------------------------------------------------------------------
(* Processes that start.                                                    *)

(* A step of a process that leaves it outside of a transaction.             *)
LEMMA StarterMovesKeeps ==
  ASSUME Clean, NEW p \in Starters, Only(p), UNCHANGED <<table, failures>>, Busy(p),
         published' \in [Names -> Bodies \cup {None}],
         clients'[p].at \notin Transacting \cup {"number"},
         clients'[p].names = <<>>
  PROVE  Clean'
<1>1. StarterOK(p)'
  BY DEF StarterOK, At, Transacting
<1>2. ~At(p, "commit")'
  BY DEF At, Transacting
<1> QED
  BY <1>1, <1>2, StarterKeeps

(* A process that has nothing open.                                         *)
LEMMA StarterRests ==
  ASSUME Clean, NEW p \in Starters, Busy(p),
         UNCHANGED <<table, published, requests, failures, overlapped>>,
         NEW at \in {"start", "count", "publishAll", "ready"},
         at = "publishAll" => p = Server,
         Steps(p, Resting(at))
  PROVE  Clean' /\ Only(p) /\ clients'[p].at = at
<1>1. Only(p) /\ clients'[p].at = at /\ clients'[p].names = <<>>
  BY Rests, DifferentClients DEF Clean, Types, StarterSteps
<1>2. Clean'
  BY <1>1, StarterMovesKeeps DEF Clean, Types, Transacting
<1> QED
  BY <1>1, <1>2

(* Where the processes go that find a definition.                           *)
LEMMA EnsuredIs ==
  ASSUME NEW p \in Starters
  PROVE  /\ p = Server => Ensured(p) = Resting("publishAll")
         /\ p = Worker => Ensured(p) = Resting("ready")
         /\ p = Server \/ p = Worker
BY DifferentClients DEF Ensured, Starters

(* Where a process goes that finds the definition.                          *)
After(p) == IF p = Server THEN "publishAll" ELSE "ready"

(* The definition of this build is a row.                                   *)
LEMMA BuiltInIsRow ==
  ASSUME NEW v \in Nat
  PROVE  /\ BuiltIn(v) \in Row /\ BuiltIn(v).version = v /\ BuiltIn(v).enabled
         /\ BuiltIn(v).worker = WorkerName /\ BuiltIn(v).body = "builtin"
BY DefinitionAssumption DEF BuiltIn, Row, Bodies

(* A process looks for the enabled definition.                              *)
LEMMA StartKeeps ==
  ASSUME Clean, NEW p \in Starters, Start(p)
  PROVE  /\ Clean' /\ Only(p) /\ Busy(p)
         /\ \/ clients'[p].at = "count" /\ Chosen(WorkerName) = None
            \/ clients'[p].at = "number" /\ Chosen(WorkerName) = "old"
            \/ clients'[p].at = After(p) /\ Chosen(WorkerName) \notin {None, "old"}
<1>1. p \in Clients /\ Busy(p) /\ At(p, "start") /\ WorkerName \in Names
  BY DifferentClients, DefinitionAssumption DEF Start, At, Busy
<1>2. UNCHANGED <<table, published, requests, failures, overlapped>>
  BY DEF Start
<1>3. CASE Chosen(WorkerName) = None
  <2>1. Chosen(WorkerName) # "old"
    BY <1>3, DefinitionAssumption DEF Bodies
  <2>2. Steps(p, Resting("count"))
    BY <1>3, <2>1 DEF Start
  <2> QED
    BY <1>1, <1>2, <1>3, <2>2, StarterRests
<1>4. CASE Chosen(WorkerName) = "old"
  <2> DEFINE S == {table[i].version : i \in EnabledOf(WorkerName)}
             v == Highest(WorkerName)
             r == [Resting("number") EXCEPT !.row = BuiltIn(v)]
  <2>1. EnabledOf(WorkerName) # {}
    BY <1>1, <1>4, ChosenIsOnly, DefinitionAssumption DEF Clean, Types, Bodies
  <2>2. S # {} /\ S \subseteq Versions
    BY <2>1 DEF EnabledOf, Versions
  <2>3. Versions \in SUBSET Nat /\ \E b \in Nat : \A n \in Versions : n <= b
    BY VersionsAreNumbers DEF Clean, Types
  <2>4. v \in Versions /\ v \in Nat
    <3>1. PICK b \in Nat : \A n \in S : n <= b
      BY <2>2, <2>3
    <3>2. S \in SUBSET Nat /\ v = Max(S)
      BY <2>2, <2>3 DEF Highest
    <3> HIDE DEF S, v
    <3>3. Max(S) \in S
      BY <2>2, <3>1, <3>2, MaxOf
    <3> QED
      BY <2>2, <2>3, <3>2, <3>3
  <2>5. Steps(p, r)
    <3>1. Chosen(WorkerName) # None
      BY <1>4, DefinitionAssumption DEF Bodies
    <3> QED
      BY <1>4, <3>1 DEF Start
  <2> HIDE DEF v
  <2>6. BuiltIn(v) \in Row /\ BuiltIn(v).version = v
    BY <2>4, BuiltInIsRow
  <2>7. r \in Client /\ r.at = "number" /\ r.row = BuiltIn(v) /\ r.names = <<>>
    <3>1. /\ Resting("number") \in Client /\ Resting("number").at = "number"
          /\ Resting("number").names = <<>>
      BY RestingIsClient DEF StarterSteps
    <3> QED
      BY <2>6, <3>1 DEF Client
  <2> HIDE DEF r
  <2>8. Only(p) /\ clients'[p] = r
    BY <1>1, <2>5, <2>7, OneSteps, DifferentClients DEF Clean, Types, StarterSteps
  <2>9. StarterOK(p)'
    <3>1. Versions' = Versions
      BY <1>2, SameTable
    <3> QED
      BY <2>4, <2>6, <2>7, <2>8, <3>1 DEF StarterOK, At, Transacting
  <2>10. Clean'
    BY <1>1, <1>2, <2>7, <2>8, <2>9, StarterKeeps DEF Clean, Types, At
  <2> QED
    BY <1>1, <1>4, <2>7, <2>8, <2>10
<1>5. CASE Chosen(WorkerName) \notin {None, "old"}
  <2>1. Steps(p, Ensured(p))
    BY <1>5 DEF Start
  <2>2. Steps(p, Resting(After(p))) /\ After(p) \in {"publishAll", "ready"}
        /\ (After(p) = "publishAll" => p = Server)
    BY <2>1, EnsuredIs, DifferentClients DEF After
  <2> QED
    BY <1>1, <1>2, <1>5, <2>2, StarterRests
<1> QED
  BY <1>3, <1>4, <1>5

(* A process opens a transaction for a version.                             *)
LEMMA OpensKeeps ==
  ASSUME Clean, NEW p \in Starters, Busy(p), NEW v \in Nat, Fresh(v),
         UNCHANGED <<table, published, requests, failures, overlapped>>,
         Steps(p, Opened(NewId, BuiltIn(v), <<>>))
  PROVE  Clean' /\ Only(p) /\ clients'[p].at = "disable"
<1> DEFINE none == <<>>
           row == BuiltIn(v)
           r == Opened(NewId, row, none)
<1>1. /\ row \in Row /\ row.version = v /\ row.enabled
      /\ none \in Seq(Names) /\ NewId \in Nat /\ p \in Clients
  BY BuiltInIsRow, EmptyIsSeen, DifferentClients DEF NewId
<1> HIDE DEF none, row
<1>2. /\ r \in Client /\ r.at = "disable" /\ r.id = NewId /\ r.row = BuiltIn(v)
      /\ r.targets = {} /\ r.disabled = {} /\ r.names = none
  BY <1>1, OpenedIsClient DEF row
<1> HIDE DEF r
<1>3. Steps(p, r)
  BY DEF r, none, row
<1>4. Only(p) /\ clients'[p] = r
  BY <1>1, <1>2, <1>3, OneSteps, DifferentClients DEF Clean, Types, StarterSteps, Transacting
<1>5. Versions' = Versions
  BY SameTable
<1>6. Fresh(v)'
  BY <1>5 DEF Fresh
<1>7. Prepared(p)'
  BY <1>1, <1>2, <1>4 DEF Prepared, row
<1>8. StarterOK(p)'
  BY <1>1, <1>2, <1>4, <1>6, <1>7 DEF StarterOK, At, none, row
<1>9. Clean'
  BY <1>2, <1>4, <1>8, StarterKeeps DEF Clean, Types, At
<1> QED
  BY <1>2, <1>4, <1>9

(* There is none: are there any?                                            *)
LEMMA CountKeeps ==
  ASSUME Clean, NEW p \in Starters, Count(p)
  PROVE  /\ Clean' /\ Only(p) /\ Busy(p)
         /\ \/ clients'[p].at = "disable" /\ Versions = {}
            \/ clients'[p].at = After(p) /\ Versions # {}
<1>1. Busy(p) /\ UNCHANGED <<table, published, requests, failures, overlapped>>
  BY DEF Count, At, Busy
<1>2. CASE Versions = {}
  <2>1. Steps(p, Opened(NewId, BuiltIn(1), <<>>))
    BY <1>2 DEF Count
  <2>2. Fresh(1)
    BY <1>2 DEF Fresh
  <2> QED
    BY <1>1, <1>2, <2>1, <2>2, OpensKeeps
<1>3. CASE Versions # {}
  <2>1. Steps(p, Ensured(p))
    BY <1>3 DEF Count
  <2>2. Steps(p, Resting(After(p))) /\ After(p) \in {"publishAll", "ready"}
        /\ (After(p) = "publishAll" => p = Server)
    BY <2>1, EnsuredIs, DifferentClients DEF After
  <2> QED
    BY <1>1, <1>3, <2>2, StarterRests
<1> QED
  BY <1>2, <1>3

(* An old one: which version comes next?                                    *)
LEMMA NumberKeeps ==
  ASSUME Clean, NEW p \in Starters, Number(p)
  PROVE  Clean' /\ Only(p) /\ Busy(p) /\ clients'[p].at = "disable"
<1>1. /\ Busy(p) /\ At(p, "number")
      /\ UNCHANGED <<table, published, requests, failures, overlapped>>
  BY DEF Number, At, Busy
<1> DEFINE S == {clients[p].row.version} \cup Versions
           v == Max(S) + 1
<1>2. Steps(p, Opened(NewId, BuiltIn(v), <<>>))
  BY DEF Number
<1>3. S = Versions /\ S # {}
  BY <1>1 DEF Clean, StarterOK
<1>4. S \in SUBSET Nat /\ \E b \in Nat : \A n \in S : n <= b
  BY <1>3, VersionsAreNumbers DEF Clean, Types
<1>5. Max(S) \in S /\ \A n \in S : n <= Max(S)
  <2> HIDE DEF S
  <2> QED
    BY <1>3, <1>4, MaxOf
<1>6. v \in Nat /\ v - 1 = Max(S) /\ \A n \in S : n < v
  <2> HIDE DEF S
  <2>1. Max(S) \in Nat /\ \A n \in S : n \in Nat
    BY <1>4, <1>5
  <2> QED
    BY <1>5, <2>1
<1>7. Fresh(v)
  BY <1>3, <1>5, <1>6 DEF Fresh
<1> HIDE DEF v
<1> QED
  BY <1>1, <1>2, <1>6, <1>7, OpensKeeps

(* The other process was first.                                             *)
LEMMA StarterGivesUpKeeps ==
  ASSUME Clean, NEW p \in Starters, Conflict(p) \/ Deadlock(p)
  PROVE  /\ Clean' /\ Only(p) /\ Busy(p) /\ clients[p].at \in Transacting
         /\ clients'[p].at = "start"
<1>1. /\ p \in Clients /\ clients[p].at \in {"locking", "write", "delete"}
      /\ GivesUp(p) /\ UNCHANGED <<table, published, requests, failures, overlapped>>
  BY RollsBack, DifferentClients
<1>2. Steps(p, Resting("start"))
  BY <1>1 DEF GivesUp
<1>3. Busy(p) /\ clients[p].at \in Transacting
  BY <1>1, DifferentClients DEF Busy, Clean, Types, ClientsOK, StarterSteps, Transacting
<1> QED
  BY <1>1, <1>2, <1>3, StarterRests

(* There is but one next version.                                           *)
LEMMA OneFresh ==
  ASSUME NEW u \in Nat, NEW v \in Nat, Fresh(u), Fresh(v), Versions \in SUBSET Nat
  PROVE  u = v
<1>1. \A w \in Versions : w < u /\ w < v
  BY DEF Fresh
<1>2. CASE u = 1 /\ v = 1
  BY <1>2
<1>3. CASE u # 1 /\ v = 1
  <2>1. u - 1 \in Versions
    BY <1>3 DEF Fresh
  <2>2. u - 1 \in Nat /\ u - 1 < 1
    BY <1>1, <1>3, <2>1
  <2> QED
    BY <1>3, <2>2
<1>4. CASE u = 1 /\ v # 1
  <2>1. v - 1 \in Versions
    BY <1>4 DEF Fresh
  <2>2. v - 1 \in Nat /\ v - 1 < 1
    BY <1>1, <1>4, <2>1
  <2> QED
    BY <1>4, <2>2
<1>5. CASE u # 1 /\ v # 1
  <2>1. u - 1 \in Versions /\ v - 1 \in Versions
    BY <1>5 DEF Fresh
  <2>2. u - 1 < v /\ v - 1 < u
    BY <1>1, <2>1
  <2> QED
    BY <2>2
<1> QED
  BY <1>2, <1>3, <1>4, <1>5

(* A process goes on to its COMMIT; no two get there.                       *)
LEMMA StarterGoesKeeps ==
  ASSUME Clean, NEW p \in Starters, Advances(p)
  PROVE  Clean' /\ Onward(p) /\ Busy(p)
<1> DEFINE v == clients[p].row.version
<1>1. p \in Clients /\ clients[p].at \in Transacting /\ Busy(p)
  BY DifferentClients DEF Advances, Disable, Lock, Write, At, Transacting, Busy
<1>2. StarterOK(p) /\ TableOK /\ ClientsOK
  BY DEF Clean, Types
<1>3. Onward(p)
  BY <1>1, <1>2, Goes DEF StarterOK
<1>4. Rows' = Rows /\ Versions' = Versions
  BY <1>3, SameTable DEF Onward
<1>5. ASSUME At(p, "commit")'
      PROVE  Fresh(v) /\ \A q \in Starters \ {p} : ~At(q, "commit")
  <2>1. Write(p)
    BY <1>3, <1>5 DEF Onward
  <2>2. At(p, "write") /\ WaitsFor(p) = {} /\ ~Duplicate(p)
    BY <2>1 DEF Write
  <2>3. clients[p].id = NewId /\ Exists(p) /\ clients[p].row \in Row
        /\ clients[p].row.worker = WorkerName
    BY <1>1, <1>2, DefinitionAssumption DEF StarterOK, Exists, Prepared, BuiltIn
  <2>4. v \notin Versions
    <3> SUFFICES ASSUME NEW i \in Rows, table[i].worker = WorkerName, table[i].version = v
                 PROVE  FALSE
      BY DEF Versions
    <3>1. i # clients[p].id
      BY <1>2, <2>3, RowsOfTable
    <3>2. Key(table[i]) = Key(clients[p].row)
      BY <2>3 DEF Key
    <3> QED
      BY <2>2, <2>3, <3>1, <3>2 DEF Duplicate
  <2>5. Fresh(v)
    BY <1>1, <1>2, <2>4 DEF StarterOK
  <2>6. WaitsForKey(p) = {}
    BY <2>2, <2>3 DEF WaitsFor, At
  <2>7. ASSUME NEW q \in Starters \ {p}, At(q, "commit")
        PROVE  FALSE
    <3> DEFINE u == clients[q].row.version
    <3>1. q \in Clients /\ StarterOK(q)
      BY DifferentClients DEF Clean
    <3>2. Fresh(u) /\ clients[q].id = NewId /\ clients[q].row = BuiltIn(u) /\ clients[q].row \in Row
      BY <2>7, <3>1 DEF StarterOK, At, Transacting, Prepared
    <3>3. u = v
      <4>1. u \in Nat /\ v \in Nat /\ Versions \in SUBSET Nat
        BY <1>2, <2>3, <3>2, VersionsAreNumbers DEF Row
      <4> HIDE DEF u, v
      <4> QED
        BY <2>5, <3>2, <4>1, OneFresh
    <3>4. Key(clients[q].row) = Key(clients[p].row)
      BY <2>3, <3>2, <3>3 DEF Key, BuiltIn
    <3>5. Exists(q)
      BY <3>2 DEF Exists
    <3>6. q \in WaitsForKey(p)
      BY <2>7, <3>1, <3>4, <3>5 DEF WaitsForKey
    <3> QED
      BY <2>6, <3>6
  <2> QED
    BY <2>5, <2>7
<1>6. StarterOK(p)'
  <2>1. clients'[p].row = clients[p].row /\ clients'[p].id = clients[p].id
        /\ clients'[p].names = clients[p].names
        /\ clients'[p].at \in {"locking", "write", "commit"} /\ Prepared(p)'
    BY <1>3 DEF Onward
  <2>2. \A u : Fresh(u)' <=> Fresh(u)
    BY <1>4 DEF Fresh
  <2>3. Fresh(v) => Covered(p)'
    BY <1>1, <1>2, <1>3 DEF StarterOK, Onward
  <2>4. Fresh(v) \/ v \in Versions
    BY <1>1, <1>2 DEF StarterOK
  <2>5. clients[p].id = NewId /\ clients[p].row = BuiltIn(v) /\ clients[p].names = <<>>
    BY <1>1, <1>2 DEF StarterOK
  <2>6. At(p, "commit")' => Fresh(v)
    BY <1>5
  <2>7. clients'[p].row.version = v
    BY <2>1
  <2>8. Fresh(clients[p].row.version)' <=> Fresh(v)
    BY <2>2, <2>7 DEF Fresh
  <2> QED
    BY <1>4, <2>1, <2>3, <2>4, <2>5, <2>6, <2>8 DEF StarterOK, At
<1>7. Clean'
  BY <1>1, <1>3, <1>5, <1>6, StarterKeeps DEF Clean, Types, Onward
<1> QED
  BY <1>1, <1>3, <1>7

(* The first of two processes to commit gets the version; the version of    *)
(* the other one is then taken.                                             *)
LEMMA StarterCommitKeeps ==
  ASSUME Clean, NEW p \in Starters, Commit(p)
  PROVE  /\ Clean' /\ Only(p) /\ Busy(p) /\ clients[p].at \in Transacting
         /\ clients'[p].at = After(p)
         /\ Chosen(WorkerName)' = "builtin"
         /\ Versions' # {}
         /\ EnabledOf(WorkerName)' # {}
         /\ \A i \in Rows' : table'[i].body = "builtin" \/ (i \in Rows /\ table'[i].body = table[i].body
                                                             /\ table'[i].worker = table[i].worker)
         /\ \A name \in Names \ {WorkerName} :
              /\ EnabledOf(name)' = EnabledOf(name)
              /\ \A i \in EnabledOf(name) : table'[i] = table[i]
<1> DEFINE v == clients[p].row.version
<1>1. p \in Clients /\ clients[p].at = "commit" /\ Busy(p) /\ clients[p].at \in Transacting
  BY DifferentClients DEF Commit, At, Busy, Transacting
<1>2. StarterOK(p) /\ TableOK /\ ClientsOK /\ OneEach /\ WorkerName \in Names
  BY DefinitionAssumption DEF Clean, Types
<1>3. /\ Prepared(p) /\ clients[p].id = NewId /\ clients[p].row = BuiltIn(v)
      /\ Fresh(v) /\ Covered(p)
  BY <1>1, <1>2 DEF StarterOK, At
<1>4. /\ clients[p].row.enabled /\ clients[p].row.worker = WorkerName
      /\ clients[p].row.body = "builtin" /\ v \in Nat
  BY <1>3 DEF BuiltIn, Prepared, Row
<1>5. PICK j : Committed(p, j)
  BY <1>1, <1>2, <1>3, CommitWrites
<1>6. TableOK' /\ Rows' = Rows \cup {j} /\ table'[j] = clients[p].row
  BY <1>5 DEF Committed
<1>7. OneEach' /\ EnabledOf(WorkerName)' = {j}
  BY <1>1, <1>2, <1>3, <1>4, <1>5, CommitEnables
<1>8. Chosen(WorkerName)' = "builtin"
  BY <1>2, <1>4, <1>6, <1>7, NextChosenIsOnly
<1>9. \A name \in Names \ {WorkerName} :
        /\ EnabledOf(name)' = EnabledOf(name)
        /\ \A i \in EnabledOf(name) : table'[i] = table[i]
  BY <1>1, <1>2, <1>3, <1>4, <1>5, CommitLeaves, RowsOfTable
<1>10. j \notin Rows
  BY <1>2, <1>3, <1>5, RowsOfTable DEF Committed
<1>11. \A i \in Rows : /\ table'[i].worker = table[i].worker /\ table'[i].version = table[i].version
                       /\ table'[i].body = table[i].body
  BY <1>2, <1>5, <1>10, RowsOfTable DEF Committed, Row
<1>12. \A i \in Rows' : table'[i].body = "builtin" \/ (i \in Rows /\ table'[i].body = table[i].body
                                                        /\ table'[i].worker = table[i].worker)
  BY <1>4, <1>6, <1>11
<1>13. Versions' = Versions \cup {v}
  <2>1. v \in Versions'
    BY <1>4, <1>6 DEF Versions
  <2>2. \A u \in Versions : u \in Versions'
    BY <1>6, <1>11 DEF Versions
  <2>3. ASSUME NEW i \in Rows', table'[i].worker = WorkerName
        PROVE  table'[i].version \in Versions \cup {v}
    BY <1>4, <1>6, <1>11, <2>3 DEF Versions
  <2>4. \A u \in Versions' : u \in Versions \cup {v}
    BY <2>3 DEF Versions
  <2> QED
    BY <2>1, <2>2, <2>4
<1>14. Steps(p, Resting(After(p))) /\ UNCHANGED <<published, requests, failures, overlapped>>
  <2>1. Steps(p, Ensured(p)) /\ UNCHANGED <<published, requests, failures, overlapped>>
    BY <1>3 DEF Commit, Exists
  <2>2. Ensured(p) = Resting(After(p))
    BY EnsuredIs, DifferentClients DEF After
  <2> QED
    BY <2>1, <2>2
<1>15. Only(p) /\ clients'[p].at = After(p) /\ clients'[p].names = <<>>
  BY <1>1, <1>2, <1>14, Rests, DifferentClients DEF StarterSteps, After
<1>16. \A a \in Admins : clients'[a] = clients[a] /\ clients[a].at = "idle"
  BY <1>1, <1>15, NoRequestBeside, DifferentClients DEF Only
<1>17. \A q \in Starters \ {p} : clients'[q] = clients[q]
  BY <1>15, DifferentClients DEF Only
<1>18. Types'
  BY <1>6, <1>14, <1>15 DEF Types, Only, Clean
<1>19. Alone'
  BY <1>16 DEF Alone, Busy
<1>20. OneCommits'
  BY <1>15, <1>17 DEF OneCommits, At, After, Clean
<1>21. \A a \in Admins : RequestOK(a)'
  BY <1>16 DEF RequestOK, Transacting
<1>22. StarterOK(p)'
  BY <1>15 DEF StarterOK, After, At, Transacting
<1>23. ASSUME NEW q \in Starters, q # p
       PROVE  StarterOK(q)'
  <2> DEFINE u == clients[q].row.version
  <2>1. StarterOK(q) /\ clients'[q] = clients[q]
    BY <1>17, <1>23 DEF Clean
  <2>2. clients[q].at # "commit"
    BY <1>1, <1>23 DEF Clean, OneCommits, At
  <2>3. At(q, "number") => u \in Versions'
    BY <1>13, <2>1 DEF StarterOK
  <2>4. CASE clients[q].at \in Transacting
    <3>1. /\ Prepared(q) /\ clients[q].id = NewId /\ clients[q].row = BuiltIn(u)
          /\ Fresh(u) \/ u \in Versions
      BY <2>1, <2>4 DEF StarterOK
    <3>2. u \in Nat /\ Versions \in SUBSET Nat
      BY <1>2, <3>1, VersionsAreNumbers DEF Prepared, Row
    <3>3. u \in Versions'
      <4> HIDE DEF u, v
      <4> QED
        BY <1>3, <1>4, <1>13, <3>1, <3>2, OneFresh
    <3>4. ~Fresh(clients[q].row.version)'
      <4>1. clients'[q].row.version = u /\ ~(u < u)
        BY <2>1, <3>2
      <4> QED
        BY <3>3, <4>1 DEF Fresh
    <3>5. Prepared(q)'
      <4>1. \A i \in clients[q].disabled : i \in Rows /\ table'[i].worker = table[i].worker
        BY <1>11, <3>1 DEF Prepared
      <4> QED
        BY <1>6, <2>1, <3>1, <4>1 DEF Prepared
    <3>6. ~At(q, "commit")' /\ ~At(q, "number")'
      BY <2>1, <2>2, <2>4 DEF At, Transacting
    <3>7. clients[q].names = <<>>
      BY <2>1 DEF StarterOK
    <3> QED
      BY <2>1, <3>1, <3>3, <3>4, <3>5, <3>6, <3>7 DEF StarterOK
  <2>5. CASE clients[q].at \notin Transacting
    BY <2>1, <2>3, <2>5 DEF StarterOK, At, Transacting
  <2> QED
    BY <2>4, <2>5
<1>24. Clean'
  BY <1>7, <1>18, <1>19, <1>20, <1>21, <1>22, <1>23 DEF Clean
<1> QED
  BY <1>1, <1>7, <1>8, <1>9, <1>12, <1>13, <1>15, <1>24

(* The API reads what it publishes when it starts.                          *)
LEMMA PublishAllKeeps ==
  ASSUME Clean, NEW c \in Clients, PublishAll(c)
  PROVE  /\ Clean' /\ Only(c) /\ Busy(c) /\ c = Server /\ At(c, "publishAll")
         /\ clients'[c].at = "publish" /\ clients'[c].names = <<>>
         /\ DOMAIN clients'[c].seen = {n \in Names : EnabledOf(n) # {}}
         /\ \A n \in DOMAIN clients'[c].seen : clients'[c].seen[n] = Chosen(n)
         /\ UNCHANGED <<table, published, requests, failures, overlapped>>
<1> DEFINE N == {n \in Names : EnabledOf(n) # {}}
           seen == [n \in N |-> Chosen(n)]
           r == [clients[c] EXCEPT !.at = "publish", !.seen = seen]
<1>1. c = Server /\ c \in Starters /\ c # Worker /\ At(c, "publishAll") /\ Busy(c) /\ Steps(c, r)
      /\ UNCHANGED <<table, published, requests, failures, overlapped>>
  BY DifferentClients DEF PublishAll, Busy, At
<1>2. seen \in Seen /\ DOMAIN seen = N /\ \A n \in N : seen[n] = Chosen(n)
  <2>1. \A n \in N : Chosen(n) \in Bodies \cup {None}
    BY ChosenIsBody DEF Clean, Types
  <2>2. N \in SUBSET Names /\ seen \in [N -> Bodies \cup {None}]
    BY <2>1
  <2> HIDE DEF N
  <2> QED
    BY <2>2, IsSeen
<1>3. clients[c] \in Client /\ clients[c].names = <<>>
  BY <1>1, ClientIs DEF Clean, Types, StarterOK
<1> HIDE DEF seen
<1>4. r \in Client /\ r.at = "publish" /\ r.names = <<>> /\ r.seen = seen
  BY <1>2, <1>3 DEF Client, StarterSteps
<1> HIDE DEF r
<1>5. Only(c) /\ clients'[c] = r
  BY <1>1, <1>4, OneSteps, DifferentClients DEF Clean, Types, StarterSteps
<1>6. Clean'
  BY <1>1, <1>4, <1>5, StarterMovesKeeps DEF Clean, Types, Transacting
<1> QED
  BY <1>1, <1>2, <1>4, <1>5, <1>6

(* And publishes it.                                                        *)
LEMMA PublishKeeps ==
  ASSUME Clean, NEW c \in Clients, Publish(c)
  PROVE  /\ Clean' /\ Publishes(c) /\ Busy(c) /\ c # Worker
         /\ UNCHANGED <<table, requests, failures, overlapped>>
<1>1. c \in Starters => clients[c].names = <<>>
  BY DEF Clean, StarterOK
<1>2. /\ Publishes(c) /\ Busy(c) /\ c # Worker
      /\ published' \in [Names -> Bodies \cup {None}]
      /\ UNCHANGED <<table, requests, failures, overlapped>>
  BY <1>1, PublishDoes
<1>3. Only(c) /\ clients'[c].names = clients[c].names /\ clients'[c].at \in {"ready", "sync", "publish"}
  BY <1>2 DEF Publishes
<1>4. CASE c \in Admins
  <2>1. clients'[c].at \in {"sync", "publish"}
    BY <1>2, <1>4, DifferentClients DEF Publishes
  <2>2. TableOK' /\ OneEach' /\ failures' \in Nat
    BY <1>2, SameTable DEF Clean, Types
  <2> QED
    BY <1>2, <1>3, <1>4, <2>1, <2>2, EndKeeps
<1>5. CASE c \in Starters
  BY <1>1, <1>2, <1>3, <1>5, StarterMovesKeeps DEF Transacting
<1> QED
  BY <1>2, <1>4, <1>5, DifferentClients

(* Failures and restarts lose only what was under way.                      *)
LEMMA FailsKeeps ==
  ASSUME Clean, NEW a \in Admins, Fails(a)
  PROVE  Clean'
<1>1. a \in Clients /\ a \notin Starters /\ a # Worker /\ Busy(a) /\ Steps(a, Resting("idle"))
      /\ UNCHANGED <<table, published>> /\ failures' \in Nat
  BY DifferentClients DEF Fails, Clean, Types
<1>2. Only(a) /\ clients'[a].at = "idle"
  BY <1>1, Rests DEF Clean, Types, AdminSteps
<1>3. TableOK' /\ OneEach'
  BY <1>1, SameTable DEF Clean, Types
<1> QED
  BY <1>1, <1>2, <1>3, EndKeeps DEF Clean, Types

(* The process that ends leaves nothing open.                               *)
LEMMA RestartKeeps ==
  ASSUME Clean, NEW p \in Starters, Restart(p), ~overlapped'
  PROVE  Clean'
<1>1. UNCHANGED <<table, published>> /\ failures' \in Nat
  BY DEF Restart, Clean, Types
<1>2. /\ DOMAIN clients' = Clients
      /\ \A c \in Clients : clients'[c] = CASE c = p -> Resting("start")
                                            [] p = Server /\ c \in Admins -> Resting("idle")
                                            [] OTHER -> clients[c]
  BY DEF Restart
<1>3. /\ clients'[p] = Resting("start") /\ p \in Clients
      /\ \A q \in Starters \ {p} : clients'[q] = clients[q]
      /\ \A a \in Admins : clients'[a] = IF p = Server THEN Resting("idle") ELSE clients[a]
  BY <1>2, DifferentClients
<1>4. /\ Resting("start") \in Client /\ Resting("start").at = "start" /\ Resting("start").names = <<>>
      /\ Resting("idle") \in Client /\ Resting("idle").at = "idle"
  BY RestingIsClient DEF AdminSteps, StarterSteps
<1>5. \A a \in Admins : clients'[a].at = "idle" /\ clients'[a] \in Client
  <2> SUFFICES ASSUME NEW a \in Admins
               PROVE  clients'[a].at = "idle" /\ clients'[a] \in Client
    OBVIOUS
  <2>1. CASE p = Server
    BY <1>3, <1>4, <2>1
  <2>2. CASE p # Server
    <3>1. p = Worker /\ a \in Clients
      BY <2>2, DifferentClients DEF Starters
    <3>2. ~Busy(a)
      BY <3>1 DEF Restart
    <3>3. clients[a] \in Client /\ clients[a].at \in AdminSteps
      BY <3>1 DEF Clean, Types, ClientsOK
    <3> QED
      BY <1>3, <2>2, <3>2, <3>3 DEF Busy, AdminSteps, Transacting
  <2> QED
    BY <2>1, <2>2
<1>6. ClientsOK'
  <2>1. \A c \in Clients : clients'[c] \in Client
    BY <1>3, <1>4, <1>5, DifferentClients DEF Clean, Types, ClientsOK
  <2>2. clients' = [c \in Clients |-> clients'[c]]
    BY DEF Restart
  <2>3. clients' \in [Clients -> Client]
    BY <2>1, <2>2
  <2>4. \A q \in Starters : clients'[q].at \in StarterSteps /\ (clients'[q] = clients[q] \/ clients'[q].at = "start")
    BY <1>3, <1>4 DEF Clean, Types, ClientsOK, StarterSteps
  <2>5. ~At(Worker, "publishAll")' /\ ~At(Worker, "publish")'
    BY <2>4, DifferentClients DEF At, Clean, Types, ClientsOK
  <2> QED
    BY <1>5, <2>3, <2>4, <2>5 DEF ClientsOK, AdminSteps
<1>7. Types' /\ OneEach'
  BY <1>1, <1>6, SameTable DEF Clean, Types
<1>8. Alone'
  BY <1>5 DEF Alone, Busy
<1>9. OneCommits'
  BY <1>3, <1>4 DEF OneCommits, At, Clean
<1>10. \A a \in Admins : RequestOK(a)'
  BY <1>5 DEF RequestOK, Transacting
<1>11. StarterOK(p)'
  BY <1>3, <1>4 DEF StarterOK, At, Transacting
<1>12. \A q \in Starters : StarterOK(q)'
  <2> SUFFICES ASSUME NEW q \in Starters, q # p
               PROVE  StarterOK(q)'
    BY <1>11
  <2>1. StarterOK(q) /\ (clients[q].row \in Row => clients[q].row.worker \in Names)
    BY DEF Clean, Row
  <2> QED
    BY <1>1, <1>3, <2>1, SameStarter
<1> QED
  BY <1>7, <1>8, <1>9, <1>10, <1>12 DEF Clean

-----------------------------------------------------------------------------
(* One enabled definition.                                                  *)

(* At the start nobody does anything yet.                                   *)
LEMMA InitClean ==
  ASSUME Init
  PROVE  Clean
<1>1. /\ table \in Seq(Row \cup {Gone})
      /\ \A i \in DOMAIN table : table[i].version = 1
      /\ \A i \in DOMAIN table : table[i].worker = WorkerName => table[i].body # "custom"
      /\ \A i, k \in DOMAIN table : table[i].worker = table[k].worker => i = k
  <2>1. CASE table = <<>>
    BY <2>1
  <2>2. CASE \E e \in BOOLEAN :
               table = <<[worker |-> WorkerName, version |-> 1, enabled |-> e, body |-> "old"]>>
    BY <2>2, DefinitionAssumption DEF Row, Bodies
  <2>3. CASE \E n \in Names \ {WorkerName} :
               table = <<[worker |-> WorkerName, version |-> 1, enabled |-> TRUE, body |-> "old"],
                         [worker |-> n, version |-> 1, enabled |-> TRUE, body |-> "custom"]>>
    BY <2>3, DefinitionAssumption DEF Row, Bodies
  <2> QED
    BY <2>1, <2>2, <2>3 DEF Init
<1>2. TableOK
  <2>1. \A i \in Rows : table[i].version <= 1
    BY <1>1 DEF Rows
  <2> QED
    BY <1>1, <2>1 DEF TableOK
<1>3. OneEach
  <2>1. \A i \in Rows : i \in DOMAIN table
    BY DEF Rows
  <2>2. \A name \in Names : \A i \in EnabledOf(name) : i \in DOMAIN table /\ table[i].worker = name
    BY <2>1 DEF EnabledOf
  <2>3. ASSUME NEW name \in Names, NEW i \in EnabledOf(name), NEW k \in EnabledOf(name)
        PROVE  i = k
    <3>1. i \in DOMAIN table /\ k \in DOMAIN table /\ table[i].worker = table[k].worker
      BY <2>2, <2>3
    <3> QED
      BY <1>1, <3>1
  <2> QED
    BY <2>3 DEF OneEach
<1>4. /\ clients = [c \in Clients |-> Resting(IF c \in Starters THEN "start" ELSE "idle")]
      /\ published = [name \in Names |-> None] /\ failures = 0
  BY DEF Init
<1>5. /\ \A at \in {"start", "idle"} : Resting(at) \in Client /\ Resting(at).at = at /\ Resting(at).names = <<>>
  BY RestingIsClient DEF AdminSteps, StarterSteps
<1>6. /\ \A a \in Admins : clients[a] = Resting("idle") /\ clients[a].at = "idle"
      /\ \A p \in Starters : /\ clients[p] = Resting("start") /\ clients[p].at = "start"
                             /\ clients[p].names = <<>>
  BY <1>4, <1>5, DifferentClients
<1>7. clients \in [Clients -> Client]
  BY <1>4, <1>5
<1>8. Types
  BY <1>2, <1>4, <1>6, <1>7, DifferentClients
     DEF Types, ClientsOK, AdminSteps, StarterSteps, At
<1>9. Alone
  BY <1>6 DEF Alone, Busy
<1>10. OneCommits
  BY <1>6 DEF OneCommits, At
<1>11. \A a \in Admins : RequestOK(a)
  BY <1>6 DEF RequestOK, Transacting
<1>12. \A p \in Starters : StarterOK(p)
  BY <1>6 DEF StarterOK, At, Transacting
<1> QED
  BY <1>3, <1>8, <1>9, <1>10, <1>11, <1>12 DEF Clean

(* All that requests do.                                                    *)
LEMMA RequestActions ==
  ASSUME Clean, NEW a \in Admins, ~overlapped',
         Post(a) \/ Find(a) \/ Fails(a) \/ Proceeds(a)
  PROVE  Clean'
<1>1. clients[a].at \in AdminSteps /\ a \in Clients /\ a # Server
  BY DifferentClients DEF Clean, Types, ClientsOK
<1>2. CASE Post(a)
  BY <1>2, PostKeeps
<1>3. CASE Find(a)
  BY <1>3, FindKeeps
<1>4. CASE Fails(a)
  BY <1>4, FailsKeeps
<1>5. CASE Put(a)
  BY <1>5, PutKeeps
<1>6. CASE Delete(a)
  BY <1>6, DeleteKeeps
<1>7. CASE Conflict(a) \/ Deadlock(a)
  BY <1>7, RequestGivesUpKeeps
<1>8. CASE Disable(a) \/ Lock(a) \/ Write(a)
  BY <1>8, RequestGoesKeeps DEF Advances
<1>9. CASE Commit(a)
  BY <1>9, RequestCommitKeeps
<1>10. CASE Sync(a)
  BY <1>10, SyncKeeps
<1>11. CASE Publish(a)
  BY <1>1, <1>11, PublishKeeps
<1>12. ~PublishAll(a) /\ ~Start(a) /\ ~Count(a) /\ ~Number(a)
  BY <1>1 DEF PublishAll, Start, Count, Number, At, AdminSteps, Transacting
<1> QED
  BY <1>2, <1>3, <1>4, <1>5, <1>6, <1>7, <1>8, <1>9, <1>10, <1>11, <1>12 DEF Proceeds, Transaction

(* What of Proceeds a starting process can do.                              *)
LEMMA StarterProceeds ==
  ASSUME Clean, NEW p \in Starters, Proceeds(p)
  PROVE  \/ Start(p) \/ Count(p) \/ Number(p) \/ Advances(p) \/ Commit(p)
         \/ Conflict(p) \/ Deadlock(p) \/ PublishAll(p) \/ Publish(p)
<1>1. clients[p].at \in StarterSteps
  BY DEF Clean, Types, ClientsOK
<1>2. ~Put(p) /\ ~Delete(p) /\ ~Sync(p)
  BY <1>1 DEF Put, Delete, Sync, At, StarterSteps, Transacting
<1> QED
  BY <1>2 DEF Proceeds, Transaction, Advances

(* All that the processes do when they start.                               *)
LEMMA StarterActions ==
  ASSUME Clean, NEW p \in Starters, ~overlapped', Proceeds(p) \/ Restart(p)
  PROVE  Clean'
<1>1. p \in Clients
  BY DifferentClients
<1>2. CASE Restart(p)
  BY <1>2, RestartKeeps
<1>3. CASE Start(p)
  BY <1>3, StartKeeps
<1>4. CASE Count(p)
  BY <1>4, CountKeeps
<1>5. CASE Number(p)
  BY <1>5, NumberKeeps
<1>6. CASE Advances(p)
  BY <1>6, StarterGoesKeeps
<1>7. CASE Commit(p)
  BY <1>7, StarterCommitKeeps
<1>8. CASE Conflict(p) \/ Deadlock(p)
  BY <1>8, StarterGivesUpKeeps
<1>9. CASE PublishAll(p)
  BY <1>1, <1>9, PublishAllKeeps
<1>10. CASE Publish(p)
  BY <1>1, <1>10, PublishKeeps
<1> QED
  BY <1>2, <1>3, <1>4, <1>5, <1>6, <1>7, <1>8, <1>9, <1>10, StarterProceeds

(* Nothing undoes an overlap.                                               *)
LEMMA OverlapStays ==
  ASSUME [Next]_vars, ~overlapped'
  PROVE  ~overlapped
<1>1. CASE UNCHANGED vars
  BY <1>1 DEF vars
<1>2. ASSUME NEW c \in Admins, Post(c) \/ Find(c)
      PROVE  ~overlapped
  BY <1>2 DEF Post, Find, Admit
<1>3. ASSUME NEW c \in Admins, Fails(c)
      PROVE  ~overlapped
  BY <1>3 DEF Fails
<1>4. ASSUME NEW p \in Starters, Restart(p)
      PROVE  ~overlapped
  <2>1. overlapped' = (overlapped \/ (p = Worker /\ \E c \in Admins : Busy(c)))
    BY <1>4 DEF Restart
  <2> QED
    BY <2>1
<1>5. ASSUME NEW c \in Clients, Proceeds(c)
      PROVE  ~overlapped
  <2>1. UNCHANGED overlapped
    <3>1. CASE Transaction(c)
      BY <3>1 DEF Transaction, Disable, Lock, Write, Conflict, Commit
    <3>2. CASE Put(c) \/ Delete(c) \/ Deadlock(c)
      BY <3>2 DEF Put, Delete, Deadlock
    <3>3. CASE Sync(c) \/ PublishAll(c) \/ Publish(c)
      BY <3>3 DEF Sync, PublishAll, Publish
    <3>4. CASE Start(c) \/ Count(c) \/ Number(c)
      BY <3>4 DEF Start, Count, Number
    <3> QED
      BY <1>5, <3>1, <3>2, <3>3, <3>4 DEF Proceeds
  <2> QED
    BY <2>1
<1> QED
  BY <1>1, <1>2, <1>3, <1>4, <1>5 DEF Next

(* Nothing happens.                                                         *)
LEMMA SameClean ==
  ASSUME Clean, UNCHANGED vars
  PROVE  Clean'
<1>1. UNCHANGED <<table, clients, published, failures>>
  BY DEF vars
<1>2. TableOK' /\ OneEach'
  BY <1>1, SameTable DEF Clean, Types
<1>3. ClientsOK'
  BY <1>1 DEF Clean, Types, ClientsOK, At
<1>4. Alone' /\ OneCommits'
  BY <1>1 DEF Clean, Alone, OneCommits, At, Busy
<1>5. \A p \in Starters : StarterOK(p)'
  <2> SUFFICES ASSUME NEW p \in Starters
               PROVE  StarterOK(p)'
    OBVIOUS
  <2>1. StarterOK(p) /\ (clients[p].row \in Row => clients[p].row.worker \in Names)
    BY DEF Clean, Row
  <2> QED
    BY <1>1, <2>1, SameStarter
<1>6. \A a \in Admins : RequestOK(a)'
  <2> SUFFICES ASSUME NEW a \in Admins
               PROVE  RequestOK(a)'
    OBVIOUS
  <2>1. RequestOK(a) /\ Rows' = Rows /\ NamesOf(a)' = NamesOf(a)
    BY <1>1, SameTable DEF Clean, NamesOf
  <2>2. clients[a].row \in Row => Others(a)' = Others(a)
    BY <1>1, SameTable DEF Others, Row
  <2>3. Prepared(a)' <=> Prepared(a)
    BY <1>1, <2>1 DEF Prepared
  <2>4. clients[a].row \in Row => (Covered(a)' <=> Covered(a))
    BY <1>1, <2>2 DEF Covered
  <2>5. clients'[a] = clients[a] /\ table' = table
    BY <1>1
  <2>6. Prepared(a) => clients[a].row \in Row
    BY DEF Prepared
  <2> QED
    BY <2>1, <2>3, <2>4, <2>5, <2>6 DEF RequestOK, At
<1> QED
  BY <1>1, <1>2, <1>3, <1>4, <1>5, <1>6 DEF Clean, Types

(* The invariant of OneEnabled.                                             *)
LEMMA StaysClean == CleanOK /\ [Next]_vars => CleanOK'
<1> SUFFICES ASSUME CleanOK, [Next]_vars, ~overlapped'
             PROVE  Clean'
  BY DEF CleanOK
<1>1. Clean
  BY OverlapStays DEF CleanOK
<1>2. CASE UNCHANGED vars
  BY <1>1, <1>2, SameClean
<1>3. ASSUME NEW c \in Admins, Post(c) \/ Find(c) \/ Fails(c)
      PROVE  Clean'
  BY <1>1, <1>3, RequestActions
<1>4. ASSUME NEW c \in Clients, Proceeds(c)
      PROVE  Clean'
  BY <1>1, <1>4, RequestActions, StarterActions, DifferentClients
<1>5. ASSUME NEW p \in Starters, Restart(p)
      PROVE  Clean'
  BY <1>1, <1>5, StarterActions
<1> QED
  BY <1>2, <1>3, <1>4, <1>5 DEF Next

(* It implies the property.                                                 *)
LEMMA CleanIsOneEnabled == CleanOK => OneEnabled
<1> SUFFICES ASSUME Clean, NEW name \in Names
             PROVE  Cardinality(EnabledOf(name)) <= 1
  BY DEF CleanOK, OneEnabled
<1>1. CASE EnabledOf(name) = {}
  BY <1>1, FS_EmptySet
<1>2. CASE EnabledOf(name) # {}
  <2>1. PICK i \in EnabledOf(name) : TRUE
    BY <1>2
  <2>2. EnabledOf(name) = {i}
    BY <2>1 DEF Clean, OneEach
  <2>3. Cardinality({i}) = 1
    BY FS_Singleton
  <2> QED
    BY <2>2, <2>3
<1> QED
  BY <1>1, <1>2

(* README.md:594: one enabled version of a worker name at a time, as long as *)
(* requests do not overlap, whatever fails, is restarted or starts together. *)
THEOREM OneIsEnabled == Spec => []OneEnabled
<1>1. Init => CleanOK
  BY InitClean DEF CleanOK
<1> QED
  BY <1>1, StaysClean, CleanIsOneEnabled, PTL DEF Spec

-----------------------------------------------------------------------------
(* What is published, for requests.                                         *)

(* What a client has yet to publish.                                        *)
LEMMA OwesIs ==
  ASSUME NEW c \in Clients
  PROVE  /\ At(c, "sync") => Owes(c) = NamesOf(c)
         /\ At(c, "publish") => Owes(c) = NamesOf(c) \cup DOMAIN clients[c].seen
         /\ clients[c].at \notin {"sync", "publish"} => Owes(c) = {}
BY DEF Owes, At

(* And after a step.                                                        *)
LEMMA NextOwesIs ==
  ASSUME NEW c \in Clients
  PROVE  /\ At(c, "sync")' => Owes(c)' = NamesOf(c)'
         /\ At(c, "publish")' => Owes(c)' = NamesOf(c)' \cup DOMAIN clients'[c].seen
         /\ clients'[c].at \notin {"sync", "publish"} => Owes(c)' = {}
BY DEF Owes, At

(* What is chosen does not change with rows of other names.                 *)
LEMMA ChosenStays ==
  ASSUME TableOK, OneEach, TableOK', OneEach', NEW name \in Names,
         EnabledOf(name)' = EnabledOf(name),
         \A i \in EnabledOf(name) : table'[i] = table[i]
  PROVE  Chosen(name)' = Chosen(name)
<1>1. CASE EnabledOf(name) = {}
  BY <1>1, ChosenIsOnly, NextChosenIsOnly
<1>2. CASE EnabledOf(name) # {}
  <2>1. PICK i \in EnabledOf(name) : TRUE
    BY <1>2
  <2>2. Chosen(name) = table[i].body /\ Chosen(name)' = table'[i].body
    BY <2>1, ChosenIsOnly, NextChosenIsOnly
  <2> QED
    BY <2>1, <2>2
<1> QED
  BY <1>1, <1>2

(* While a request runs, it alone owes publications.                        *)
LEMMA RequestOwes ==
  ASSUME Clean, Current, NEW a \in Admins, Busy(a) \/ \A c \in Clients \ {a} : ~Busy(c)
  PROVE  /\ clients[Server].at = "ready" /\ clients[Worker].at = "ready"
         /\ \A b \in Admins \ {a} : clients[b].at = "idle"
         /\ \A name \in Names : published[name] = Chosen(name) \/ name \in Owes(a)
<1>1. \A c \in Clients \ {a} : clients[c].at \in {"idle", "ready"}
  BY DEF Clean, Alone, Busy
<1>2. /\ \A b \in Admins : clients[b].at \in AdminSteps
      /\ \A p \in Starters : clients[p].at \in StarterSteps
  BY DEF Clean, Types, ClientsOK
<1>3. clients[Server].at = "ready" /\ clients[Worker].at = "ready"
  BY <1>1, <1>2, DifferentClients DEF StarterSteps, Transacting
<1>4. \A b \in Admins \ {a} : clients[b].at = "idle"
  BY <1>1, <1>2, DifferentClients DEF AdminSteps, Transacting
<1>5. \A c \in Clients \ {a} : Owes(c) = {}
  BY <1>1, OwesIs
<1>6. ~Starting /\ ~At(Server, "publishAll")
  BY <1>3 DEF Starting, At, Transacting
<1>7. \A name \in Names : published[name] = Chosen(name) \/ \E c \in Clients : name \in Owes(c)
  BY <1>6 DEF Current
<1> QED
  BY <1>3, <1>4, <1>5, <1>7

(* What a request has to leave for the invariant.                           *)
LEMMA RequestCurrent ==
  ASSUME Clean, Current, NEW a \in Admins, Only(a),
         Busy(a) \/ \A c \in Clients \ {a} : ~Busy(c),
         \A name \in Names : published'[name] = Chosen(name)' \/ name \in Owes(a)',
         At(a, "publish")' =>
           \A n \in DOMAIN clients'[a].seen : clients'[a].seen[n] = Chosen(n)'
  PROVE  Current'
<1>1. /\ clients'[Server].at = "ready" /\ clients'[Worker].at = "ready"
      /\ \A b \in Admins \ {a} : clients'[b].at = "idle"
  BY RequestOwes, DifferentClients DEF Only
<1>2. ~Starting' /\ ~At(Server, "publishAll")' /\ Settled'
  BY <1>1 DEF Starting, Settled, At, Transacting
<1>3. \A c \in Clients : At(c, "publish")' => c = a
  BY <1>1, DifferentClients DEF At, Starters
<1>4. a \in Clients
  BY DifferentClients
<1> QED
  BY <1>2, <1>3, <1>4 DEF Current

(* Steps of a request that leave the table and the registry alone.          *)
LEMMA QuietRequest ==
  ASSUME Clean, Current, NEW a \in Admins, Only(a), UNCHANGED <<table, published>>,
         Busy(a) \/ \A c \in Clients \ {a} : ~Busy(c),
         clients[a].at \notin {"sync", "publish"}, clients'[a].at # "publish"
  PROVE  Current'
<1>1. \A name \in Names : published[name] = Chosen(name)
  BY RequestOwes, OwesIs, DifferentClients
<1>2. \A name \in Names : published'[name] = Chosen(name)'
  BY <1>1, SameTable
<1>3. ~At(a, "publish")'
  BY DEF At
<1> QED
  BY <1>2, <1>3, RequestCurrent

(* Steps that write the table leave the names of the request to publish.    *)
LEMMA RequestWrites ==
  ASSUME Clean, Clean', Current, NEW a \in Admins, Only(a), Busy(a), UNCHANGED published,
         clients[a].at \notin {"sync", "publish"}, clients'[a].at = "sync",
         clients'[a].names = clients[a].names,
         \A name \in Names \ NamesOf(a) :
           /\ EnabledOf(name)' = EnabledOf(name)
           /\ \A i \in EnabledOf(name) : table'[i] = table[i]
  PROVE  Current'
<1>1. \A name \in Names : published[name] = Chosen(name)
  BY RequestOwes, OwesIs, DifferentClients
<1>2. Owes(a)' = NamesOf(a)
  BY NextOwesIs, DifferentClients DEF At, NamesOf
<1>3. ASSUME NEW name \in Names, name \notin NamesOf(a)
      PROVE  Chosen(name)' = Chosen(name)
  BY <1>3, ChosenStays DEF Clean, Types
<1>4. \A name \in Names : published'[name] = Chosen(name)' \/ name \in Owes(a)'
  BY <1>1, <1>2, <1>3
<1>5. ~At(a, "publish")'
  BY DEF At
<1> QED
  BY <1>4, <1>5, RequestCurrent

(* The name it takes up is still owed.                                      *)
LEMMA RequestSyncCurrent ==
  ASSUME Clean, Current, NEW a \in Admins, Sync(a)
  PROVE  Current'
<1>1. At(a, "sync") /\ a \in Clients /\ UNCHANGED <<table, published>>
  BY DifferentClients DEF Sync
<1>2. Only(a) /\ Busy(a)
  BY SyncKeeps
<1>3. \A name \in Names : published'[name] = Chosen(name)' \/ name \in NamesOf(a)
  BY <1>1, <1>2, RequestOwes, OwesIs, SameTable
<1>4. CASE clients[a].names = <<>> /\ clients'[a].at = "idle"
  <2>1. NamesOf(a) = {}
    BY <1>4 DEF NamesOf
  <2>2. ~At(a, "publish")'
    BY <1>4 DEF At
  <2> QED
    BY <1>2, <1>3, <2>1, <2>2, RequestCurrent
<1>5. CASE /\ clients'[a].at = "publish"
           /\ NamesOf(a) = NamesOf(a)' \cup DOMAIN clients'[a].seen
           /\ \A n \in DOMAIN clients'[a].seen : n \in Names /\ clients'[a].seen[n] = Chosen(n)
  <2>1. Owes(a)' = NamesOf(a)
    BY <1>1, <1>5, NextOwesIs DEF At
  <2>2. \A n \in DOMAIN clients'[a].seen : clients'[a].seen[n] = Chosen(n)'
    BY <1>1, <1>5, SameTable
  <2> QED
    BY <1>2, <1>3, <2>1, <2>2, RequestCurrent
<1> QED
  BY <1>4, <1>5, SyncKeeps

(* A publication pays what was owed, with what is chosen.                   *)
LEMMA PublishPays ==
  ASSUME Clean, NEW c \in Clients, At(c, "publish"), Publishes(c), UNCHANGED table,
         \A n \in DOMAIN clients[c].seen : clients[c].seen[n] = Chosen(n),
         \A name \in Names : published[name] = Chosen(name) \/ name \in Owes(c),
         c \in Starters => clients[c].names = <<>>
  PROVE  /\ \A name \in Names : published'[name] = Chosen(name)' \/ name \in Owes(c)'
         /\ At(c, "publish")' =>
              \A n \in DOMAIN clients'[c].seen : clients'[c].seen[n] = Chosen(n)'
<1>1. /\ NamesOf(c)' = NamesOf(c) /\ (c \in Starters => NamesOf(c) = {})
      /\ clients[c].seen \in Seen /\ DOMAIN clients[c].seen \subseteq Names
      /\ published \in [Names -> Bodies \cup {None}]
  BY ClientIs, SeenIs DEF Publishes, NamesOf, Clean, Types
<1>2. Owes(c) = NamesOf(c) \cup DOMAIN clients[c].seen
  BY OwesIs
<1>3. CASE /\ DOMAIN clients[c].seen = {} /\ UNCHANGED published
           /\ clients'[c].at = IF c \in Starters THEN "ready" ELSE "sync"
  <2>1. NamesOf(c) \subseteq Owes(c)'
    BY <1>1, <1>3, NextOwesIs DEF At
  <2>2. ~At(c, "publish")'
    BY <1>3 DEF At
  <2>3. \A name \in Names : Chosen(name)' = Chosen(name)
    BY SameTable
  <2> QED
    BY <1>2, <1>3, <2>1, <2>2, <2>3
<1>4. ASSUME NEW n \in DOMAIN clients[c].seen,
             published' = [published EXCEPT ![n] = clients[c].seen[n]],
             clients'[c].at = "publish",
             DOMAIN clients'[c].seen = DOMAIN clients[c].seen \ {n},
             \A m \in DOMAIN clients'[c].seen : clients'[c].seen[m] = clients[c].seen[m]
      PROVE  /\ \A name \in Names : published'[name] = Chosen(name)' \/ name \in Owes(c)'
             /\ \A m \in DOMAIN clients'[c].seen : clients'[c].seen[m] = Chosen(m)'
  <2>1. Owes(c)' = NamesOf(c) \cup DOMAIN clients'[c].seen
    BY <1>1, <1>4, NextOwesIs DEF At
  <2>2. \A name \in Names : Chosen(name)' = Chosen(name)
    BY SameTable
  <2>3. \A name \in Names : published'[name] = IF name = n THEN Chosen(name) ELSE published[name]
    BY <1>1, <1>4
  <2>4. \A m \in DOMAIN clients'[c].seen : m \in Names /\ clients'[c].seen[m] = Chosen(m)
    BY <1>1, <1>4
  <2>5. \A name \in Names : name \in Owes(c) => name = n \/ name \in Owes(c)'
    BY <1>2, <1>4, <2>1
  <2> QED
    BY <2>2, <2>3, <2>4, <2>5
<1> QED
  BY <1>3, <1>4 DEF Publishes

(* Each publication is of what is chosen.                                   *)
LEMMA RequestPublishCurrent ==
  ASSUME Clean, Current, NEW a \in Admins, Publish(a)
  PROVE  Current'
<1>1. a \in Clients /\ a \notin Starters /\ At(a, "publish")
  BY DifferentClients DEF Publish
<1>2. Publishes(a) /\ Busy(a) /\ Only(a) /\ UNCHANGED table
  BY <1>1, PublishKeeps DEF Publishes
<1>3. \A n \in DOMAIN clients[a].seen : clients[a].seen[n] = Chosen(n)
  BY <1>1 DEF Current
<1>4. \A name \in Names : published[name] = Chosen(name) \/ name \in Owes(a)
  BY <1>2, RequestOwes
<1>5. /\ \A name \in Names : published'[name] = Chosen(name)' \/ name \in Owes(a)'
      /\ At(a, "publish")' =>
           \A n \in DOMAIN clients'[a].seen : clients'[a].seen[n] = Chosen(n)'
  BY <1>1, <1>2, <1>3, <1>4, PublishPays
<1> QED
  BY <1>2, <1>5, RequestCurrent

(* All that requests do.                                                    *)
LEMMA RequestsStayCurrent ==
  ASSUME Clean, Clean', Current, NEW a \in Admins, ~overlapped', failures' = 0,
         Post(a) \/ Find(a) \/ Fails(a) \/ Proceeds(a)
  PROVE  Current'
<1>1. clients[a].at \in AdminSteps /\ a \in Clients /\ a # Server
  BY DifferentClients DEF Clean, Types, ClientsOK
<1>2. CASE Post(a)
  <2>1. Only(a) /\ clients'[a].at \in Transacting
    BY <1>2, PostKeeps
  <2>2. UNCHANGED <<table, published>> /\ At(a, "idle") /\ \A c \in Clients \ {a} : ~Busy(c)
    BY <1>2, LetIn DEF Post
  <2> QED
    BY <2>1, <2>2, QuietRequest DEF At, Transacting
<1>3. CASE Find(a)
  <2>1. Only(a) /\ clients'[a].at \in {"put", "delete"}
    BY <1>3, FindKeeps
  <2>2. UNCHANGED <<table, published>> /\ At(a, "idle") /\ \A c \in Clients \ {a} : ~Busy(c)
    BY <1>3, LetIn DEF Find
  <2> QED
    BY <2>1, <2>2, QuietRequest DEF At
<1>4. ~Fails(a)
  BY DEF Fails, Clean, Types
<1>5. CASE Put(a)
  <2>1. Only(a) /\ clients'[a].at \in Transacting \cup {"idle"}
    BY <1>5, PutKeeps
  <2>2. UNCHANGED <<table, published>> /\ At(a, "put") /\ Busy(a)
    BY <1>5 DEF Put, At, Busy
  <2> QED
    BY <2>1, <2>2, QuietRequest DEF At, Transacting
<1>6. CASE Delete(a)
  <2>1. UNCHANGED published /\ At(a, "delete")
    BY <1>6 DEF Delete
  <2>2. clients[a].at \notin {"sync", "publish"}
    BY <2>1 DEF At
  <2> QED
    BY <1>6, <2>1, <2>2, DeleteKeeps, RequestWrites
<1>7. CASE Conflict(a) \/ Deadlock(a)
  <2>1. /\ Only(a) /\ clients'[a].at = "idle" /\ Busy(a)
        /\ clients[a].at # "sync" /\ clients[a].at # "publish"
    BY <1>7, RequestGivesUpKeeps
  <2>2. UNCHANGED <<table, published>>
    BY <1>1, <1>7, RollsBack
  <2> QED
    BY <2>1, <2>2, QuietRequest
<1>8. CASE Disable(a) \/ Lock(a) \/ Write(a)
  <2>1. Onward(a)
    BY <1>8, RequestGoesKeeps DEF Advances
  <2> QED
    BY <2>1, QuietRequest DEF Onward, Busy
<1>9. CASE Commit(a)
  <2>1. UNCHANGED published /\ At(a, "commit")
    BY <1>9 DEF Commit
  <2>2. clients[a].at \notin {"sync", "publish"}
    BY <2>1 DEF At
  <2> QED
    BY <1>9, <2>1, <2>2, RequestCommitKeeps, RequestWrites
<1>10. CASE Sync(a)
  BY <1>10, RequestSyncCurrent
<1>11. CASE Publish(a)
  BY <1>11, RequestPublishCurrent
<1>12. ~PublishAll(a) /\ ~Start(a) /\ ~Count(a) /\ ~Number(a)
  BY <1>1 DEF PublishAll, Start, Count, Number, At, AdminSteps, Transacting
<1> QED
  BY <1>2, <1>3, <1>4, <1>5, <1>6, <1>7, <1>8, <1>9, <1>10, <1>11, <1>12 DEF Proceeds, Transaction

-----------------------------------------------------------------------------
(* What is published, for the processes.                                    *)

(* While a process starts, only the API owes publications.                  *)
LEMMA StarterCurrent ==
  ASSUME Clean, NEW p \in Starters, Busy(p), Only(p),
         Starting' \/ At(Server, "publishAll")' => \A name \in Names : published'[name] = None,
         Starting' => Beginning', ~Starting' => Settled',
         ~Starting' /\ ~At(Server, "publishAll")' =>
           \A name \in Names : published'[name] = Chosen(name)' \/ name \in Owes(Server)',
         At(Server, "publish")' =>
           \A n \in DOMAIN clients'[Server].seen : clients'[Server].seen[n] = Chosen(n)'
  PROVE  Current'
<1>1. \A a \in Admins : clients'[a].at = "idle"
  BY NoRequestBeside, DifferentClients DEF Only
<1>2. ClientsOK'
  BY DEF Only
<1>3. \A c \in Clients : At(c, "publish")' => c = Server
  BY <1>1, <1>2, DifferentClients DEF At, Starters, ClientsOK
<1> QED
  BY <1>3, DifferentClients DEF Current

(* It is the one who publishes.                                             *)
LEMMA OnlyServerOwes ==
  ASSUME Clean, Current, NEW p \in Starters, Busy(p), ~Starting, ~At(Server, "publishAll")
  PROVE  \A name \in Names : published[name] = Chosen(name) \/ name \in Owes(Server)
<1>1. \A a \in Admins : clients[a].at = "idle"
  BY NoRequestBeside
<1>2. clients[Worker].at \notin {"sync", "publish"}
  BY DifferentClients DEF Clean, Types, ClientsOK, At, StarterSteps, Transacting
<1>3. \A c \in Clients : c # Server => Owes(c) = {}
  BY <1>1, <1>2, OwesIs, DifferentClients DEF Starters
<1>4. \A name \in Names : published[name] = Chosen(name) \/ \E c \in Clients : name \in Owes(c)
  BY DEF Current
<1> QED
  BY <1>3, <1>4

(* The parts of the invariant that a step leaves alone.                     *)
LEMMA SameSettled ==
  ASSUME UNCHANGED table, clients'[Worker] = clients[Worker], Settled
  PROVE  Settled'
BY SameTable, DefinitionAssumption DEF Settled, At

(* As long as the API has not found or made a definition.                   *)
LEMMA SameBeginning ==
  ASSUME UNCHANGED table, Beginning,
         At(Worker, "number")' => EnabledOf(WorkerName) # {},
         clients'[Worker].at \in Transacting => EnabledOf(WorkerName) # {} \/ Versions = {},
         At(Server, "count")' => Chosen(WorkerName) # "old"
  PROVE  Beginning'
BY SameTable, DefinitionAssumption DEF Beginning

(* The processes, and what they do while they start.                        *)
LEMMA ServerOrWorker ==
  /\ \A p \in Starters : p = Server \/ p = Worker
  /\ \A at \in {"start", "count", "number"} \cup Transacting :
       at # "publishAll" /\ at # "publish" /\ at # "ready" /\ at # "idle" /\ at # "sync"
BY DEF Starters, Transacting

(* The API, until it has the definition.                                    *)
LEMMA ServerStarts ==
  ASSUME Clean, Current, Starting, Only(Server), UNCHANGED <<table, published>>,
         \/ clients'[Server].at \in {"start", "number"} \cup Transacting
         \/ clients'[Server].at = "count" /\ Chosen(WorkerName) # "old"
         \/ clients'[Server].at = "publishAll" /\ Settled
  PROVE  Current'
<1>1. /\ Server \in Starters /\ Worker # Server /\ Busy(Server)
      /\ clients'[Worker] = clients[Worker]
  BY DifferentClients, ServerOrWorker DEF Starting, Busy, Only
<1>2. \A name \in Names : published'[name] = None
  BY DEF Current
<1>3. Starting' => Beginning'
  <2> SUFFICES ASSUME Starting'
               PROVE  Beginning'
    OBVIOUS
  <2>1. Beginning
    BY DEF Current
  <2>2. clients'[Server].at # "publishAll"
    BY ServerOrWorker DEF Starting
  <2>3. At(Server, "count")' => Chosen(WorkerName) # "old"
    BY <2>2 DEF At, Transacting
  <2>4. At(Worker, "number")' => EnabledOf(WorkerName) # {}
    BY <1>1, <2>1 DEF Beginning, At
  <2>5. clients'[Worker].at \in Transacting => EnabledOf(WorkerName) # {} \/ Versions = {}
    BY <1>1, <2>1 DEF Beginning
  <2> QED
    BY <2>1, <2>3, <2>4, <2>5, SameBeginning
<1>4. ~Starting' => clients'[Server].at = "publishAll" /\ Settled
  BY DEF Starting
<1>5. ~Starting' => Settled'
  BY <1>1, <1>4, SameSettled
<1>6. ~At(Server, "publish")' /\ (~Starting' => At(Server, "publishAll")')
  BY <1>4 DEF At, Starting, Transacting
<1> QED
  BY <1>1, <1>2, <1>3, <1>5, <1>6, StarterCurrent

(* Unless the build's own definition is enabled there is an older one.      *)
LEMMA BeginningChosen ==
  ASSUME Clean, Beginning
  PROVE  /\ Chosen(WorkerName) \in {None, "old", "builtin"}
         /\ Chosen(WorkerName) = None <=> EnabledOf(WorkerName) = {}
<1>1. WorkerName \in Names /\ TableOK /\ OneEach
  BY DefinitionAssumption DEF Clean, Types
<1>2. Chosen(WorkerName) \in Bodies \cup {None} /\ (Chosen(WorkerName) = None <=> EnabledOf(WorkerName) = {})
  BY <1>1, ChosenIsBody
<1>3. ASSUME Chosen(WorkerName) = "custom", EnabledOf(WorkerName) # {}
      PROVE  FALSE
  <2>1. PICK i \in EnabledOf(WorkerName) : TRUE
    BY <1>3
  <2>2. Chosen(WorkerName) = table[i].body
    BY <1>1, <2>1, ChosenIsOnly
  <2>3. i \in Rows /\ table[i].worker = WorkerName
    BY <2>1 DEF EnabledOf
  <2> QED
    BY <1>3, <2>2, <2>3 DEF Beginning
<1>4. "custom" # None
  BY DefinitionAssumption DEF Bodies
<1> QED
  BY <1>2, <1>3, <1>4 DEF Bodies

(* Its steps up to the COMMIT.                                              *)
LEMMA ServerStaysCurrent ==
  ASSUME Clean, Clean', Current,
         \/ Start(Server) \/ Count(Server) \/ Number(Server) \/ Advances(Server)
         \/ Conflict(Server) \/ Deadlock(Server)
  PROVE  Current'
<1>1. Server \in Starters /\ Server \in Clients /\ After(Server) = "publishAll"
  BY DifferentClients DEF After
<1>2. CASE Start(Server)
  <2>1. Starting /\ UNCHANGED <<table, published>>
    BY <1>2 DEF Start, Starting, At
  <2>2. Beginning
    BY <2>1 DEF Current
  <2>3. Only(Server)
    BY <1>1, <1>2, StartKeeps
  <2>4. \/ clients'[Server].at = "count" /\ Chosen(WorkerName) = None
        \/ clients'[Server].at = "number" /\ Chosen(WorkerName) = "old"
        \/ clients'[Server].at = "publishAll" /\ Chosen(WorkerName) \notin {None, "old"}
    BY <1>1, <1>2, StartKeeps
  <2>5. None # "old"
    BY DefinitionAssumption DEF Bodies
  <2>6. Chosen(WorkerName) \notin {None, "old"} => Settled
    BY <2>2, BeginningChosen DEF Settled
  <2> QED
    BY <2>1, <2>3, <2>4, <2>5, <2>6, ServerStarts
<1>3. CASE Count(Server)
  <2>1. Starting /\ UNCHANGED <<table, published>> /\ At(Server, "count")
    BY <1>3 DEF Count, Starting, At
  <2>2. Beginning
    BY <2>1 DEF Current
  <2>3. Only(Server)
    BY <1>1, <1>3, CountKeeps
  <2>4. \/ clients'[Server].at = "disable"
        \/ clients'[Server].at = "publishAll" /\ Versions # {}
    BY <1>1, <1>3, CountKeeps
  <2>5. Versions # {} => Settled
    <3> SUFFICES ASSUME Versions # {}, ~At(Worker, "ready"), Chosen(WorkerName) # "builtin"
                 PROVE  clients[Worker].at \in {"start", "count"} /\ Chosen(WorkerName) # "old"
      BY DEF Settled
    <3>1. Chosen(WorkerName) # "old"
      BY <2>1, <2>2 DEF Beginning
    <3>2. EnabledOf(WorkerName) = {}
      BY <2>2, <3>1, BeginningChosen
    <3>3. ~At(Worker, "number") /\ clients[Worker].at \notin Transacting
      BY <2>2, <3>2 DEF Beginning
    <3>4. clients[Worker].at \in StarterSteps /\ ~At(Worker, "publishAll") /\ ~At(Worker, "publish")
      BY DifferentClients DEF Clean, Types, ClientsOK
    <3> QED
      BY <3>1, <3>3, <3>4 DEF StarterSteps, At
  <2> QED
    BY <2>1, <2>3, <2>4, <2>5, ServerStarts DEF Transacting
<1>4. CASE Number(Server)
  <2>1. Starting /\ UNCHANGED <<table, published>>
    BY <1>4 DEF Number, Starting, At
  <2>2. Only(Server) /\ clients'[Server].at = "disable"
    BY <1>1, <1>4, NumberKeeps
  <2> QED
    BY <2>1, <2>2, ServerStarts DEF Transacting
<1>5. CASE Advances(Server)
  <2>1. Onward(Server)
    BY <1>1, <1>5, StarterGoesKeeps
  <2>2. Starting /\ UNCHANGED <<table, published>> /\ Only(Server) /\ clients'[Server].at \in Transacting
    BY <2>1 DEF Onward, Starting, Transacting
  <2> QED
    BY <2>2, ServerStarts
<1>6. CASE Conflict(Server) \/ Deadlock(Server)
  <2>1. UNCHANGED <<table, published>>
    BY <1>1, <1>6, RollsBack
  <2>2. Only(Server) /\ clients'[Server].at = "start" /\ clients[Server].at \in Transacting
    BY <1>1, <1>6, StarterGivesUpKeeps
  <2>3. Starting
    BY <2>2 DEF Starting
  <2> QED
    BY <2>1, <2>2, <2>3, ServerStarts
<1> QED
  BY <1>2, <1>3, <1>4, <1>5, <1>6

(* Its own definition is chosen.                                            *)
LEMMA ServerCommitsCurrent ==
  ASSUME Clean, Current, Commit(Server)
  PROVE  Current'
<1>1. Server \in Starters /\ After(Server) = "publishAll"
  BY DifferentClients DEF After
<1>2. /\ Only(Server) /\ Busy(Server) /\ clients[Server].at \in Transacting
      /\ clients'[Server].at = "publishAll" /\ Chosen(WorkerName)' = "builtin"
  BY <1>1, StarterCommitKeeps
<1>3. \A name \in Names : published'[name] = None
  BY <1>2 DEF Current, Starting, Commit
<1>4. ~Starting' /\ Settled' /\ At(Server, "publishAll")' /\ ~At(Server, "publish")'
  BY <1>2 DEF Starting, Settled, At, Transacting
<1> QED
  BY <1>1, <1>2, <1>3, <1>4, StarterCurrent

(* It publishes all there is.                                               *)
LEMMA ServerPublishesCurrent ==
  ASSUME Clean, Current, PublishAll(Server) \/ Publish(Server)
  PROVE  Current'
<1>1. /\ Server \in Starters /\ Server \in Clients /\ Worker \in Clients /\ Worker # Server
  BY DifferentClients
<1>2. CASE PublishAll(Server)
  <2>1. /\ Only(Server) /\ Busy(Server) /\ At(Server, "publishAll")
        /\ clients'[Server].at = "publish"
        /\ DOMAIN clients'[Server].seen = {n \in Names : EnabledOf(n) # {}}
        /\ \A n \in DOMAIN clients'[Server].seen : clients'[Server].seen[n] = Chosen(n)
        /\ UNCHANGED <<table, published, requests, failures, overlapped>>
    BY <1>1, <1>2, PublishAllKeeps
  <2>2. ~Starting /\ Settled /\ \A name \in Names : published[name] = None
    BY <2>1 DEF Current, Starting, At, Transacting
  <2>3. ~Starting' /\ ~At(Server, "publishAll")'
    BY <2>1 DEF Starting, At, Transacting
  <2>4. Settled'
    BY <1>1, <2>1, <2>2, SameSettled DEF Only
  <2>5. DOMAIN clients'[Server].seen \subseteq Owes(Server)'
    BY <1>1, <2>1, NextOwesIs DEF At
  <2>6. \A name \in Names : published'[name] = Chosen(name)' \/ name \in Owes(Server)'
    <3> SUFFICES ASSUME NEW name \in Names, name \notin Owes(Server)'
                 PROVE  published'[name] = Chosen(name)'
      OBVIOUS
    <3>1. EnabledOf(name) = {}
      BY <2>1, <2>5
    <3>2. Chosen(name) = None
      BY <3>1, ChosenIsOnly DEF Clean, Types
    <3> QED
      BY <2>1, <2>2, <3>2, SameTable
  <2>7. \A n \in DOMAIN clients'[Server].seen : clients'[Server].seen[n] = Chosen(n)'
    BY <2>1, SameTable
  <2> QED
    BY <1>1, <2>1, <2>3, <2>4, <2>6, <2>7, StarterCurrent
<1>3. CASE Publish(Server)
  <2>1. At(Server, "publish") /\ Busy(Server) /\ clients[Server].names = <<>>
    BY <1>1, <1>3 DEF Publish, At, Busy, Clean, StarterOK
  <2>2. Publishes(Server) /\ Only(Server) /\ UNCHANGED table
    BY <1>1, <1>3, PublishKeeps DEF Publishes
  <2>3. ~Starting /\ ~At(Server, "publishAll") /\ Settled
    BY <2>1 DEF Current, Starting, At, Transacting
  <2>4. \A name \in Names : published[name] = Chosen(name) \/ name \in Owes(Server)
    BY <1>1, <2>1, <2>3, OnlyServerOwes
  <2>5. \A n \in DOMAIN clients[Server].seen : clients[Server].seen[n] = Chosen(n)
    BY <1>1, <2>1 DEF Current
  <2>6. /\ \A name \in Names : published'[name] = Chosen(name)' \/ name \in Owes(Server)'
        /\ At(Server, "publish")' =>
             \A n \in DOMAIN clients'[Server].seen : clients'[Server].seen[n] = Chosen(n)'
    BY <1>1, <2>1, <2>2, <2>4, <2>5, PublishPays
  <2>7. clients'[Server].at \in {"ready", "publish"}
    BY <1>1, <2>2 DEF Publishes
  <2>8. ~Starting' /\ ~At(Server, "publishAll")'
    BY <2>7 DEF Starting, At, Transacting
  <2>9. Settled'
    BY <1>1, <2>2, <2>3, SameSettled DEF Only
  <2> QED
    BY <1>1, <2>1, <2>2, <2>6, <2>8, <2>9, StarterCurrent
<1> QED
  BY <1>2, <1>3

(* Who does nothing owes what it owed.                                      *)
LEMMA SameOwes ==
  ASSUME NEW c \in Clients, clients'[c] = clients[c]
  PROVE  Owes(c)' = Owes(c)
<1>1. NamesOf(c)' = NamesOf(c)
  BY DEF NamesOf
<1>2. CASE clients[c].at = "sync"
  BY <1>1, <1>2, OwesIs, NextOwesIs DEF At
<1>3. CASE clients[c].at = "publish"
  BY <1>1, <1>3, OwesIs, NextOwesIs DEF At
<1>4. CASE clients[c].at \notin {"sync", "publish"}
  BY <1>4, OwesIs, NextOwesIs
<1> QED
  BY <1>2, <1>3, <1>4

(* The worker, with the table.                                              *)
LEMMA WorkerMoves ==
  ASSUME Clean, Current, Busy(Worker), Only(Worker), UNCHANGED <<table, published>>,
         Beginning =>
           /\ At(Worker, "number")' => EnabledOf(WorkerName) # {}
           /\ clients'[Worker].at \in Transacting => EnabledOf(WorkerName) # {} \/ Versions = {},
         Settled =>
           \/ clients'[Worker].at = "ready"
           \/ Chosen(WorkerName) = "builtin"
           \/ clients'[Worker].at = "count" /\ Versions # {} /\ Chosen(WorkerName) # "old"
  PROVE  Current'
<1>1. /\ Worker \in Starters /\ Server \in Starters /\ Server \in Clients /\ Worker # Server
      /\ clients'[Server] = clients[Server] /\ WorkerName \in Names
  BY DifferentClients, DefinitionAssumption DEF Only
<1>2. /\ Starting' <=> Starting
      /\ At(Server, "publishAll")' <=> At(Server, "publishAll")
      /\ At(Server, "count")' <=> At(Server, "count")
      /\ At(Server, "publish")' <=> At(Server, "publish")
      /\ NamesOf(Server)' = NamesOf(Server)
  BY <1>1 DEF Starting, At, NamesOf
<1>3. Owes(Server)' = Owes(Server)
  BY <1>1, <1>2, SameOwes
<1>4. /\ \A name \in Names : Chosen(name)' = Chosen(name)
      /\ Versions' = Versions
  BY SameTable
<1>5. Starting' => Beginning'
  <2> SUFFICES ASSUME Starting
               PROVE  Beginning'
    BY <1>2
  <2>1. Beginning
    BY DEF Current
  <2>2. At(Server, "count")' => Chosen(WorkerName) # "old"
    BY <1>2, <2>1 DEF Beginning
  <2> QED
    BY <2>1, <2>2, SameBeginning
<1>6. ~Starting' => Settled'
  <2> SUFFICES ASSUME ~Starting
               PROVE  Settled'
    BY <1>2
  <2>1. Settled
    BY DEF Current
  <2> QED
    BY <1>1, <1>4, <2>1 DEF Settled, At
<1>7. Starting' \/ At(Server, "publishAll")' => \A name \in Names : published'[name] = None
  BY <1>2 DEF Current
<1>8. ~Starting' /\ ~At(Server, "publishAll")' =>
        \A name \in Names : published'[name] = Chosen(name)' \/ name \in Owes(Server)'
  BY <1>1, <1>2, <1>3, <1>4, OnlyServerOwes
<1>9. At(Server, "publish")' =>
        \A n \in DOMAIN clients'[Server].seen : clients'[Server].seen[n] = Chosen(n)'
  <2> SUFFICES ASSUME At(Server, "publish"), NEW n \in DOMAIN clients[Server].seen
               PROVE  clients[Server].seen[n] = Chosen(n)'
    BY <1>1, <1>2
  <2>1. clients[Server].seen[n] = Chosen(n)
    BY <1>1 DEF Current
  <2>2. n \in Names
    BY <1>1, ClientIs, SeenIs DEF Clean, Types
  <2> QED
    BY <1>4, <2>1, <2>2
<1> QED
  BY <1>1, <1>5, <1>6, <1>7, <1>8, <1>9, StarterCurrent

(* Its steps up to the COMMIT.                                              *)
LEMMA WorkerStaysCurrent ==
  ASSUME Clean, Current,
         \/ Start(Worker) \/ Count(Worker) \/ Number(Worker) \/ Advances(Worker)
         \/ Conflict(Worker) \/ Deadlock(Worker)
  PROVE  Current'
<1>1. Worker \in Starters /\ Worker \in Clients /\ After(Worker) = "ready"
  BY DifferentClients DEF After
<1>2. CASE Start(Worker)
  <2>1. UNCHANGED <<table, published>>
    BY <1>2 DEF Start
  <2>2. Only(Worker) /\ Busy(Worker)
    BY <1>1, <1>2, StartKeeps
  <2>3. \/ clients'[Worker].at = "count" /\ Chosen(WorkerName) = None
        \/ clients'[Worker].at = "number" /\ Chosen(WorkerName) = "old"
        \/ clients'[Worker].at = "ready" /\ Chosen(WorkerName) \notin {None, "old"}
    BY <1>1, <1>2, StartKeeps
  <2>4. None # "old" /\ None # "builtin"
    BY DefinitionAssumption DEF Bodies
  <2>5. At(Worker, "number")' => Chosen(WorkerName) = "old"
    BY <2>3 DEF At
  <2>6. Beginning => (At(Worker, "number")' => EnabledOf(WorkerName) # {})
    BY <2>4, <2>5, BeginningChosen
  <2>7. clients'[Worker].at \notin Transacting
    BY <2>3 DEF Transacting
  <2>8. Settled => \/ Chosen(WorkerName) = "builtin"
                   \/ Versions # {} /\ Chosen(WorkerName) # "old"
    BY <1>2 DEF Settled, Start, At
  <2>9. Settled =>
          \/ clients'[Worker].at = "ready"
          \/ Chosen(WorkerName) = "builtin"
          \/ clients'[Worker].at = "count" /\ Versions # {} /\ Chosen(WorkerName) # "old"
    BY <2>3, <2>4, <2>8
  <2> QED
    BY <2>1, <2>2, <2>6, <2>7, <2>9, WorkerMoves
<1>3. CASE Count(Worker)
  <2>1. UNCHANGED <<table, published>> /\ At(Worker, "count")
    BY <1>3 DEF Count
  <2>2. Only(Worker) /\ Busy(Worker)
    BY <1>1, <1>3, CountKeeps
  <2>3. \/ clients'[Worker].at = "disable" /\ Versions = {}
        \/ clients'[Worker].at = "ready" /\ Versions # {}
    BY <1>1, <1>3, CountKeeps
  <2>4. ~At(Worker, "number")' /\ (clients'[Worker].at \in Transacting => Versions = {})
    BY <2>3 DEF At, Transacting
  <2>5. Settled => clients'[Worker].at = "ready" \/ Chosen(WorkerName) = "builtin"
    BY <2>1, <2>3 DEF Settled, At
  <2> QED
    BY <2>1, <2>2, <2>4, <2>5, WorkerMoves
<1>4. CASE Number(Worker)
  <2>1. UNCHANGED <<table, published>> /\ At(Worker, "number")
    BY <1>4 DEF Number
  <2>2. Only(Worker) /\ Busy(Worker) /\ clients'[Worker].at = "disable"
    BY <1>1, <1>4, NumberKeeps
  <2>3. Beginning => EnabledOf(WorkerName) # {}
    BY <2>1 DEF Beginning
  <2>4. Settled => Chosen(WorkerName) = "builtin"
    BY <2>1 DEF Settled, At
  <2> QED
    BY <2>1, <2>2, <2>3, <2>4, WorkerMoves
<1>5. CASE Advances(Worker)
  <2>1. Onward(Worker) /\ Busy(Worker)
    BY <1>1, <1>5, StarterGoesKeeps
  <2>2. UNCHANGED <<table, published>> /\ Only(Worker)
    BY <2>1 DEF Onward
  <2>3. clients[Worker].at \in Transacting /\ clients'[Worker].at # "number"
    BY <2>1 DEF Onward, Transacting
  <2>4. Beginning => EnabledOf(WorkerName) # {} \/ Versions = {}
    BY <2>3 DEF Beginning
  <2>5. Settled => Chosen(WorkerName) = "builtin"
    BY <2>3 DEF Settled, At, Transacting
  <2> QED
    BY <2>1, <2>2, <2>3, <2>4, <2>5, WorkerMoves DEF At
<1>6. CASE Conflict(Worker) \/ Deadlock(Worker)
  <2>1. UNCHANGED <<table, published>>
    BY <1>1, <1>6, RollsBack
  <2>2. /\ Only(Worker) /\ Busy(Worker) /\ clients'[Worker].at = "start"
        /\ clients[Worker].at \in Transacting
    BY <1>1, <1>6, StarterGivesUpKeeps
  <2>3. Settled => Chosen(WorkerName) = "builtin"
    BY <2>2 DEF Settled, At, Transacting
  <2>4. ~At(Worker, "number")' /\ clients'[Worker].at \notin Transacting
    BY <2>2 DEF At, Transacting
  <2> QED
    BY <2>1, <2>2, <2>3, <2>4, WorkerMoves
<1> QED
  BY <1>2, <1>3, <1>4, <1>5, <1>6

(* The worker commits before the API has looked, or it replaces what is     *)
(* chosen by the same.                                                      *)
LEMMA WorkerCommitsCurrent ==
  ASSUME Clean, Clean', Current, Commit(Worker)
  PROVE  Current'
<1>1. /\ Worker \in Starters /\ Server \in Starters /\ Server \in Clients /\ Worker # Server
      /\ After(Worker) = "ready" /\ WorkerName \in Names
  BY DifferentClients, DefinitionAssumption DEF After
<1>2. /\ Only(Worker) /\ Busy(Worker) /\ clients[Worker].at \in Transacting
      /\ clients'[Worker].at = "ready" /\ Chosen(WorkerName)' = "builtin"
      /\ \A i \in Rows' : table'[i].body = "builtin" \/ (i \in Rows /\ table'[i].body = table[i].body
                                                          /\ table'[i].worker = table[i].worker)
  BY <1>1, StarterCommitKeeps
<1>3. \A name \in Names \ {WorkerName} :
        /\ EnabledOf(name)' = EnabledOf(name)
        /\ \A i \in EnabledOf(name) : table'[i] = table[i]
  BY <1>1, StarterCommitKeeps
<1>4. UNCHANGED published /\ clients'[Server] = clients[Server]
  BY <1>1, <1>2 DEF Commit, Only
<1>5. /\ Starting' <=> Starting
      /\ At(Server, "publishAll")' <=> At(Server, "publishAll")
      /\ At(Server, "publish")' <=> At(Server, "publish")
      /\ NamesOf(Server)' = NamesOf(Server)
  BY <1>4 DEF Starting, At, NamesOf
<1>6. Owes(Server)' = Owes(Server)
  BY <1>1, <1>4, <1>5, SameOwes
<1>7. Starting' => Beginning'
  <2> SUFFICES ASSUME Starting
               PROVE  Beginning'
    BY <1>5
  <2>1. Beginning
    BY DEF Current
  <2>2. \A i \in Rows' : table'[i].worker = WorkerName => table'[i].body # "custom"
    BY <1>2, <2>1 DEF Beginning
  <2>3. ~At(Worker, "number")' /\ clients'[Worker].at \notin Transacting
    BY <1>2 DEF At, Transacting
  <2> QED
    BY <1>2, <2>2, <2>3 DEF Beginning
<1>8. Settled'
  BY <1>2 DEF Settled, At
<1>9. Starting' \/ At(Server, "publishAll")' => \A name \in Names : published'[name] = None
  BY <1>4, <1>5 DEF Current
<1>10. ASSUME ~Starting
       PROVE  \A name \in Names : Chosen(name)' = Chosen(name)
  <2>1. Settled
    BY <1>10 DEF Current
  <2>2. Chosen(WorkerName) = "builtin"
    BY <1>2, <2>1 DEF Settled, At, Transacting
  <2>3. ASSUME NEW name \in Names, name # WorkerName
        PROVE  Chosen(name)' = Chosen(name)
    BY <1>3, <2>3, ChosenStays DEF Clean, Types
  <2> QED
    BY <1>2, <2>2, <2>3
<1>11. ~Starting' /\ ~At(Server, "publishAll")' =>
         \A name \in Names : published'[name] = Chosen(name)' \/ name \in Owes(Server)'
  BY <1>1, <1>2, <1>4, <1>5, <1>6, <1>10, OnlyServerOwes
<1>12. At(Server, "publish")' =>
         \A n \in DOMAIN clients'[Server].seen : clients'[Server].seen[n] = Chosen(n)'
  <2> SUFFICES ASSUME At(Server, "publish"), NEW n \in DOMAIN clients[Server].seen
               PROVE  clients[Server].seen[n] = Chosen(n)'
    BY <1>4, <1>5
  <2>1. clients[Server].seen[n] = Chosen(n)
    BY <1>1 DEF Current
  <2>2. n \in Names
    BY <1>1, ClientIs, SeenIs DEF Clean, Types
  <2>3. ~Starting
    BY DEF Starting, At, Transacting
  <2> QED
    BY <1>10, <2>1, <2>2, <2>3
<1> QED
  BY <1>1, <1>2, <1>7, <1>8, <1>9, <1>11, <1>12, StarterCurrent

(* All that the processes do when they start.                               *)
LEMMA StartersStayCurrent ==
  ASSUME Clean, Clean', Current, NEW p \in Starters, failures' = 0, Proceeds(p) \/ Restart(p)
  PROVE  Current'
<1>1. p = Server \/ p = Worker
  BY ServerOrWorker
<1>2. ~Restart(p)
  BY DEF Restart, Clean, Types
<1>3. \/ Start(p) \/ Count(p) \/ Number(p) \/ Advances(p) \/ Commit(p)
      \/ Conflict(p) \/ Deadlock(p) \/ PublishAll(p) \/ Publish(p)
  BY <1>2, StarterProceeds
<1>4. CASE p = Server
  BY <1>3, <1>4, ServerStaysCurrent, ServerCommitsCurrent, ServerPublishesCurrent
<1>5. CASE p = Worker
  <2>1. ~PublishAll(Worker) /\ ~Publish(Worker)
    BY DifferentClients DEF PublishAll, Publish, Clean, Types, ClientsOK
  <2> QED
    BY <1>3, <1>5, <2>1, WorkerStaysCurrent, WorkerCommitsCurrent
<1> QED
  BY <1>1, <1>4, <1>5

(* At the start nothing is published.                                       *)
LEMMA InitCurrent ==
  ASSUME Init
  PROVE  Current
<1>1. /\ clients = [c \in Clients |-> Resting(IF c \in Starters THEN "start" ELSE "idle")]
      /\ published = [name \in Names |-> None]
  BY DEF Init
<1>2. Resting("start").at = "start" /\ Resting("idle").at = "idle"
  BY RestingIsClient DEF AdminSteps, StarterSteps
<1>3. clients[Server].at = "start" /\ clients[Worker].at = "start"
      /\ \A c \in Clients : clients[c].at \in {"start", "idle"}
  BY <1>1, <1>2, DifferentClients
<1>4. \A i \in Rows : table[i].worker = WorkerName => table[i].body # "custom"
  <2>1. CASE table = <<>>
    BY <2>1 DEF Rows
  <2>2. CASE \E e \in BOOLEAN :
               table = <<[worker |-> WorkerName, version |-> 1, enabled |-> e, body |-> "old"]>>
    BY <2>2 DEF Rows
  <2>3. CASE \E n \in Names \ {WorkerName} :
               table = <<[worker |-> WorkerName, version |-> 1, enabled |-> TRUE, body |-> "old"],
                         [worker |-> n, version |-> 1, enabled |-> TRUE, body |-> "custom"]>>
    BY <2>3 DEF Rows
  <2> QED
    BY <2>1, <2>2, <2>3 DEF Init
<1>5. Beginning
  BY <1>3, <1>4 DEF Beginning, At, Transacting
<1>6. Starting
  BY <1>3 DEF Starting
<1>7. \A c \in Clients : ~At(c, "publish")
  BY <1>3 DEF At
<1> QED
  BY <1>1, <1>5, <1>6, <1>7 DEF Current

(* Nothing happens.                                                         *)
LEMMA SameCurrent ==
  ASSUME Clean, Current, UNCHANGED vars
  PROVE  Current'
<1>1. UNCHANGED <<table, clients, published>>
  BY DEF vars
<1>2. /\ Starting' <=> Starting
      /\ Settled' <=> Settled
      /\ Beginning' <=> Beginning
  BY <1>1, SameTable, DefinitionAssumption DEF Starting, Settled, Beginning, At
<1>3. \A c \in Clients : /\ NamesOf(c)' = NamesOf(c) /\ (At(c, "publish")' <=> At(c, "publish"))
                         /\ (At(c, "sync")' <=> At(c, "sync"))
  BY <1>1 DEF NamesOf, At
<1>4. \A c \in Clients : Owes(c)' = Owes(c)
  BY <1>1, <1>3 DEF Owes
<1>5. \A name \in Names : Chosen(name)' = Chosen(name)
  BY <1>1, SameTable
<1>6. At(Server, "publishAll")' <=> At(Server, "publishAll")
  BY <1>1 DEF At
<1>7. ASSUME NEW c \in Clients, At(c, "publish")', NEW n \in DOMAIN clients'[c].seen
      PROVE  clients'[c].seen[n] = Chosen(n)'
  <2>1. n \in Names
    BY <1>1, <1>7, ClientIs, SeenIs DEF Clean, Types
  <2> QED
    BY <1>1, <1>3, <1>5, <1>7, <2>1 DEF Current
<1> QED
  BY <1>1, <1>2, <1>3, <1>4, <1>5, <1>6, <1>7 DEF Current

(* Failures are counted, and nothing else is.                               *)
LEMMA FailuresGrow ==
  ASSUME [Next]_vars
  PROVE  failures' = failures \/ failures' = failures + 1
<1>1. CASE UNCHANGED vars
  BY <1>1 DEF vars
<1>2. ASSUME NEW c \in Admins, Post(c) \/ Find(c) \/ Fails(c)
      PROVE  failures' = failures \/ failures' = failures + 1
  BY <1>2 DEF Post, Find, Fails
<1>3. ASSUME NEW p \in Starters, Restart(p)
      PROVE  failures' = failures + 1
  BY <1>3 DEF Restart
<1>4. ASSUME NEW c \in Clients, Proceeds(c)
      PROVE  failures' = failures
  <2>1. CASE Transaction(c)
    BY <2>1 DEF Transaction, Disable, Lock, Write, Conflict, Commit
  <2>2. CASE Put(c) \/ Delete(c) \/ Deadlock(c)
    BY <2>2 DEF Put, Delete, Deadlock
  <2>3. CASE Sync(c) \/ PublishAll(c) \/ Publish(c)
    BY <2>3 DEF Sync, PublishAll, Publish
  <2>4. CASE Start(c) \/ Count(c) \/ Number(c)
    BY <2>4 DEF Start, Count, Number
  <2> QED
    BY <1>4, <2>1, <2>2, <2>3, <2>4 DEF Proceeds
<1> QED
  BY <1>1, <1>2, <1>3, <1>4 DEF Next

(* The invariant of PublishedIsEnabled.                                     *)
LEMMA StaysCurrent == CleanOK /\ CleanOK' /\ CurrentOK /\ [Next]_vars => CurrentOK'
<1> SUFFICES ASSUME CleanOK, CleanOK', CurrentOK, [Next]_vars, ~overlapped', failures' = 0
             PROVE  Current'
  BY DEF CurrentOK
<1>1. Clean /\ Clean'
  BY OverlapStays DEF CleanOK
<1>2. Current
  <2>1. failures = 0
    <3>1. failures \in Nat
      BY <1>1 DEF Clean, Types
    <3>2. failures' = failures \/ failures' = failures + 1
      BY FailuresGrow
    <3> QED
      BY <3>1, <3>2
  <2> QED
    BY <2>1, OverlapStays DEF CurrentOK
<1>3. CASE UNCHANGED vars
  BY <1>1, <1>2, <1>3, SameCurrent
<1>4. ASSUME NEW c \in Admins, Post(c) \/ Find(c) \/ Fails(c)
      PROVE  Current'
  BY <1>1, <1>2, <1>4, RequestsStayCurrent
<1>5. ASSUME NEW c \in Clients, Proceeds(c)
      PROVE  Current'
  BY <1>1, <1>2, <1>5, RequestsStayCurrent, StartersStayCurrent, DifferentClients
<1>6. ASSUME NEW p \in Starters, Restart(p)
      PROVE  Current'
  BY <1>1, <1>2, <1>6, StartersStayCurrent
<1> QED
  BY <1>3, <1>4, <1>5, <1>6 DEF Next

(* It implies the property.                                                 *)
LEMMA CurrentIsPublished == CleanOK /\ CurrentOK => PublishedIsEnabled
<1> SUFFICES ASSUME Clean, Current, \A c \in Clients : ~Busy(c), NEW name \in Names
             PROVE  published[name] = Chosen(name)
  BY DEF CleanOK, CurrentOK, PublishedIsEnabled
<1>1. clients[Server].at = "ready"
  BY DifferentClients DEF Clean, Types, ClientsOK, Busy, StarterSteps, Transacting
<1>2. ~Starting /\ ~At(Server, "publishAll")
  BY <1>1 DEF Starting, At, Transacting
<1>3. \A c \in Clients : Owes(c) = {}
  BY OwesIs DEF Busy
<1> QED
  BY <1>2, <1>3 DEF Current

(* When all is at rest, the platform has what is enabled, as long as requests *)
(* do not overlap and nothing fails.                                        *)
THEOREM RestIsPublished == Spec => []PublishedIsEnabled
<1>1. Init => CleanOK /\ CurrentOK
  BY InitClean, InitCurrent DEF CleanOK, CurrentOK
<1> QED
  BY <1>1, StaysClean, StaysCurrent, CurrentIsPublished, PTL DEF Spec
=============================================================================
