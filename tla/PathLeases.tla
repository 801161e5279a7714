----------------------------- MODULE PathLeases -----------------------------
(***************************************************************************)
(* PathLeaseManager of orchestration/leases.py: the authority that grants, *)
(* renews, releases and expires leases over repository scopes.             *)
(*                                                                         *)
(* Nothing happens when a lease's time is up: the lease stays in the       *)
(* active set until the next call, and every call first drops the leases   *)
(* that have expired by then, whether or not it succeeds.                  *)
(***************************************************************************)
EXTENDS LeaseRules

CONSTANTS
  Requests,     \* calls of acquire: [task, agent, paths, access, shared, ttl]
  TaskIds,      \* task ids
  AgentIds,     \* agent ids
  Paths,        \* repository paths, as sequences of segments
  TTLs,         \* ttl_seconds that callers pass
  MaxWorkers,   \* max_workers
  MaxLeases,    \* bound: leases ever granted
  MaxTime       \* bound: the last instant of the clock

\* The caller of heartbeat or release did not name an agent.
Anyone == 0

ASSUME LeasesAssumption ==
  /\ \A q \in Requests :
       /\ q.task \in TaskIds /\ q.agent \in AgentIds
       /\ q.access \in {"read", "write"} /\ q.shared \in BOOLEAN
       /\ q.ttl \in TTLs
       /\ \A s \in q.paths : s \in Seq(Nat) /\ s # << >> /\ s # <<Star>>
  /\ Anyone \notin AgentIds
  /\ Paths \subseteq Seq(Nat)
  /\ TTLs \subseteq Nat \ {0}
  /\ MaxWorkers \in 1 .. 3
  /\ MaxLeases \in Nat
  /\ MaxTime \in Nat

VARIABLES
  leases,       \* self._leases; asked is the path argument of acquire
  sequence,     \* self._sequence
  now           \* the clock that callers pass as `at'

vars == <<leases, sequence, now>>

Init == leases = {} /\ sequence = 0 /\ now = 0

Active == Live(leases, now)

LeaseFor(q) ==
  [id |-> sequence + 1, task |-> q.task, agent |-> q.agent, asked |-> q.paths,
   scopes |-> CanonicalScopes(q.paths), access |-> q.access,
   shared |-> q.shared, expires |-> now + q.ttl]

Acquire(q) ==
  /\ sequence < MaxLeases
  /\ Grantable(Active, LeaseFor(q), MaxWorkers)
  /\ leases' = Active \cup {LeaseFor(q)}
  /\ sequence' = sequence + 1
  /\ UNCHANGED now

\* LeaseCapacityError or LeaseConflictError.
AcquireRefused(q) ==
  /\ ~ Grantable(Active, LeaseFor(q), MaxWorkers)
  /\ leases' = Active
  /\ UNCHANGED <<sequence, now>>

Owns(caller, l) == caller \in {Anyone, l.agent}

\* Mutant of Heartbeat: the lease is looked up before stale ones are dropped.
HeartbeatStale(id, caller, ttl) ==
  /\ \E l \in leases :
       /\ l.id = id /\ Owns(caller, l)
       /\ leases' = (leases \ {l}) \cup {[l EXCEPT !.expires = now + ttl]}
  /\ UNCHANGED <<sequence, now>>

Heartbeat(id, caller, ttl) ==
  /\ \E l \in Active :
       /\ l.id = id /\ Owns(caller, l)
       /\ leases' = (Active \ {l}) \cup {[l EXCEPT !.expires = now + ttl]}
  /\ UNCHANGED <<sequence, now>>

\* LeaseNotFoundError or LeaseOwnershipError.
HeartbeatRefused(id, caller) ==
  /\ ~ \E l \in Active : l.id = id /\ Owns(caller, l)
  /\ leases' = Active
  /\ UNCHANGED <<sequence, now>>

\* A lease is released by its id, or with all others of its task.
ById(id) == {l \in Active : l.id = id}

ByTask(task) == {l \in Active : l.task = task}

Release(matches, caller) ==
  /\ matches # {} /\ \A l \in matches : Owns(caller, l)
  /\ leases' = Active \ matches
  /\ UNCHANGED <<sequence, now>>

ReleaseRefused(matches, caller) ==
  /\ matches = {} \/ \E l \in matches : ~ Owns(caller, l)
  /\ leases' = Active
  /\ UNCHANGED <<sequence, now>>

\* expire, active_leases, active_worker_count.
Expire ==
  /\ leases' = Active
  /\ UNCHANGED <<sequence, now>>

Tick ==
  /\ now < MaxTime
  /\ now' = now + 1
  /\ UNCHANGED <<leases, sequence>>

Callers == AgentIds \cup {Anyone}

ReleaseCall(matches, caller) ==
  Release(matches, caller) \/ ReleaseRefused(matches, caller)

Next ==
  \/ \E q \in Requests : Acquire(q) \/ AcquireRefused(q)
  \/ \E id \in 1 .. MaxLeases, caller \in Callers :
       \/ \E ttl \in TTLs : Heartbeat(id, caller, ttl)
       \/ HeartbeatRefused(id, caller)
       \/ ReleaseCall(ById(id), caller)
  \/ \E task \in TaskIds, caller \in Callers : ReleaseCall(ByTask(task), caller)
  \/ Expire
  \/ Tick

Spec == Init /\ [][Next]_vars

-----------------------------------------------------------------------------
(***************************************************************************)
(* Properties.                                                             *)
(***************************************************************************)

\* Leases are well formed and counted.
Lease ==
  [id: Nat, task: TaskIds, agent: AgentIds, asked: SUBSET Seq(Nat),
   scopes: SUBSET (Seq(Nat) \ {<< >>}), access: {"read", "write"},
   shared: BOOLEAN, expires: Nat]

TypeOK ==
  /\ sequence \in Nat /\ now \in Nat
  /\ leases \subseteq Lease
  /\ \A l \in leases : l.id \in 1 .. sequence

(***************************************************************************)
(* A scope covers a repository path: the path itself, or any path at or    *)
(* below the prefix of a subtree scope.                                    *)
(***************************************************************************)
Covers(scope, path) ==
  LET p == ScopePrefix(scope) IN
  /\ Len(p) <= Len(path)
  /\ \A i \in 1 .. Len(p) : p[i] = path[i]
  /\ Len(p) = Len(path) \/ IsSubtree(scope)

LeaseCovers(l, path) == \E s \in l.scopes : Covers(s, path)

(***************************************************************************)
(* No path is ever under the live leases of two agents, unless both only   *)
(* read or both integrate: the conflict loop of acquire compares scopes    *)
(* pairwise, never paths, and expiry, renewal and release come in any      *)
(* order between two calls.                                                *)
(***************************************************************************)
PathsExclusive ==
  \A l, m \in Active, path \in Paths :
     LeaseCovers(l, path) /\ LeaseCovers(m, path) =>
        \/ l.agent = m.agent
        \/ l.access = "read" /\ m.access = "read"
        \/ l.shared /\ m.shared

(***************************************************************************)
(* At no instant do more than max_workers agents hold live leases.         *)
(***************************************************************************)
WorkersBounded == Cardinality(Owners(Active)) <= MaxWorkers

(***************************************************************************)
(* A lease that expired is lost for good: no later heartbeat revives it,   *)
(* however late the manager notices (heartbeat expires before it looks).   *)
(***************************************************************************)
ExpiredStaysExpired ==
  [][\A l \in leases' : l.id <= sequence =>
       \E m \in Active : m.id = l.id]_leases

(***************************************************************************)
(* What acquire promises of a lease: "A parent subtree already covers      *)
(* nested scopes; dropping them", so that the scopes held still cover all  *)
(* that were requested.                                                    *)
(***************************************************************************)
CoversScope(held, scope) ==
  /\ Covers(held, ScopePrefix(scope))
  /\ IsSubtree(scope) => IsSubtree(held)

ScopesCoverRequest ==
  \A l \in leases : \A s \in l.asked : \E h \in l.scopes : CoversScope(h, s)
=============================================================================
