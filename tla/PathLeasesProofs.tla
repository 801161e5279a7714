-------------------------- MODULE PathLeasesProofs --------------------------
(***************************************************************************)
(* Theorems about the lease manager, for any set of callers, scopes and    *)
(* paths and any timing.                                                   *)
(***************************************************************************)
EXTENDS PathLeases, TLAPS, FiniteSetTheorems

-----------------------------------------------------------------------------
(***************************************************************************)
(* Overlap of scopes against the paths they cover.                         *)
(***************************************************************************)
IsScope(s) == s \in Seq(Nat) /\ s # << >>

\* The prefix of a scope is a sequence.
LEMMA PrefixType ==
  ASSUME NEW s, IsScope(s)
  PROVE  ScopePrefix(s) \in Seq(Nat) /\ Len(ScopePrefix(s)) \in Nat
BY DEF IsScope, ScopePrefix

\* paths_overlap does not depend on the order of its arguments.
LEMMA OverlapSymmetric ==
  ASSUME NEW s, NEW r, IsScope(s), IsScope(r), PathsOverlap(s, r)
  PROVE  PathsOverlap(r, s)
<1>. DEFINE l == ScopePrefix(s)
            k == ScopePrefix(r)
<1>1. Len(l) \in Nat /\ Len(k) \in Nat
  BY PrefixType
<1>2. /\ \A i \in 1 .. Len(l) : i <= Len(k) => l[i] = k[i]
      /\ \/ Len(l) = Len(k)
         \/ Len(l) < Len(k) /\ IsSubtree(s)
         \/ Len(k) < Len(l) /\ IsSubtree(r)
  BY DEF PathsOverlap
<1>3. \A i \in 1 .. Len(k) : i <= Len(l) => k[i] = l[i]
  BY <1>1, <1>2
<1>. QED BY <1>2, <1>3 DEF PathsOverlap

\* Two scopes that cover the same path overlap.
LEMMA CommonPathOverlaps ==
  ASSUME NEW s, NEW r, NEW path \in Seq(Nat), IsScope(s), IsScope(r),
         Covers(s, path), Covers(r, path)
  PROVE  PathsOverlap(s, r)
<1>. DEFINE l == ScopePrefix(s)
            k == ScopePrefix(r)
<1>1. Len(l) \in Nat /\ Len(k) \in Nat /\ Len(path) \in Nat
  BY PrefixType
<1>2. /\ Len(l) <= Len(path) /\ Len(k) <= Len(path)
      /\ \A i \in 1 .. Len(l) : l[i] = path[i]
      /\ \A i \in 1 .. Len(k) : k[i] = path[i]
      /\ Len(l) = Len(path) \/ IsSubtree(s)
      /\ Len(k) = Len(path) \/ IsSubtree(r)
  BY DEF Covers
<1>3. \A i \in 1 .. Len(l) : i <= Len(k) => l[i] = k[i]
  BY <1>1, <1>2
<1>4. \/ Len(l) = Len(k)
      \/ Len(l) < Len(k) /\ IsSubtree(s)
      \/ Len(k) < Len(l) /\ IsSubtree(r)
  BY <1>1, <1>2
<1>. QED BY <1>3, <1>4 DEF PathsOverlap

\* The scopes of a lease are among those it was asked for.
LEMMA CanonicalAreAsked ==
  ASSUME NEW paths
  PROVE  CanonicalScopes(paths) \subseteq paths
BY DEF CanonicalScopes

-----------------------------------------------------------------------------
(***************************************************************************)
(* The inductive invariant: the live leases are pairwise compatible.       *)
(***************************************************************************)
PairwiseCompatible == \A l, m \in Active : Compatible(l, m)

LeasesInv ==
  /\ TypeOK /\ PairwiseCompatible
  /\ IsFiniteSet(leases) /\ WorkersBounded

\* Compatibility of two well-formed leases is symmetric.
LEMMA CompatibleSymmetric ==
  ASSUME NEW l, NEW m, Compatible(l, m),
         \A s \in l.scopes : IsScope(s), \A s \in m.scopes : IsScope(s)
  PROVE  Compatible(m, l)
BY OverlapSymmetric DEF Compatible, ScopesOverlap

\* The lease a request asks for is well formed.
LEMMA LeaseForType ==
  ASSUME TypeOK, NEW q \in Requests
  PROVE  LeaseFor(q) \in Lease /\ LeaseFor(q).id = sequence + 1
<1>1. /\ q.task \in TaskIds /\ q.agent \in AgentIds /\ q.access \in {"read", "write"}
      /\ q.shared \in BOOLEAN
  BY LeasesAssumption
<1>2. /\ q.paths \in SUBSET Seq(Nat)
      /\ CanonicalScopes(q.paths) \in SUBSET (Seq(Nat) \ {<< >>})
  BY CanonicalAreAsked, LeasesAssumption
<1>3. sequence + 1 \in Nat /\ now + q.ttl \in Nat
  <2>1. q.ttl \in Nat
    BY LeasesAssumption
  <2>. QED BY <2>1 DEF TypeOK
<1>. QED BY <1>1, <1>2, <1>3 DEF LeaseFor, Lease

\* The scopes of a well-formed lease are scopes.
LEMMA LeaseScopes ==
  ASSUME NEW l \in Lease
  PROVE  \A s \in l.scopes : IsScope(s)
BY DEF Lease, IsScope

\* A renewed lease differs in its expiry only.
LEMMA RenewedLease ==
  ASSUME NEW l \in Lease, NEW e \in Nat
  PROVE  LET r == [l EXCEPT !.expires = e] IN
         /\ r \in Lease
         /\ r.id = l.id /\ r.agent = l.agent /\ r.scopes = l.scopes
         /\ r.access = l.access /\ r.shared = l.shared /\ r.expires = e
BY DEF Lease

\* Every step keeps some live leases, and renews or grants at most one.
Keeps(S) == S \subseteq Active /\ leases' = S /\ UNCHANGED <<sequence, now>>

Renews(l, ttl) ==
  /\ l \in Active
  /\ leases' = (Active \ {l}) \cup {[l EXCEPT !.expires = now + ttl]}
  /\ UNCHANGED <<sequence, now>>

\* The ways a step changes the leases.
LEMMA StepCases ==
  ASSUME [Next]_vars
  PROVE  \/ \E q \in Requests : Acquire(q)
         \/ \E l, ttl : ttl \in TTLs /\ Renews(l, ttl)
         \/ \E S : Keeps(S)
         \/ Tick
         \/ UNCHANGED vars
<1>1. ASSUME NEW q \in Requests, AcquireRefused(q)
      PROVE  Keeps(Active)
  BY <1>1 DEF AcquireRefused, Keeps
<1>2. ASSUME NEW id \in 1 .. MaxLeases, NEW caller \in Callers, NEW ttl \in TTLs,
             Heartbeat(id, caller, ttl)
      PROVE  \E l : Renews(l, ttl)
  BY <1>2 DEF Heartbeat, Renews
<1>3. ASSUME NEW id \in 1 .. MaxLeases, NEW caller \in Callers,
             HeartbeatRefused(id, caller)
      PROVE  Keeps(Active)
  BY <1>3 DEF HeartbeatRefused, Keeps
<1>4. ASSUME NEW matches, NEW caller, ReleaseCall(matches, caller)
      PROVE  \E S : Keeps(S)
  <2>1. CASE Release(matches, caller)
    <3>1. Keeps(Active \ matches)
      BY <2>1 DEF Release, Keeps
    <3>. QED BY <3>1
  <2>2. CASE ReleaseRefused(matches, caller)
    <3>1. Keeps(Active)
      BY <2>2 DEF ReleaseRefused, Keeps
    <3>. QED BY <3>1
  <2>. QED BY <1>4, <2>1, <2>2 DEF ReleaseCall
<1>5. CASE Expire
  <2>1. Keeps(Active)
    BY <1>5 DEF Expire, Keeps
  <2>. QED BY <2>1
<1>. QED BY <1>1, <1>2, <1>3, <1>4, <1>5 DEF Next

\* Leases are well formed and counted in every state.
LEMMA TypeStep == TypeOK /\ [Next]_vars => TypeOK'
<1>. SUFFICES ASSUME TypeOK, [Next]_vars
              PROVE  TypeOK'
  OBVIOUS
<1>0. Active \subseteq leases
  BY DEF Active, Live
<1>1. ASSUME NEW q \in Requests, Acquire(q)
      PROVE  TypeOK'
  <2>1. leases' = Active \cup {LeaseFor(q)} /\ sequence' = sequence + 1 /\ now' = now
    BY <1>1 DEF Acquire
  <2>2. \A l \in leases : l.id \in 1 .. sequence'
    BY <2>1 DEF TypeOK
  <2>3. LeaseFor(q) \in Lease /\ LeaseFor(q).id \in 1 .. sequence'
    BY <2>1, LeaseForType DEF TypeOK
  <2>4. sequence' \in Nat /\ now' \in Nat
    BY <2>1 DEF TypeOK
  <2>. QED BY <1>0, <2>1, <2>2, <2>3, <2>4 DEF TypeOK
<1>2. ASSUME NEW l, NEW ttl \in TTLs, Renews(l, ttl)
      PROVE  TypeOK'
  <2>. DEFINE r == [l EXCEPT !.expires = now + ttl]
  <2>1. leases' = (Active \ {l}) \cup {r} /\ sequence' = sequence /\ now' = now /\ l \in leases
    BY <1>0, <1>2 DEF Renews
  <2>2. l \in Lease /\ now + ttl \in Nat
    BY <2>1, LeasesAssumption DEF TypeOK
  <2>3. r \in Lease /\ r.id = l.id
    BY <2>2, RenewedLease
  <2>. HIDE DEF r
  <2>. QED BY <1>0, <2>1, <2>3 DEF TypeOK
<1>3. ASSUME NEW S, Keeps(S)
      PROVE  TypeOK'
  BY <1>0, <1>3 DEF Keeps, TypeOK
<1>4. CASE Tick
  <2>1. now' \in Nat /\ leases' = leases /\ sequence' = sequence
    BY <1>4 DEF Tick, TypeOK
  <2>. QED BY <2>1 DEF TypeOK
<1>5. CASE UNCHANGED vars
  BY <1>5 DEF vars, TypeOK
<1>. QED BY <1>1, <1>2, <1>3, <1>4, <1>5, StepCases

\* The live leases stay pairwise compatible.
LEMMA CompatibleStep ==
  ASSUME LeasesInv, [Next]_vars
  PROVE  PairwiseCompatible'
<1>0. /\ Active \subseteq leases /\ leases \subseteq Lease /\ now \in Nat
      /\ Active' = {l \in leases' : now' < l.expires}
      /\ PairwiseCompatible
  BY DEF Active, Live, LeasesInv, TypeOK
<1>1. ASSUME NEW q \in Requests, Acquire(q)
      PROVE  PairwiseCompatible'
  <2>. DEFINE w == LeaseFor(q)
  <2>1. /\ leases' = Active \cup {w}
        /\ \A held \in Active : Compatible(held, w)
    BY <1>1 DEF Acquire, Grantable
  <2>2. w \in Lease
    BY LeaseForType DEF LeasesInv
  <2>. HIDE DEF w
  <2>3. ASSUME NEW l \in Active \cup {w}, NEW m \in Active \cup {w}
        PROVE  Compatible(l, m)
    <3>1. CASE l \in Active /\ m \in Active
      BY <1>0, <3>1 DEF PairwiseCompatible
    <3>2. CASE l \in Active /\ m = w
      BY <2>1, <3>2
    <3>3. CASE l = w /\ m \in Active
      <4>1. m \in Lease
        BY <1>0, <3>3
      <4>. QED BY <2>1, <2>2, <3>3, <4>1, LeaseScopes, CompatibleSymmetric
    <3>4. CASE l = w /\ m = w
      BY <3>4 DEF Compatible
    <3>. QED BY <3>1, <3>2, <3>3, <3>4
  <2>. QED BY <1>0, <2>1, <2>3 DEF PairwiseCompatible
<1>2. ASSUME NEW l, NEW ttl \in TTLs, Renews(l, ttl)
      PROVE  PairwiseCompatible'
  <2>. DEFINE r == [l EXCEPT !.expires = now + ttl]
  <2>1. leases' = (Active \ {l}) \cup {r} /\ l \in Active
    BY <1>2 DEF Renews
  <2>2. l \in Lease /\ now + ttl \in Nat
    BY <1>0, <2>1, LeasesAssumption
  <2>3. /\ r.agent = l.agent /\ r.scopes = l.scopes
        /\ r.access = l.access /\ r.shared = l.shared
    BY <2>2, RenewedLease
  <2>. HIDE DEF r
  <2>4. ASSUME NEW j \in leases', NEW k \in leases'
        PROVE  Compatible(j, k)
    <3>. DEFINE Old(x) == IF x = r THEN l ELSE x
    <3>1. Old(j) \in Active /\ Old(k) \in Active
      BY <2>1
    <3>2. Compatible(Old(j), Old(k))
      BY <1>0, <3>1 DEF PairwiseCompatible
    <3>. QED BY <2>3, <3>2 DEF Compatible
  <2>. QED BY <1>0, <2>4 DEF PairwiseCompatible
<1>3. ASSUME NEW S, Keeps(S)
      PROVE  PairwiseCompatible'
  BY <1>0, <1>3 DEF Keeps, PairwiseCompatible
<1>4. CASE Tick
  <2>1. Active' \subseteq Active
    BY <1>0, <1>4 DEF Tick, Lease, Active, Live
  <2>. QED BY <1>0, <2>1 DEF PairwiseCompatible
<1>5. CASE UNCHANGED vars
  <2>1. Active' = Active
    BY <1>5 DEF vars, Active, Live
  <2>. QED BY <1>0, <2>1 DEF PairwiseCompatible
<1>. QED BY <1>1, <1>2, <1>3, <1>4, <1>5, StepCases

\* The number of agents with live leases stays bounded.
LEMMA BoundedStep ==
  ASSUME LeasesInv, [Next]_vars
  PROVE  IsFiniteSet(leases)' /\ WorkersBounded'
<1>0. /\ Active \subseteq leases /\ leases \subseteq Lease /\ now \in Nat
      /\ IsFiniteSet(leases) /\ Cardinality(Owners(Active)) <= MaxWorkers
      /\ MaxWorkers \in Nat
      /\ Active' \subseteq leases'
  BY LeasesAssumption DEF Active, Live, LeasesInv, TypeOK, WorkersBounded
<1>1. IsFiniteSet(Active) /\ IsFiniteSet(Owners(Active))
  <2>1. IsFiniteSet(Active)
    BY <1>0, FS_Subset
  <2>2. [l \in Active |-> l.agent] \in Surjection(Active, Owners(Active))
    BY DEF Surjection, Owners
  <2>. QED BY <2>1, <2>2, FS_Surjection
<1>2. ASSUME IsFiniteSet(leases'), IsFiniteSet(Owners(leases')),
             Cardinality(Owners(leases')) <= MaxWorkers
      PROVE  IsFiniteSet(leases)' /\ WorkersBounded'
  <2>1. Owners(Active') \subseteq Owners(leases')
    BY <1>0 DEF Owners
  <2>2. /\ Cardinality(Owners(Active')) <= Cardinality(Owners(leases'))
        /\ IsFiniteSet(Owners(Active'))
    BY <1>2, <2>1, FS_Subset
  <2>3. Cardinality(Owners(Active')) \in Nat /\ Cardinality(Owners(leases')) \in Nat
    BY <1>2, <2>2, FS_CardinalityType
  <2>4. Cardinality(Owners(Active')) <= MaxWorkers
    BY <1>0, <1>2, <2>2, <2>3
  <2>. QED BY <1>2, <2>4 DEF WorkersBounded, Owners
<1>3. ASSUME NEW q \in Requests, Acquire(q)
      PROVE  IsFiniteSet(leases)' /\ WorkersBounded'
  <2>. DEFINE w == LeaseFor(q)
  <2>1. leases' = Active \cup {w} /\ HasCapacity(Active, w.agent, MaxWorkers)
    BY <1>3 DEF Acquire, Grantable
  <2>. HIDE DEF w
  <2>2. IsFiniteSet(leases')
    BY <1>1, <2>1, FS_AddElement
  <2>3. Owners(leases') = Owners(Active) \cup {w.agent}
    BY <2>1 DEF Owners
  <2>4. CASE w.agent \in Owners(Active)
    <3>1. Owners(leases') = Owners(Active)
      BY <2>3, <2>4
    <3>. QED BY <1>0, <1>1, <1>2, <2>2, <3>1
  <2>5. CASE w.agent \notin Owners(Active)
    <3>1. Cardinality(Owners(Active)) < MaxWorkers
      BY <2>1, <2>5 DEF HasCapacity
    <3>2. /\ IsFiniteSet(Owners(leases'))
          /\ Cardinality(Owners(leases')) = Cardinality(Owners(Active)) + 1
      BY <1>1, <2>3, <2>5, FS_AddElement
    <3>3. Cardinality(Owners(Active)) \in Nat
      BY <1>1, FS_CardinalityType
    <3>4. Cardinality(Owners(leases')) <= MaxWorkers
      BY <1>0, <3>1, <3>2, <3>3
    <3>. QED BY <1>2, <2>2, <3>2, <3>4
  <2>. QED BY <2>4, <2>5
<1>4. ASSUME NEW l, NEW ttl \in TTLs, Renews(l, ttl)
      PROVE  IsFiniteSet(leases)' /\ WorkersBounded'
  <2>. DEFINE r == [l EXCEPT !.expires = now + ttl]
  <2>1. leases' = (Active \ {l}) \cup {r} /\ l \in Active
    BY <1>4 DEF Renews
  <2>2. l \in Lease /\ now + ttl \in Nat
    BY <1>0, <2>1, LeasesAssumption
  <2>3. r.agent = l.agent
    BY <2>2, RenewedLease
  <2>. HIDE DEF r
  <2>4. Owners(leases') = Owners(Active)
    BY <2>1, <2>3 DEF Owners
  <2>5. IsFiniteSet(Active \ {l})
    BY <1>1, FS_Subset
  <2>6. IsFiniteSet(leases')
    BY <2>1, <2>5, FS_AddElement
  <2>. QED BY <1>0, <1>1, <1>2, <2>4, <2>6
<1>5. ASSUME NEW S, Keeps(S)
      PROVE  IsFiniteSet(leases)' /\ WorkersBounded'
  <2>1. leases' \subseteq Active
    BY <1>5 DEF Keeps
  <2>2. IsFiniteSet(leases')
    BY <1>1, <2>1, FS_Subset
  <2>3. Owners(leases') \subseteq Owners(Active)
    BY <2>1 DEF Owners
  <2>4. /\ IsFiniteSet(Owners(leases'))
        /\ Cardinality(Owners(leases')) <= Cardinality(Owners(Active))
    BY <1>1, <2>3, FS_Subset
  <2>5. Cardinality(Owners(leases')) \in Nat /\ Cardinality(Owners(Active)) \in Nat
    BY <1>1, <2>4, FS_CardinalityType
  <2>6. Cardinality(Owners(leases')) <= MaxWorkers
    BY <1>0, <2>4, <2>5
  <2>. QED BY <1>2, <2>2, <2>4, <2>6
<1>6. CASE Tick \/ UNCHANGED vars
  <2>1. leases' = leases /\ Active' \subseteq Active
    BY <1>0, <1>6 DEF Tick, vars, Lease, Active, Live
  <2>2. Owners(Active') \subseteq Owners(Active)
    BY <2>1 DEF Owners
  <2>3. /\ IsFiniteSet(Owners(Active'))
        /\ Cardinality(Owners(Active')) <= Cardinality(Owners(Active))
    BY <1>1, <2>2, FS_Subset
  <2>4. Cardinality(Owners(Active')) \in Nat /\ Cardinality(Owners(Active)) \in Nat
    BY <1>1, <2>3, FS_CardinalityType
  <2>5. Cardinality(Owners(Active')) <= MaxWorkers
    BY <1>0, <2>3, <2>4
  <2>. QED BY <1>0, <2>1, <2>5 DEF WorkersBounded, Owners
<1>. QED BY <1>3, <1>4, <1>5, <1>6, StepCases

-----------------------------------------------------------------------------
(***************************************************************************)
(* The theorems.                                                           *)
(***************************************************************************)
LEMMA InitInv == Init => LeasesInv
<1>. SUFFICES ASSUME Init
              PROVE  LeasesInv
  OBVIOUS
<1>1. Active = {} /\ leases = {}
  BY DEF Init, Active, Live
<1>2. Owners(Active) = {}
  BY <1>1 DEF Owners
<1>3. Cardinality(Owners(Active)) <= MaxWorkers
  BY <1>2, FS_EmptySet, LeasesAssumption
<1>. QED BY <1>1, <1>3, FS_EmptySet DEF Init, LeasesInv, TypeOK, PairwiseCompatible,
            WorkersBounded

\* Every step keeps the invariant.
LEMMA NextInv == LeasesInv /\ [Next]_vars => LeasesInv'
BY TypeStep, CompatibleStep, BoundedStep DEF LeasesInv

(***************************************************************************)
(* Leases are well formed and counted.                                     *)
(***************************************************************************)
THEOREM LeaseTypes == Spec => []TypeOK
<1>1. LeasesInv => TypeOK
  BY DEF LeasesInv
<1>. QED BY <1>1, InitInv, NextInv, PTL DEF Spec

(***************************************************************************)
(* Pairwise compatible scopes exclude each other path by path.             *)
(***************************************************************************)
THEOREM Exclusion == Spec => []PathsExclusive
<1>1. LeasesInv => PathsExclusive
  <2>. SUFFICES ASSUME LeasesInv, NEW l \in Active, NEW m \in Active, NEW path \in Paths,
                       LeaseCovers(l, path), LeaseCovers(m, path)
                PROVE  \/ l.agent = m.agent
                       \/ l.access = "read" /\ m.access = "read"
                       \/ l.shared /\ m.shared
    BY DEF PathsExclusive
  <2>1. l \in Lease /\ m \in Lease /\ path \in Seq(Nat)
    BY LeasesAssumption DEF LeasesInv, TypeOK, Active, Live
  <2>2. PICK s \in l.scopes, r \in m.scopes : Covers(s, path) /\ Covers(r, path)
    BY DEF LeaseCovers
  <2>3. PathsOverlap(r, s)
    BY <2>1, <2>2, LeaseScopes, CommonPathOverlaps
  <2>4. ScopesOverlap(m.scopes, l.scopes)
    BY <2>2, <2>3 DEF ScopesOverlap
  <2>. QED BY <2>4 DEF LeasesInv, PairwiseCompatible, Compatible
<1>. QED BY <1>1, InitInv, NextInv, PTL DEF Spec

(***************************************************************************)
(* At most max_workers agents hold live leases.                            *)
(***************************************************************************)
THEOREM BoundedWorkers == Spec => []WorkersBounded
<1>1. LeasesInv => WorkersBounded
  BY DEF LeasesInv
<1>. QED BY <1>1, InitInv, NextInv, PTL DEF Spec

(***************************************************************************)
(* No call brings an expired lease back.                                   *)
(***************************************************************************)
THEOREM NoRevival == Spec => ExpiredStaysExpired
<1>1. ASSUME LeasesInv, [Next]_vars
      PROVE  [\A l \in leases' : l.id <= sequence =>
                \E m \in Active : m.id = l.id]_leases
  <2>1. ASSUME NEW q \in Requests, Acquire(q), NEW l \in leases', l.id <= sequence
        PROVE  \E m \in Active : m.id = l.id
    <3>1. leases' = Active \cup {LeaseFor(q)} /\ LeaseFor(q).id = sequence + 1
      BY <1>1, <2>1, LeaseForType DEF Acquire, LeasesInv
    <3>2. ~ (sequence + 1 <= sequence)
      BY <1>1 DEF LeasesInv, TypeOK
    <3>. QED BY <2>1, <3>1, <3>2
  <2>2. ASSUME NEW k, NEW ttl \in TTLs, Renews(k, ttl), NEW l \in leases'
        PROVE  \E m \in Active : m.id = l.id
    <3>. DEFINE r == [k EXCEPT !.expires = now + ttl]
    <3>1. leases' = (Active \ {k}) \cup {r} /\ k \in Active
      BY <2>2 DEF Renews
    <3>2. k \in Lease /\ now + ttl \in Nat
      BY <1>1, <3>1, LeasesAssumption DEF LeasesInv, TypeOK, Active, Live
    <3>3. r.id = k.id
      BY <3>2, RenewedLease
    <3>. HIDE DEF r
    <3>. QED BY <3>1, <3>3
  <2>3. ASSUME NEW S, Keeps(S), NEW l \in leases'
        PROVE  \E m \in Active : m.id = l.id
    BY <2>3 DEF Keeps
  <2>4. CASE Tick \/ UNCHANGED vars
    BY <2>4 DEF Tick, vars
  <2>. QED BY <1>1, <2>1, <2>2, <2>3, <2>4, StepCases
<1>. QED BY <1>1, InitInv, NextInv, PTL DEF Spec, ExpiredStaysExpired
=============================================================================
