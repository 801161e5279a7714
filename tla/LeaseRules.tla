----------------------------- MODULE LeaseRules -----------------------------
(***************************************************************************)
(* The pure rules of orchestration/leases.py: when two repository scopes   *)
(* overlap, which scopes a lease really holds, which leases are live and   *)
(* when a new lease may be granted.                                        *)
(*                                                                         *)
(* A scope is the sequence of its path segments after _normalize_scope.    *)
(* A segment is a one-character name given by its character code; a        *)
(* subtree scope ("a/b/**") ends in the segment Star, an exact scope       *)
(* ("a/b") does not.  On one-character names the lexicographic order of    *)
(* these sequences is the order in which Python sorts the scope strings.   *)
(***************************************************************************)
EXTENDS Naturals, Sequences, FiniteSets

Star == 42                  \* the code of '*': the terminal "/**"

IsSubtree(scope) == scope[Len(scope)] = Star

ScopePrefix(scope) ==
  IF IsSubtree(scope) THEN SubSeq(scope, 1, Len(scope) - 1) ELSE scope

PathsOverlap(left, right) ==
  LET l == ScopePrefix(left)
      r == ScopePrefix(right)
  IN  /\ \A i \in 1 .. Len(l) : i <= Len(r) => l[i] = r[i]
      /\ \/ Len(l) = Len(r)
         \/ Len(l) < Len(r) /\ IsSubtree(left)
         \/ Len(r) < Len(l) /\ IsSubtree(right)

SortsBefore(left, right) ==
  \/ /\ Len(left) < Len(right)
     /\ \A i \in 1 .. Len(left) : left[i] = right[i]
  \/ \E i \in 1 .. Len(left) :
        /\ i <= Len(right)
        /\ left[i] < right[i]
        /\ \A j \in 1 .. i - 1 : left[j] = right[j]

(***************************************************************************)
(* _canonical_scopes: in sorted order, a scope is dropped when a subtree   *)
(* scope that was kept before it overlaps it.                              *)
(***************************************************************************)
CanonicalScopes(paths) ==
  LET kept[s \in paths] ==
        ~ \E p \in paths : /\ SortsBefore(p, s)
                           /\ IsSubtree(p)
                           /\ PathsOverlap(p, s)
                           /\ kept[p]
  IN  {s \in paths : kept[s]}

-----------------------------------------------------------------------------
(***************************************************************************)
(* A lease is a record with at least the fields agent, scopes, access,     *)
(* shared and expires.                                                     *)
(***************************************************************************)
Live(leases, now) == {l \in leases : now < l.expires}

Owners(leases) == {l.agent : l \in leases}

ScopesOverlap(S, R) == \E s \in S, r \in R : PathsOverlap(s, r)

\* Mutant of Compatible: one reader is enough.
CompatibleReader(held, wanted) ==
  \/ held.agent = wanted.agent
  \/ held.access = "read" \/ wanted.access = "read"
  \/ held.shared /\ wanted.shared
  \/ ~ ScopesOverlap(wanted.scopes, held.scopes)

\* The three exemptions of acquire's conflict loop, then the overlap test.
Compatible(held, wanted) ==
  \/ held.agent = wanted.agent
  \/ held.access = "read" /\ wanted.access = "read"
  \/ held.shared /\ wanted.shared
  \/ ~ ScopesOverlap(wanted.scopes, held.scopes)

\* Mutant of HasCapacity: off by one.
HasCapacityAtLimit(leases, agent, workers) ==
  agent \in Owners(leases) \/ Cardinality(Owners(leases)) <= workers

HasCapacity(leases, agent, workers) ==
  agent \in Owners(leases) \/ Cardinality(Owners(leases)) < workers

Grantable(leases, wanted, workers) ==
  /\ HasCapacity(leases, wanted.agent, workers)
  /\ \A held \in leases : Compatible(held, wanted)
=============================================================================
