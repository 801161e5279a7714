---------------------------- MODULE MemoryLedger ----------------------------
(***************************************************************************)
(* The memory of one simulated agent (memory/store.py, retrieval.py,       *)
(* beliefs.py and integration.py) as a record of append-only logs and the  *)
(* operations on it.  A hash stands for the value it is taken of, and a    *)
(* memory's text, facts, salience and tags for its id.  The logs of        *)
(* accesses and reframes are sets: nothing reads the order of their        *)
(* entries, as an id's reframes are numbered one by one.                   *)
(***************************************************************************)
EXTENDS Integers, SequencesExt

CONSTANTS
  MemoryIds,      \* the candidates of all events; < is the order of their ids
  Partner,        \* those about the partner
  Interpreted,    \* those an interpretation comes with
  Retrievable,    \* those that retrieval may return
  Supporting,     \* those that support the relationship belief
  Contradicting,  \* those that contradict it
  Score(_, _, _), \* total score on a day of an episode with a given revision
  TopK            \* how many memories a retrieval returns at most

ASSUME MemoriesAssumption ==
  /\ MemoryIds \subseteq Nat
  /\ Partner \cup Interpreted \cup Retrievable \cup Supporting \cup Contradicting
       \subseteq MemoryIds
  /\ TopK \in Nat \ {0}

EmptyMemory ==
  [episodes |-> <<>>, reframes |-> {}, retrievals |-> <<>>, accesses |-> {},
   beliefs |-> <<[day |-> 0, supporting |-> {}, contradicting |-> {}]>>,
   blocked |-> {}]

StoredIds(memory) == {memory.episodes[i].id : i \in DOMAIN memory.episodes}

Belief(memory) == Last(memory.beliefs)

\* The revision of the interpretation that is in force, the one of the last
\* reframe; 0 when there is no interpretation.
RevisionAfter(reframes, id) ==
  IF id \notin Interpreted THEN 0
  ELSE Max({1} \cup {r.revision : r \in {x \in reframes : x.id = id}})

Revision(memory, id) == RevisionAfter(memory.reframes, id)

-----------------------------------------------------------------------------
(* Retrieval *)

Query(memory, day) == [day |-> day, blocked |-> memory.blocked]

Candidate(memory, query, episode) ==
  LET eligible == episode.id \in Retrievable \ query.blocked
  IN [id |-> episode.id,
      eligible |-> eligible,
      score |-> IF eligible
                THEN Score(query.day, episode, Revision(memory, episode.id))
                ELSE 0]

RanksBefore(a, b) ==
  \/ a.eligible /\ ~b.eligible
  \/ a.eligible = b.eligible /\ a.score > b.score
  \/ a.eligible = b.eligible /\ a.score = b.score /\ a.id < b.id

\* The eligible candidates that fewer than TopK others come before.
Best(candidates) ==
  LET eligible == {c \in candidates : c.eligible}
  IN {c \in eligible : Cardinality({d \in eligible : RanksBefore(d, c)}) < TopK}

\* The audit record of a retrieval: every candidate with all that decides the
\* order in which they are listed, and the ids of the best.
Rank(memory, query) ==
  LET candidates == {Candidate(memory, query, e) : e \in Range(memory.episodes)}
  IN [query |-> query,
      candidates |-> candidates,
      selected |-> {c.id : c \in Best(candidates)}]

\* The order of the candidates' ids, as the set of its pairs.
Order(candidates) ==
  {<<p[1].id, p[2].id>> :
     p \in {q \in candidates \X candidates : ~RanksBefore(q[2], q[1])}}

RetrievalId(retrieval) == <<retrieval.query, Order(retrieval.candidates)>>

\* Two different audit records under one id are refused.
RetrievalCollides(memory, retrieval) ==
  \E r \in Range(memory.retrievals) :
    RetrievalId(r) = RetrievalId(retrieval) /\ r # retrieval

\* One access per selected memory and retrieval, however often it is recorded.
Accesses(retrieval) ==
  {[retrieval |-> RetrievalId(retrieval), id |-> id] : id \in retrieval.selected}

CommitRetrieval(memory, retrieval) ==
  IF retrieval \in Range(memory.retrievals) THEN memory
  ELSE [memory EXCEPT !.retrievals = Append(@, retrieval),
                      !.accesses = @ \cup Accesses(retrieval)]

-----------------------------------------------------------------------------
(* Episodes, interpretations and beliefs *)

\* Different evidence under the id of a stored episode is refused.
EpisodeClashes(memory, episode) ==
  \E e \in Range(memory.episodes) : e.id = episode.id /\ e # episode

AppendEpisode(memory, episode) ==
  IF episode \in Range(memory.episodes) THEN memory
  ELSE [memory EXCEPT !.episodes = Append(@, episode)]

Block(memory, ids) == [memory EXCEPT !.blocked = ids]

Reframe(memory, ids) ==
  [memory EXCEPT !.reframes =
     @ \cup {[id |-> id, revision |-> Revision(memory, id) + 1] : id \in ids}]

\* The belief that cites the given memories as well.
UpdatedBelief(memory, day, ids) ==
  [day |-> day,
   supporting |-> Belief(memory).supporting \cup (ids \cap Supporting),
   contradicting |-> Belief(memory).contradicting \cup (ids \cap Contradicting)]

Consistent(belief) == belief.supporting \cap belief.contradicting = {}

UpdateBelief(memory, day, ids) ==
  IF \/ ids \cap (Supporting \cup Contradicting) = {}
     \/ UpdatedBelief(memory, day, ids) = Belief(memory)
  THEN memory
  ELSE [memory EXCEPT !.beliefs = Append(@, UpdatedBelief(memory, day, ids))]
=============================================================================
