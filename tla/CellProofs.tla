----------------------------- MODULE CellProofs -----------------------------
(***************************************************************************)
(* Proofs about Cell, for all values of its constants.                     *)
(***************************************************************************)
EXTENDS Cell, DataFacts

(***************************************************************************)
(* Sequences.                                                              *)
(***************************************************************************)
LEMMA SeqOfItsRange ==
  ASSUME NEW S, NEW s \in Seq(S)
  PROVE  IsSeq(s)
<1>1. Len(s) \in Nat /\ s \in [1..Len(s) -> S]
  OBVIOUS
<1>2. \A i \in 1..Len(s) : s[i] \in Range(s)
  <2>1. DOMAIN s = 1..Len(s)
    BY <1>1
  <2> QED BY <2>1 DEF Range
<1>3. s = [i \in 1..Len(s) |-> s[i]]
  BY <1>1
<1>4. s \in [1..Len(s) -> Range(s)]
  BY <1>2, <1>3
<1>5. \A T : \A n \in Nat : [1..n -> T] \subseteq Seq(T)
  OBVIOUS
<1> QED BY <1>1, <1>4, <1>5 DEF IsSeq

\* The length and the domain of a sequence.
LEMMA SequenceFacts ==
  ASSUME NEW s, IsSeq(s)
  PROVE  /\ Len(s) \in Nat
         /\ DOMAIN s = 1..Len(s)
         /\ (s = <<>>) = (Len(s) = 0)
BY DEF IsSeq

\* The empty sequence is one.
LEMMA EmptyFacts == IsSeq(<<>>) /\ Len(<<>>) = 0 /\ DOMAIN <<>> = {}
BY DEF IsSeq

\* What appending an element gives.
LEMMA AppendFacts ==
  ASSUME NEW s, IsSeq(s), NEW x
  PROVE  /\ IsSeq(Append(s, x))
         /\ Len(Append(s, x)) = Len(s) + 1
         /\ Append(s, x) # <<>>
         /\ DOMAIN Append(s, x) = 1..(Len(s) + 1)
         /\ Append(s, x)[Len(s) + 1] = x
         /\ Last(Append(s, x)) = x
         /\ \A i \in DOMAIN s : Append(s, x)[i] = s[i]
<1> DEFINE S == Range(s) \cup {x}
           t == Append(s, x)
<1>1. s \in Seq(S) /\ x \in S
  BY DEF IsSeq
<1>2. /\ t \in Seq(S) /\ Len(t) = Len(s) + 1 /\ DOMAIN t = 1..(Len(s) + 1)
      /\ t[Len(s) + 1] = x /\ \A i \in 1..Len(s) : t[i] = s[i]
  BY <1>1
<1>3. IsSeq(t)
  BY <1>2, SeqOfItsRange
<1>4. Last(t) = x
  BY <1>2, <1>1 DEF Last
<1>5. DOMAIN s = 1..Len(s) /\ Len(s) \in Nat
  BY <1>1
<1>6. t # <<>>
  <2>1. Len(t) # 0
    BY <1>2, <1>5
  <2> QED BY <2>1, EmptyFacts
<1> QED BY <1>2, <1>3, <1>4, <1>5, <1>6

\* All of an extended sequence but its last element is the sequence.
LEMMA FrontOfAppend ==
  ASSUME NEW s, IsSeq(s), NEW x
  PROVE  Front(Append(s, x)) = s
<1> DEFINE S == Range(s) \cup {x}
           t == Append(s, x)
<1>1. s \in Seq(S) /\ x \in S
  BY DEF IsSeq
<1>2. t \in Seq(S) /\ Len(t) = Len(s) + 1 /\ \A i \in 1..Len(s) : t[i] = s[i]
  BY <1>1
<1>3. Front(t) = SubSeq(t, 1, Len(s))
  BY <1>2, <1>1 DEF Front
<1>4. Front(t) \in Seq(S) /\ Len(Front(t)) = Len(s)
      /\ \A i \in 1..Len(s) : Front(t)[i] = s[i]
  BY <1>1, <1>2, <1>3
<1>5. ASSUME NEW u \in Seq(S), Len(u) = Len(s), \A i \in 1..Len(s) : u[i] = s[i]
      PROVE  u = s
  BY <1>1, <1>5
<1> QED BY <1>4, <1>5

\* A prefix of a sequence.
LEMMA PrefixFacts ==
  ASSUME NEW s, IsSeq(s), NEW n \in 0..Len(s)
  PROVE  /\ IsSeq(SubSeq(s, 1, n))
         /\ Len(SubSeq(s, 1, n)) = n
         /\ DOMAIN SubSeq(s, 1, n) = 1..n
         /\ \A i \in 1..n : SubSeq(s, 1, n)[i] = s[i]
<1> DEFINE t == SubSeq(s, 1, n)
<1>1. s \in Seq(Range(s)) /\ Len(s) \in Nat
  BY DEF IsSeq
<1>2. /\ t \in Seq(Range(s)) /\ Len(t) = n /\ DOMAIN t = 1..n
      /\ \A i \in 1..n : t[i] = s[i]
  BY <1>1
<1>3. IsSeq(t)
  BY <1>2, SeqOfItsRange
<1> QED BY <1>2, <1>3

(***************************************************************************)
(* Sequences of sequences, one after another.                              *)
(***************************************************************************)
Flattens(f, n, g) == g = [i \in 1..n |-> IF i = 1 THEN f[i] ELSE g[i - 1] \o f[i]]

\* FlattenSeq is the last of what its recursion defines.
LEMMA FlattenIsLast ==
  ASSUME NEW f, Len(f) # 0
  PROVE  FlattenSeq(f) = (CHOOSE g : Flattens(f, Len(f), g))[Len(f)]
BY DEF FlattenSeq, Flattens

\* What the recursion defines exists for every length.
LEMMA FlattensExist ==
  ASSUME NEW f, NEW n \in Nat
  PROVE  \E g : Flattens(f, n, g)
<1> DEFINE Good(k) == \E g : Flattens(f, k, g)
           T == {k \in Nat : ~ Good(k)}
<1>1. T = {}
  <2> SUFFICES ASSUME T # {} PROVE FALSE
    OBVIOUS
  <2>1. T \subseteq Nat
    OBVIOUS
  <2>2. PICK k \in T : \A m \in T : k <= m
    <3> HIDE DEF T
    <3> QED BY <2>1, Least
  <2>3. Good(0)
    <3>1. Flattens(f, 0, [i \in 1..0 |-> 0])
      BY DEF Flattens
    <3> QED BY <3>1
  <2>4. k \in Nat /\ k # 0 /\ k - 1 \in Nat /\ k - 1 \notin T /\ ~ Good(k)
    <3>1. k \in Nat /\ ~ Good(k)
      OBVIOUS
    <3> HIDE DEF Good
    <3>2. k # 0
      BY <2>3, <3>1
    <3> HIDE DEF T
    <3> QED BY <2>2, <3>1, <3>2
  <2>5. PICK g : Flattens(f, k - 1, g)
    BY <2>4
  <2> DEFINE h == [i \in 1..k |-> IF i = 1 THEN f[i] ELSE g[i - 1] \o f[i]]
  <2>6. \A i \in 1..(k - 1) : h[i] = g[i]
    <3>1. \A i \in 1..(k - 1) : g[i] = IF i = 1 THEN f[i] ELSE g[i - 1] \o f[i]
      BY <2>5 DEF Flattens
    <3>2. \A i \in 1..(k - 1) : i \in 1..k
      BY <2>4
    <3> QED BY <3>1, <3>2
  <2>7. \A i \in 1..k : h[i] = IF i = 1 THEN f[i] ELSE h[i - 1] \o f[i]
    <3> TAKE i \in 1..k
    <3>1. i # 1 => i - 1 \in 1..(k - 1)
      BY <2>4
    <3> QED BY <2>6, <3>1
  <2>8. Flattens(f, k, h)
    <3>1. h = [i \in 1..k |-> h[i]]
      OBVIOUS
    <3> HIDE DEF h
    <3> QED BY <2>7, <3>1 DEF Flattens
  <2> QED BY <2>4, <2>8
<1> QED BY <1>1

\* Two such functions agree as far as what they flatten does.
LEMMA FlattensAgree ==
  ASSUME NEW f, NEW n \in Nat, NEW g, Flattens(f, n, g),
         NEW k, NEW m \in Nat, NEW h, Flattens(k, m, h), n <= m,
         \A i \in 1..n : f[i] = k[i]
  PROVE  \A i \in 1..n : g[i] = h[i]
<1> DEFINE T == {i \in 1..n : g[i] # h[i]}
<1>1. T = {}
  <2> SUFFICES ASSUME T # {} PROVE FALSE
    OBVIOUS
  <2>1. T \subseteq Nat
    OBVIOUS
  <2>2. PICK i \in T : \A j \in T : i <= j
    <3> HIDE DEF T
    <3> QED BY <2>1, Least
  <2>3. i \in 1..n /\ i \in 1..m /\ g[i] # h[i]
    OBVIOUS
  <2>4. /\ g[i] = IF i = 1 THEN f[i] ELSE g[i - 1] \o f[i]
        /\ h[i] = IF i = 1 THEN k[i] ELSE h[i - 1] \o k[i]
    BY <2>3 DEF Flattens
  <2>5. i # 1 => i - 1 \in 1..n /\ i - 1 \notin T
    <3> HIDE DEF T
    <3> QED BY <2>2, <2>3
  <2>6. i # 1 => g[i - 1] = h[i - 1]
    BY <2>5
  <2> QED BY <2>3, <2>4, <2>6
<1> QED BY <1>1

\* Sequences joined.
LEMMA JoinFacts ==
  ASSUME NEW s, IsSeq(s), NEW t, IsSeq(t)
  PROVE  /\ IsSeq(s \o t) /\ Len(s \o t) = Len(s) + Len(t)
         /\ \A i \in 1..Len(s) : (s \o t)[i] = s[i]
         /\ \A i \in 1..Len(t) : (s \o t)[Len(s) + i] = t[i]
         /\ s = <<>> => s \o t = t
<1> DEFINE S == Range(s) \cup Range(t)
           u == s \o t
<1>0. s \in Seq(Range(s)) /\ t \in Seq(Range(t))
  BY DEF IsSeq
<1> DEFINE A == Range(s)
           B == Range(t)
<1>1. s \in Seq(S) /\ t \in Seq(S)
  <2> HIDE DEF A, B
  <2> SUFFICES s \in Seq(A \cup B) /\ t \in Seq(A \cup B)
    BY DEF A, B
  <2>1. s \in Seq(A) /\ t \in Seq(B)
    BY <1>0 DEF A, B
  <2> QED BY <2>1
<1>2. u \in Seq(S) /\ Len(u) = Len(s) + Len(t)
  <2> HIDE DEF S
  <2> QED BY <1>1
<1>3. /\ \A i \in 1..Len(s) : u[i] = s[i]
      /\ \A i \in 1..Len(t) : u[Len(s) + i] = t[i]
  <2> HIDE DEF S
  <2> QED BY <1>1
<1>4. IsSeq(u)
  BY <1>2, SeqOfItsRange
<1>5. s = <<>> => u = t
  <2> HIDE DEF S
  <2> QED BY <1>1
<1> QED BY <1>2, <1>3, <1>4, <1>5

\* One sequence more goes to the end.
LEMMA FlattenOneMore ==
  ASSUME NEW f, IsSeq(f), NEW x, IsSeq(x)
  PROVE  FlattenSeq(Append(f, x)) = FlattenSeq(f) \o x
<1> DEFINE n == Len(f)
           k == Append(f, x)
<1>1. n \in Nat /\ Len(k) = n + 1 /\ k[n + 1] = x /\ \A i \in 1..n : f[i] = k[i]
  <2>1. n \in Nat /\ DOMAIN f = 1..n
    BY SequenceFacts
  <2> QED BY <2>1, AppendFacts
<1>2. PICK h : h = CHOOSE g : Flattens(k, n + 1, g)
  OBVIOUS
<1>3. Flattens(k, n + 1, h)
  <2>1. \E g : Flattens(k, n + 1, g)
    BY <1>1, FlattensExist
  <2> QED BY <1>2, <2>1
<1>4. FlattenSeq(k) = h[n + 1]
  <2>1. Len(k) # 0
    BY <1>1
  <2>2. FlattenSeq(k) = (CHOOSE g : Flattens(k, Len(k), g))[Len(k)]
    BY <2>1, FlattenIsLast
  <2> QED BY <1>1, <1>2, <2>2
<1>5. h[n + 1] = IF n = 0 THEN x ELSE h[n] \o x
  <2>1. n + 1 \in 1..(n + 1) /\ (n + 1) - 1 = n /\ (n + 1 = 1) = (n = 0)
    BY <1>1
  <2>2. h[n + 1] = IF n + 1 = 1 THEN k[n + 1] ELSE h[(n + 1) - 1] \o k[n + 1]
    BY <1>3, <2>1 DEF Flattens
  <2> QED BY <1>1, <2>1, <2>2
<1>6. CASE n = 0
  <2>1. FlattenSeq(f) = <<>>
    BY <1>6, SequenceFacts DEF FlattenSeq
  <2> QED BY <1>4, <1>5, <1>6, <2>1, EmptyFacts, JoinFacts
<1>7. CASE n # 0
  <2>1. PICK g : g = CHOOSE e : Flattens(f, n, e)
    OBVIOUS
  <2>2. Flattens(f, n, g)
    <3>1. \E e : Flattens(f, n, e)
      BY <1>1, FlattensExist
    <3> QED BY <2>1, <3>1
  <2>3. FlattenSeq(f) = g[n]
    BY <1>7, <2>1, FlattenIsLast
  <2>4. \A i \in 1..n : g[i] = h[i]
    <3>1. n <= n + 1 /\ n + 1 \in Nat
      BY <1>1
    <3> HIDE DEF n, k
    <3> QED BY <1>1, <1>3, <2>2, <3>1, FlattensAgree
  <2>5. g[n] = h[n]
    BY <1>1, <1>7, <2>4
  <2> QED BY <1>4, <1>5, <1>7, <2>3, <2>5
<1> QED BY <1>6, <1>7
(***************************************************************************)
(* Memories.                                                               *)
(***************************************************************************)
MemoryGrows(m, n) ==
  /\ IsMemory(n)
  /\ n.reframes = m.reframes
  /\ n.blocked = m.blocked
  /\ DOMAIN m.episodes \subseteq DOMAIN n.episodes
  /\ \A i \in DOMAIN m.episodes : n.episodes[i] = m.episodes[i]

\* The store of a cell not yet run is a memory.
LEMMA EmptyMemoryFacts == IsMemory(EmptyMemory)
BY EmptyFacts DEF IsMemory, EmptyMemory

\* The fields of a memory.
LEMMA Fields == DOMAIN EmptyMemory = {"episodes", "reframes", "retrievals",
                                      "accesses", "beliefs", "blocked"}
BY DEF EmptyMemory

\* A memory that keeps its layers and extends its episodes grows.
LEMMA GrowsByFields ==
  ASSUME NEW m, NEW n, IsMemory(m), DOMAIN n = DOMAIN m,
         n.reframes = m.reframes, n.blocked = m.blocked, IsSeq(n.episodes),
         DOMAIN m.episodes \subseteq DOMAIN n.episodes,
         \A i \in DOMAIN m.episodes : n.episodes[i] = m.episodes[i]
  PROVE  MemoryGrows(m, n)
BY DEF MemoryGrows, IsMemory

\* Logging a retrieval removes nothing.
LEMMA AuditGrows ==
  ASSUME NEW m, IsMemory(m), NEW r
  PROVE  MemoryGrows(m, CommitRetrieval(m, r))
<1>1. CASE r \in Range(m.retrievals)
  BY <1>1 DEF MemoryGrows, CommitRetrieval
<1>2. CASE r \notin Range(m.retrievals)
  <2> DEFINE n == CommitRetrieval(m, r)
  <2>1. /\ DOMAIN n = DOMAIN m /\ n.episodes = m.episodes
        /\ n.reframes = m.reframes /\ n.blocked = m.blocked
    BY <1>2, Fields DEF CommitRetrieval, IsMemory
  <2>2. IsSeq(n.episodes)
    BY <2>1 DEF IsMemory
  <2> QED BY <2>1, <2>2, GrowsByFields
<1> QED BY <1>1, <1>2

\* Logging an episode removes nothing.
LEMMA EpisodeGrows ==
  ASSUME NEW m, IsMemory(m), NEW e
  PROVE  MemoryGrows(m, AppendEpisode(m, e))
<1>1. CASE e \in Range(m.episodes)
  BY <1>1 DEF MemoryGrows, AppendEpisode
<1>2. CASE e \notin Range(m.episodes)
  <2> DEFINE n == AppendEpisode(m, e)
  <2>1. /\ DOMAIN n = DOMAIN m /\ n.episodes = Append(m.episodes, e)
        /\ n.reframes = m.reframes /\ n.blocked = m.blocked
    BY <1>2, Fields DEF AppendEpisode, IsMemory
  <2>2. IsSeq(m.episodes)
    BY DEF IsMemory
  <2>3. /\ IsSeq(n.episodes)
        /\ \A i \in DOMAIN m.episodes : n.episodes[i] = m.episodes[i]
        /\ DOMAIN m.episodes \subseteq DOMAIN n.episodes
    <3>1. DOMAIN m.episodes = 1..Len(m.episodes) /\ Len(m.episodes) \in Nat
      BY <2>2, SequenceFacts
    <3> QED BY <2>1, <2>2, <3>1, AppendFacts
  <2> QED BY <2>1, <2>3, GrowsByFields
<1> QED BY <1>1, <1>2

\* Updating the belief removes nothing.
LEMMA BeliefGrows ==
  ASSUME NEW m, IsMemory(m), NEW d, NEW ids
  PROVE  MemoryGrows(m, UpdateBelief(m, d, ids))
<1> DEFINE n == UpdateBelief(m, d, ids)
           k == [m EXCEPT !.beliefs = Append(@, UpdatedBelief(m, d, ids))]
<1>1. CASE n = m
  BY <1>1 DEF MemoryGrows
<1>2. CASE n = k
  <2>1. /\ DOMAIN k = DOMAIN m /\ k.episodes = m.episodes
        /\ k.reframes = m.reframes /\ k.blocked = m.blocked
    BY Fields DEF IsMemory
  <2>2. IsSeq(k.episodes)
    BY <2>1 DEF IsMemory
  <2>3. MemoryGrows(m, k)
    BY <2>1, <2>2, GrowsByFields
  <2> QED BY <1>2, <2>3
<1>3. n = m \/ n = k
  BY DEF UpdateBelief
<1> QED BY <1>1, <1>2, <1>3

\* A treatment in force stays in force while memory grows.
LEMMA InForceKept ==
  ASSUME NEW r, NEW m, NEW n, NEW d, InForce(r, m, d), MemoryGrows(m, n)
  PROVE  InForce(r, n, d)
BY DEF InForce, MemoryGrows, Revision

\* An intervention leaves its treatment in force.
LEMMA TreatmentInForce ==
  ASSUME NEW c \in Conditions, NEW m, IsMemory(m), NEW d, NEW sh
  PROVE  LET a == Treated(c, m, d, sh)
         IN /\ IsMemory(a.memory)
            /\ a.instructions \subseteq d
            /\ a.record.condition = c
            /\ InForce(a.record, a.memory, a.instructions)
<1> DEFINE targets == Targets(c, m, d)
           n == TreatedMemory(c, m, targets)
           k == TreatedInstructions(c, d, targets)
           a == Treated(c, m, d, sh)
<1>1. /\ a.memory = n /\ a.instructions = k /\ a.record.condition = c
      /\ a.record.after = LayerSnapshot(n, k)
  BY DEF Treated
<1>2. IsMemory(n)
  <2>1. n = m \/ n = Block(m, targets) \/ n = Reframe(m, targets)
    BY DEF TreatedMemory
  <2>2. IsMemory(Block(m, targets))
    <3>1. LET b == Block(m, targets) IN DOMAIN b = DOMAIN m /\ b.episodes = m.episodes
      BY Fields DEF Block, IsMemory
    <3> QED BY <3>1 DEF IsMemory
  <2>3. IsMemory(Reframe(m, targets))
    <3>1. LET b == Reframe(m, targets) IN DOMAIN b = DOMAIN m /\ b.episodes = m.episodes
      BY Fields DEF Reframe, IsMemory
    <3> QED BY <3>1 DEF IsMemory
  <2> QED BY <2>1, <2>2, <2>3
<1>3. k \subseteq d
  BY DEF TreatedInstructions
<1>4. InForce(a.record, n, k)
  <2> HIDE DEF a, n, k
  <2> QED BY <1>1 DEF InForce, LayerSnapshot
<1>5. /\ IsMemory(a.memory) /\ a.instructions \subseteq d
      /\ a.record.condition = c /\ InForce(a.record, a.memory, a.instructions)
  BY <1>1, <1>2, <1>3, <1>4
<1> QED BY <1>5

(***************************************************************************)
(* An execution between days.                                              *)
(***************************************************************************)
LEMMA StoreFields ==
  /\ Store.treatment = treatment /\ Store.memory = memory
  /\ Store.instructions = instructions /\ Store.shock = shock
  /\ Store.applied = applied /\ Store.ledger = ledger
  /\ Store.days = days /\ Store.evidence = evidence
  /\ IsStore(Store)
BY DEF Store, IsStore

\* Loading a store makes it the store of the execution.
LEMMA LoadedStore ==
  ASSUME NEW store, IsStore(store), Load(store)
  PROVE  Store' = store
BY DEF Load, Store, IsStore

\* Loading a consistent store gives a consistent execution between days.
LEMMA LoadKeeps ==
  ASSUME ArchiveInv, NEW c \in Cells, NEW store, StoreInv(c, store), Load(store),
         cell' = c, archive' = archive, IsSeq(traces'),
         TracesDated(traces', Len(store.days))
  PROVE  CellInv'
<1>1. Store' = store
  BY LoadedStore DEF StoreInv
<1>2. /\ pc' = "idle" /\ treatment' = store.treatment /\ memory' = store.memory
      /\ instructions' = store.instructions /\ shock' = store.shock
      /\ applied' = store.applied /\ days' = store.days /\ evidence' = store.evidence
      /\ staged' = <<>> /\ pending' = {}
  BY DEF Load
<1>3. TypeOK'
  <2>1. c.intervention \in Conditions /\ store.treatment = c.intervention
    BY CellAssumption DEF StoreInv, AlignedStore
  <2>2. Len(store.applied) <= 1
    BY DEF StoreInv, AlignedStore
  <2> QED BY <1>2, <2>1, <2>2 DEF TypeOK, Steps, StoreInv, IsMemory
<1>4. ArchiveInv'
  BY DEF ArchiveInv
<1>5. IdleInv'
  BY <1>1, <1>2 DEF IdleInv
<1>6. IsMemory(memory')
  BY <1>2 DEF StoreInv
<1> QED BY <1>2, <1>3, <1>4, <1>5, <1>6 DEF CellInv

\* The store a cell starts from is consistent.
LEMMA FreshStoreInv ==
  ASSUME NEW c \in Cells
  PROVE  StoreInv(c, FreshStore(c))
<1> DEFINE f == FreshStore(c)
<1>1. /\ f.treatment = c.intervention /\ f.memory = EmptyMemory
      /\ f.instructions = InitialInstructions(c) /\ f.shock = Nothing
      /\ f.applied = <<>> /\ f.days = <<>> /\ f.evidence = <<>> /\ IsStore(f)
  BY DEF FreshStore, IsStore
<1>2. f.instructions \subseteq Directives
  BY <1>1 DEF InitialInstructions
<1>3. AlignedStore(c, f)
  <2>1. ~(0 >= ShockDay) /\ ~(0 >= ActivationDay)
    BY CalendarAssumption
  <2> HIDE DEF f
  <2> QED BY <1>1, <2>1, EmptyFacts DEF AlignedStore, f
<1>4. Len(f.days) <= LastDay
  BY <1>1, EmptyFacts, CellAssumption
<1> HIDE DEF f
<1>5. StoreInv(c, f)
  BY <1>1, <1>2, <1>3, <1>4, EmptyFacts, EmptyMemoryFacts DEF StoreInv
<1> QED BY <1>5 DEF f

\* No traces are traces of any day.
LEMMA NoTraces ==
  ASSUME NEW n \in Nat
  PROVE  TracesDated(<<>>, n)
BY EmptyFacts DEF TracesDated

\* Starting a cell.
LEMMA StartKeeps ==
  ASSUME CellInv, NEW c \in Cells, StartCell(c)
  PROVE  CellInv'
<1>1. /\ cell' = c /\ Load(FreshStore(c)) /\ traces' = <<>> /\ archive' = archive
  BY DEF StartCell
<1>2. Len(FreshStore(c).days) = 0
  BY EmptyFacts DEF FreshStore
<1>3. ArchiveInv
  BY DEF CellInv
<1> QED BY <1>1, <1>2, <1>3, FreshStoreInv, NoTraces, EmptyFacts, LoadKeeps

\* The first cell, not yet run.
LEMMA InitHolds == Init => CellInv
<1> SUFFICES ASSUME Init PROVE CellInv
  OBVIOUS
<1>1. Store = FreshStore(cell)
  BY DEF Init, Store, FreshStore
<1>2. StoreInv(cell, Store) /\ cell \in Cells
  BY <1>1, FreshStoreInv DEF Init
<1>3. /\ pc = "idle" /\ staged = <<>> /\ pending = {} /\ traces = <<>> /\ days = <<>>
      /\ archive = {}
  BY DEF Init
<1>4. TracesDated(traces, Len(days))
  BY <1>3, NoTraces, EmptyFacts
<1>5. TypeOK
  <2>1. /\ treatment = cell.intervention /\ cell.intervention \in Conditions
        /\ instructions \subseteq Directives /\ shock = Nothing
        /\ applied = <<>> /\ evidence = <<>> /\ IsSeq(memory.episodes)
    BY CellAssumption, EmptyMemoryFacts DEF Init, InitialInstructions, IsMemory
  <2> QED BY <1>2, <1>3, <2>1, EmptyFacts, CellAssumption DEF TypeOK, Steps
<1>6. IsMemory(memory)
  BY EmptyMemoryFacts DEF Init
<1> QED BY <1>2, <1>3, <1>4, <1>5, <1>6 DEF CellInv, ArchiveInv, IdleInv

\* Restoring the parts of a bundle that is accepted.
LEMMA RestoreKeeps ==
  ASSUME CellInv, NEW c \in Cells, NEW p \in archive, NEW s \in archive,
         NEW r \in archive, NEW e \in archive, Restore(c, p, s, r, e)
  PROVE  CellInv'
<1>1. /\ p.cell = c /\ p.simulation = s.simulation /\ p.runtime = r.runtime
      /\ p.evidence = e.evidence
  BY DEF Restore, BundleAccepted
<1>2. /\ cell' = c /\ traces' = <<>> /\ archive' = archive
      /\ Load(StoreOf(p))
  BY <1>1 DEF Restore, ResumedInstructions, ResumedLedger, StoreOf
<1>3. ArchiveInv /\ StoreInv(c, StoreOf(p))
  BY <1>1 DEF CellInv, ArchiveInv
<1>4. Len(StoreOf(p).days) \in Nat
  BY <1>3, SequenceFacts DEF StoreInv
<1> QED BY <1>2, <1>3, <1>4, NoTraces, EmptyFacts, LoadKeeps

\* Bundling what was captured at a checkpoint.
LEMMA CaptureKeeps ==
  ASSUME CellInv, Capture
  PROVE  CellInv'
<1>1. /\ pc = "idle" /\ evidence # <<>> /\ archive' = archive \cup {Bundle}
      /\ staged' = <<>>
      /\ UNCHANGED <<pc, cell, treatment, memory, instructions, shock, applied,
                     context, model, engine, evidence, before>>
  BY DEF Capture
<1>2. UNCHANGED <<pc, cell, treatment, memory, instructions, shock, applied, ledger,
                  pending, traces, days, evidence, Store>>
  BY <1>1 DEF model, engine, Store
<1>3. IdleInv /\ TypeOK /\ ArchiveInv /\ IsMemory(memory)
  BY <1>1 DEF CellInv
<1>4. TypeOK'
  BY <1>2, <1>3 DEF TypeOK
<1>5. ArchiveInv'
  <2>1. Bundle.cell = cell /\ Bundle.evidence = evidence /\ StoreOf(Bundle) = Store
    BY DEF Bundle, StoreOf, Store
  <2>2. StoreInv(Bundle.cell, StoreOf(Bundle))
    BY <2>1, <1>3 DEF IdleInv
  <2>3. cell \in Cells
    BY <1>3 DEF TypeOK
  <2> QED BY <1>1, <1>3, <2>1, <2>2, <2>3 DEF ArchiveInv
<1>6. IdleInv'
  BY <1>1, <1>2, <1>3 DEF IdleInv
<1> QED BY <1>1, <1>2, <1>3, <1>4, <1>5, <1>6 DEF CellInv

(***************************************************************************)
(* The steps of a day.                                                     *)
(***************************************************************************)
LEMMA BeginKeeps ==
  ASSUME CellInv, BeginDay
  PROVE  CellInv'
<1>1. /\ pc = "idle" /\ Today <= LastDay /\ pc' = "retrieve" /\ staged' = <<>>
      /\ before'.store = Store /\ before'.traced = Len(traces)
      /\ UNCHANGED <<cell, treatment, memory, instructions, shock, applied, ledger,
                     pending, traces, days, evidence, archive>>
  BY DEF BeginDay, model, engine
<1>2. IdleInv /\ TypeOK /\ ArchiveInv /\ IsMemory(memory)
  BY <1>1 DEF CellInv
<1>3. TypeOK'
  BY <1>1, <1>2 DEF TypeOK, Steps
<1>4. ArchiveInv'
  BY <1>1, <1>2 DEF ArchiveInv
<1>5. DayInv'
  <2>1. StoreInv(cell', before'.store)
    BY <1>1, <1>2 DEF IdleInv
  <2>2. Len(days) < LastDay /\ Len(days) \in Nat /\ Len(traces) \in Nat
    BY <1>1, <1>2, SequenceFacts, CellAssumption DEF Today, TypeOK
  <2>3. PendingInv'
    BY <1>1, <1>2 DEF IdleInv, PendingInv
  <2>4. TracesInv'
    BY <1>1, <1>2, <2>2, StoreFields DEF IdleInv, TracesInv, Spoken
  <2>5. UncommittedInv'
    <3>1. applied # <<>> => InForce(applied[1], memory, instructions)
      BY <1>2, StoreFields DEF IdleInv, StoreInv
    <3> QED BY <1>1, <3>1, StoreFields DEF UncommittedInv
  <2> QED BY <1>1, <2>1, <2>2, <2>3, <2>4, <2>5, StoreFields DEF DayInv
<1> QED BY <1>1, <1>2, <1>3, <1>4, <1>5 DEF CellInv

\* What is known during a day before its commit.
LEMMA DuringDay ==
  ASSUME CellInv, pc \notin {"idle", "attest"}
  PROVE  /\ TypeOK /\ IsMemory(memory) /\ ArchiveInv
         /\ DayInv /\ UncommittedInv /\ PendingInv /\ TracesInv
         /\ StoreInv(cell, before.store)
         /\ Len(days) \in Nat /\ Len(days) < LastDay /\ Len(traces) \in Nat
         /\ cell.intervention \in Conditions
         /\ treatment = cell.intervention
         /\ Len(applied) = IF Len(days) >= ActivationDay THEN 1 ELSE 0
         /\ Len(days) >= ShockDay => before.store.shock = ShockDay
<1>1. TypeOK /\ IsMemory(memory) /\ ArchiveInv /\ DayInv
  BY DEF CellInv
<1>2. UncommittedInv /\ PendingInv /\ TracesInv /\ StoreInv(cell, before.store)
  BY <1>1 DEF DayInv
<1>3. AlignedStore(cell, before.store) /\ before.store.shock \in {Nothing, ShockDay}
  BY <1>2 DEF StoreInv
<1>4. days = before.store.days /\ applied = before.store.applied
  BY <1>2 DEF UncommittedInv
<1>5. Len(days) \in Nat /\ Len(traces) \in Nat
  BY <1>1, SequenceFacts DEF TypeOK
<1>6. Len(days) < LastDay /\ treatment = before.store.treatment
  BY <1>1, <1>4 DEF DayInv
<1> QED BY <1>1, <1>2, <1>3, <1>4, <1>5, <1>6, CellAssumption DEF AlignedStore, TypeOK

\* A step before the commit that leaves what was there at the day's beginning
\* keeps the invariant if it keeps the parts that say how far the day is.
LEMMA DayKeeps ==
  ASSUME CellInv, pc \notin {"idle", "attest"}, pc' \in Steps \ {"idle", "attest"},
         UNCHANGED <<cell, treatment, instructions, applied, days, evidence, before,
                     archive>>,
         shock' \in {Nothing, ShockDay}, IsMemory(memory'), IsSeq(traces'),
         PendingInv', TracesInv', UncommittedInv'
  PROVE  CellInv'
<1>1. TypeOK /\ ArchiveInv /\ DayInv
  BY DEF CellInv
<1>2. TypeOK'
  BY <1>1 DEF TypeOK, IsMemory
<1>3. ArchiveInv'
  BY <1>1 DEF ArchiveInv
<1>4. DayInv'
  BY <1>1 DEF DayInv
<1> QED BY <1>2, <1>3, <1>4 DEF CellInv

\* Retrieving for the day, after the treatment of its day.
LEMMA RetrieveKeeps ==
  ASSUME CellInv, Retrieve
  PROVE  CellInv'
<1> DEFINE a == Activation(shock')
<1>1. /\ pc = "retrieve" /\ pc' = "select" /\ shock' = ShockSeen
      /\ staged' = IF Today = ActivationDay THEN <<a>> ELSE staged
      /\ UNCHANGED <<cell, treatment, memory, instructions, applied, pending, traces,
                     ledger, days, evidence, before, archive>>
  BY DEF Retrieve, model, engine
<1>2. /\ TypeOK /\ IsMemory(memory) /\ UncommittedInv /\ PendingInv /\ TracesInv
      /\ Len(days) \in Nat /\ cell.intervention \in Conditions
      /\ treatment = cell.intervention
      /\ Len(applied) = IF Len(days) >= ActivationDay THEN 1 ELSE 0
      /\ Len(days) >= ShockDay => before.store.shock = ShockDay
  BY <1>1, DuringDay
<1>3. shock = before.store.shock /\ staged = <<>> /\ memory = before.store.memory
  BY <1>1, <1>2 DEF UncommittedInv
<1>4. Today = Len(days) + 1 /\ Today' = Today
  BY <1>1 DEF Today
<1>5. Today >= ShockDay => shock' = ShockDay
  BY <1>1, <1>2, <1>3, <1>4, CalendarAssumption DEF ShockSeen
<1>6. shock' \in {Nothing, ShockDay}
  BY <1>1, <1>2 DEF ShockSeen, TypeOK
<1>7. CASE Today = ActivationDay
  <2>1. applied = <<>>
    <3>1. Len(applied) = 0
      BY <1>2, <1>4, <1>7, CalendarAssumption
    <3> QED BY <3>1, <1>2, SequenceFacts DEF TypeOK
  <2>2. a = Treated(treatment, memory, instructions, shock')
    BY <2>1 DEF Activation
  <2>3. /\ IsMemory(a.memory) /\ a.instructions \subseteq instructions
        /\ a.record.condition = cell.intervention
        /\ InForce(a.record, a.memory, a.instructions)
    BY <2>2, <1>2, TreatmentInForce
  <2>4. staged' = <<a>>
    BY <1>1, <1>7
  <2>5. staged' # <<>> /\ staged'[1] = a
    BY <2>4
  <2>6. UncommittedInv'
    <3>1. a.instructions \subseteq Directives
      BY <2>3, <1>2 DEF TypeOK
    <3> HIDE DEF a
    <3> QED BY <1>1, <1>2, <1>3, <1>4, <1>5, <1>7, <2>3, <2>5, <3>1 DEF UncommittedInv
  <2> QED BY <1>1, <1>2, <1>6, <2>6, DayKeeps DEF TypeOK, PendingInv, TracesInv, Spoken, Steps
<1>8. CASE Today # ActivationDay
  <2>1. UncommittedInv'
    BY <1>1, <1>2, <1>3, <1>4, <1>5, <1>8 DEF UncommittedInv
  <2> QED BY <1>1, <1>2, <1>6, <2>1, DayKeeps DEF TypeOK, PendingInv, TracesInv, Spoken, Steps
<1> QED BY <1>7, <1>8

\* Selecting an action.
LEMMA SelectKeeps ==
  ASSUME CellInv, Select
  PROVE  CellInv'
<1>1. /\ pc = "select" /\ pc' = "stage"
      /\ UNCHANGED <<cell, treatment, memory, instructions, shock, applied, staged,
                     traces, days, evidence, before, archive>>
  BY DEF Select, runtime
<1>2. /\ TypeOK /\ IsMemory(memory) /\ UncommittedInv /\ PendingInv /\ TracesInv
  BY <1>1, DuringDay
<1>3. PendingInv'
  <2>1. pending = {}
    BY <1>1, <1>2 DEF PendingInv
  <2>2. \E new : pending' = {p \in pending : p.input # Input} \cup {new}
    BY DEF Select
  <2> QED BY <1>1, <2>1, <2>2 DEF PendingInv
<1>4. UncommittedInv'
  BY <1>1, <1>2 DEF UncommittedInv, Today
<1>5. TracesInv'
  BY <1>1, <1>2 DEF TracesInv, Spoken
<1> QED BY <1>1, <1>2, <1>3, <1>4, <1>5, DayKeeps DEF TypeOK, Steps

\* Staging the engine.
LEMMA StageKeeps ==
  ASSUME CellInv, Stage
  PROVE  CellInv'
<1>1. /\ pc = "stage" /\ pc' = "speak"
      /\ UNCHANGED <<cell, treatment, memory, instructions, shock, applied, staged,
                     ledger, pending, traces, days, evidence, before, archive>>
  BY DEF Stage, runtime, model
<1>2. /\ TypeOK /\ IsMemory(memory) /\ UncommittedInv /\ PendingInv /\ TracesInv
  BY <1>1, DuringDay
<1>3. PendingInv' /\ TracesInv'
  BY <1>1, <1>2 DEF PendingInv, TracesInv, Spoken
<1>4. UncommittedInv'
  BY <1>1, <1>2 DEF UncommittedInv, Today
<1> QED BY <1>1, <1>2, <1>3, <1>4, DayKeeps DEF TypeOK, Steps

\* Calling the model.
LEMMA SpeakKeeps ==
  ASSUME CellInv, Speak
  PROVE  CellInv'
<1>1. /\ pc = "speak" /\ pc' = "commit"
      /\ UNCHANGED <<cell, treatment, memory, instructions, shock, applied, staged,
                     days, evidence, before, archive>>
  BY DEF Speak, runtime, engine
<1>2. /\ TypeOK /\ IsMemory(memory) /\ UncommittedInv /\ PendingInv /\ TracesInv
      /\ Len(days) \in Nat /\ Len(traces) \in Nat
  BY <1>1, DuringDay
<1>3. PICK p \in pending :
        traces' = Append(traces, [day |-> Today, input |-> p.input,
                                  overlay |-> p.overlay, ledger |-> ledger'])
  BY DEF Speak
<1> DEFINE call == [day |-> Today, input |-> p.input, overlay |-> p.overlay,
                    ledger |-> ledger']
<1>4. traces' = Append(traces, call) /\ call.day = Today /\ call.ledger = ledger'
  BY <1>3
<1> HIDE DEF call
<1>5. /\ IsSeq(traces') /\ Len(traces') = Len(traces) + 1
      /\ DOMAIN traces' = 1..(Len(traces) + 1)
      /\ traces'[Len(traces) + 1] = call
      /\ \A i \in DOMAIN traces : traces'[i] = traces[i]
      /\ DOMAIN traces = 1..Len(traces)
  <2>1. IsSeq(traces)
    BY <1>2 DEF TypeOK
  <2>2. DOMAIN traces = 1..Len(traces)
    BY <2>1, SequenceFacts
  <2>3. /\ IsSeq(Append(traces, call)) /\ Len(Append(traces, call)) = Len(traces) + 1
        /\ DOMAIN Append(traces, call) = 1..(Len(traces) + 1)
        /\ Append(traces, call)[Len(traces) + 1] = call
        /\ \A i \in DOMAIN traces : Append(traces, call)[i] = traces[i]
    BY <2>1, AppendFacts
  <2> QED BY <1>4, <2>2, <2>3
<1>6. PendingInv'
  <2>1. \E q \in pending : pending' = pending \ {q}
    BY DEF Speak
  <2> QED BY <1>2, <2>1 DEF PendingInv
<1>7. TracesInv'
  <2>1. /\ Len(traces) = before.traced /\ before.traced \in Nat
        /\ TracesDated(traces, Len(days))
    BY <1>1, <1>2 DEF TracesInv, Spoken, UncommittedInv
  <2>2. TracesDated(traces', Len(days) + 1)
    <3>1. \A i \in DOMAIN traces' : traces'[i].day = (Len(days) + 1) - Len(traces') + i
      <4> TAKE i \in DOMAIN traces'
      <4>1. CASE i = Len(traces) + 1
        BY <4>1, <1>2, <1>4, <1>5 DEF Today
      <4>2. CASE i # Len(traces) + 1
        <5>1. i \in DOMAIN traces /\ i \in Nat
          BY <4>2, <1>2, <1>5
        <5>2. traces[i].day = Len(days) - Len(traces) + i
          BY <5>1, <2>1 DEF TracesDated
        <5>3. traces'[i].day = traces[i].day
          BY <5>1, <1>5
        <5> QED BY <5>1, <5>2, <5>3, <1>2, <1>5
      <4> QED BY <4>1, <4>2
    <3> QED BY <3>1, <1>2, <1>5, <2>1 DEF TracesDated
  <2> QED BY <1>1, <1>2, <1>4, <1>5, <2>1, <2>2 DEF TracesInv, Spoken, UncommittedInv
<1>8. UncommittedInv'
  BY <1>1, <1>2 DEF UncommittedInv, Today
<1> QED BY <1>1, <1>2, <1>5, <1>6, <1>7, <1>8, DayKeeps DEF TypeOK, Steps

\* Writing a memory that has grown from the one the day works on.
LEMMA WriteKeeps ==
  ASSUME CellInv, pc \in {"commit", "append"}, pc' = "append", NEW m,
         MemoryGrows(SourceMemory, m), WriteMemory(m),
         UNCHANGED <<cell, treatment, instructions, shock, applied, ledger, pending,
                     traces, days, evidence, before, archive>>
  PROVE  CellInv'
<1>1. /\ TypeOK /\ IsMemory(memory) /\ UncommittedInv /\ PendingInv /\ TracesInv
  BY DuringDay
<1>2. PendingInv' /\ TracesInv'
  BY <1>1 DEF PendingInv, TracesInv, Spoken
<1>3. IsMemory(m)
  BY DEF MemoryGrows
<1>4. Today' = Today
  BY DEF Today
<1>5. CASE staged # <<>>
  <2> DEFINE t == [memory |-> m, instructions |-> staged[1].instructions,
                   record |-> staged[1].record]
  <2>1. staged' = <<t>> /\ memory' = memory /\ MemoryGrows(staged[1].memory, m)
    BY <1>5 DEF WriteMemory, SourceMemory
  <2>2. InForce(staged[1].record, m, staged[1].instructions)
    BY <1>1, <1>5, <2>1, InForceKept DEF UncommittedInv
  <2>3. /\ staged' # <<>> /\ staged'[1].memory = m
        /\ staged'[1].instructions = staged[1].instructions
        /\ staged'[1].record = staged[1].record
    BY <2>1
  <2>4. UncommittedInv'
    BY <1>1, <1>3, <1>4, <1>5, <2>1, <2>2, <2>3 DEF UncommittedInv
  <2> QED BY <1>1, <1>2, <2>1, <2>4, DayKeeps DEF TypeOK, Steps
<1>6. CASE staged = <<>>
  <2>1. staged' = <<>> /\ memory' = m /\ MemoryGrows(memory, m)
    BY <1>6 DEF WriteMemory, SourceMemory
  <2>2. applied # <<>> => InForce(applied[1], m, instructions)
    BY <1>1, <1>6, <2>1, InForceKept DEF UncommittedInv
  <2>3. UncommittedInv'
    BY <1>1, <1>4, <1>6, <2>1, <2>2 DEF UncommittedInv
  <2> QED BY <1>1, <1>2, <1>3, <2>1, <2>3, DayKeeps DEF TypeOK, Steps
<1> QED BY <1>5, <1>6

\* The memory a commit starts from is a memory.
LEMMA SourceIsMemory ==
  ASSUME CellInv, pc \notin {"idle", "attest"}
  PROVE  IsMemory(SourceMemory)
BY DuringDay DEF SourceMemory, UncommittedInv

\* Writing the retrieval of the day.
LEMMA KeepAuditKeeps ==
  ASSUME CellInv, KeepAudit
  PROVE  CellInv'
<1>1. /\ pc = "commit" /\ pc' = "append"
      /\ WriteMemory(CommitRetrieval(SourceMemory, context.retrieval))
      /\ UNCHANGED <<cell, treatment, instructions, shock, applied, ledger, pending,
                     traces, days, evidence, before, archive>>
  BY DEF KeepAudit, model, engine
<1>2. MemoryGrows(SourceMemory, CommitRetrieval(SourceMemory, context.retrieval))
  BY <1>1, SourceIsMemory, AuditGrows
<1> QED BY <1>1, <1>2, WriteKeeps

\* Writing an episode of the day.
LEMMA KeepEpisodeKeeps ==
  ASSUME CellInv, KeepEpisode
  PROVE  CellInv'
<1>1. PICK episode : WriteMemory(AppendEpisode(SourceMemory, episode))
  BY DEF KeepEpisode
<1>2. /\ pc = "append" /\ pc' = "append"
      /\ UNCHANGED <<cell, treatment, instructions, shock, applied, ledger, pending,
                     traces, days, evidence, before, archive>>
  BY DEF KeepEpisode, model
<1>3. MemoryGrows(SourceMemory, AppendEpisode(SourceMemory, episode))
  BY <1>2, SourceIsMemory, EpisodeGrows
<1> QED BY <1>1, <1>2, <1>3, WriteKeeps

\* Writing the belief and ending the commit.
LEMMA FinishKeeps ==
  ASSUME CellInv, FinishCommit
  PROVE  CellInv'
<1> DEFINE ids == Range(Candidates(cell.formation, Today))
           updated == UpdateBelief(SourceMemory, Today, ids)
<1>1. /\ pc = "append" /\ pc' = "attest"
      /\ memory' = updated /\ instructions' = ActiveInstructions
      /\ applied' = IF staged # <<>> THEN Append(applied, staged[1].record) ELSE applied
      /\ staged' = <<>> /\ days' = Append(days, StepRecord)
      /\ UNCHANGED <<cell, treatment, shock, ledger, pending, traces, evidence, before,
                     archive>>
  BY DEF FinishCommit, model
<1>2. /\ TypeOK /\ IsMemory(memory) /\ ArchiveInv /\ DayInv /\ UncommittedInv
      /\ PendingInv /\ TracesInv /\ StoreInv(cell, before.store)
      /\ Len(days) \in Nat /\ Len(days) < LastDay
      /\ Len(applied) = IF Len(days) >= ActivationDay THEN 1 ELSE 0
  BY <1>1, DuringDay
<1>3. MemoryGrows(SourceMemory, updated) /\ IsMemory(updated)
  BY <1>1, SourceIsMemory, BeliefGrows DEF MemoryGrows
<1>4. IsSeq(days) /\ IsSeq(applied)
  BY <1>2 DEF TypeOK
<1>5. /\ IsSeq(days') /\ Len(days') = Len(days) + 1
      /\ DOMAIN days' = 1..(Len(days) + 1) /\ DOMAIN days = 1..Len(days)
      /\ days'[Len(days) + 1] = StepRecord
      /\ \A i \in DOMAIN days : days'[i] = days[i]
  BY <1>1, <1>4, AppendFacts, SequenceFacts
<1>6. \A i \in DOMAIN days' : days'[i].day = i
  <2> TAKE i \in DOMAIN days'
  <2>1. CASE i = Len(days) + 1
    BY <2>1, <1>5 DEF StepRecord, Today
  <2>2. CASE i # Len(days) + 1
    <3>1. i \in DOMAIN days
      BY <2>2, <1>2, <1>5
    <3> QED BY <3>1, <1>2, <1>5 DEF TypeOK
  <2> QED BY <2>1, <2>2
<1>7. /\ IsSeq(applied') /\ instructions' \subseteq Directives
      /\ Len(applied') = IF Len(days') >= ActivationDay THEN 1 ELSE 0
      /\ applied' # <<>> => /\ applied'[1].condition = cell.intervention
                            /\ InForce(applied'[1], memory', instructions')
  <2>1. CASE staged # <<>>
    <3>1. /\ Today = ActivationDay /\ staged[1].instructions \subseteq Directives
          /\ staged[1].record.condition = cell.intervention
          /\ InForce(staged[1].record, staged[1].memory, staged[1].instructions)
      BY <1>1, <1>2, <2>1 DEF UncommittedInv
    <3>2. Len(applied) = 0
      BY <1>2, <3>1, CalendarAssumption DEF Today
    <3>3. /\ IsSeq(applied') /\ Len(applied') = 1 /\ applied'[1] = staged[1].record
      <4>1. applied' = Append(applied, staged[1].record)
        BY <1>1, <2>1
      <4> HIDE DEF updated
      <4>2. \A x : /\ IsSeq(Append(applied, x)) /\ Len(Append(applied, x)) = 1
                   /\ Append(applied, x)[1] = x
        <5> TAKE x
        <5>1. /\ IsSeq(Append(applied, x)) /\ Len(Append(applied, x)) = Len(applied) + 1
              /\ Append(applied, x)[Len(applied) + 1] = x
          BY <1>4, AppendFacts
        <5> QED BY <3>2, <5>1
      <4> QED BY <4>1, <4>2
    <3>4. instructions' = staged[1].instructions /\ SourceMemory = staged[1].memory
      BY <1>1, <2>1 DEF ActiveInstructions, SourceMemory
    <3>5. InForce(staged[1].record, updated, staged[1].instructions)
      BY <1>3, <3>1, <3>4, InForceKept
    <3>6. Len(days') >= ActivationDay
      BY <1>2, <1>5, <3>1, CalendarAssumption DEF Today
    <3> HIDE DEF updated
    <3> QED BY <1>1, <3>1, <3>3, <3>4, <3>5, <3>6
  <2>2. CASE staged = <<>>
    <3>1. Today # ActivationDay
      BY <1>1, <1>2, <2>2 DEF UncommittedInv
    <3>2. /\ applied' = applied /\ instructions' = instructions
          /\ SourceMemory = memory
      BY <1>1, <2>2 DEF ActiveInstructions, SourceMemory
    <3>3. Len(applied) = IF Len(days') >= ActivationDay THEN 1 ELSE 0
      BY <1>2, <1>5, <3>1, CalendarAssumption DEF Today
    <3>4. applied # <<>> => InForce(applied[1], updated, instructions)
      BY <1>2, <1>3, <2>2, <3>2, InForceKept DEF UncommittedInv
    <3>5. applied # <<>> => applied[1].condition = cell.intervention
      BY <1>2 DEF UncommittedInv, StoreInv
    <3> HIDE DEF updated
    <3> QED BY <1>1, <1>2, <1>4, <3>2, <3>3, <3>4, <3>5 DEF TypeOK
  <2> QED BY <2>1, <2>2
<1>8. TypeOK'
  <2>1. IsSeq(memory'.episodes)
    BY <1>1, <1>3 DEF IsMemory
  <2>2. Len(days') <= LastDay
    BY <1>2, <1>5, CellAssumption
  <2>3. Len(applied') <= 1
    BY <1>7
  <2> QED BY <1>1, <1>2, <1>5, <1>6, <1>7, <2>1, <2>2, <2>3 DEF TypeOK, Steps
<1>9. DayInv'
  <2>1. PendingInv' /\ TracesInv'
    BY <1>1, <1>2 DEF PendingInv, TracesInv, Spoken
  <2>2. Len(days') >= ShockDay => shock' = ShockDay
    BY <1>1, <1>2, <1>5 DEF UncommittedInv, Today
  <2>3. CommittedInv'
    BY <1>1, <1>2, <1>5, <1>7, <2>2 DEF CommittedInv, UncommittedInv
  <2> QED BY <1>1, <1>2, <2>1, <2>3 DEF DayInv
<1>10. ArchiveInv'
  BY <1>1, <1>2 DEF ArchiveInv
<1>11. IsMemory(memory')
  BY <1>1, <1>3
<1> QED BY <1>1, <1>8, <1>9, <1>10, <1>11 DEF CellInv

\* Attesting the day.
LEMMA AttestKeeps ==
  ASSUME CellInv, Attest
  PROVE  CellInv'
<1>1. /\ pc = "attest" /\ pc' = "idle"
      /\ UNCHANGED <<cell, treatment, memory, instructions, shock, applied, staged,
                     ledger, pending, traces, days, archive>>
  BY DEF Attest, runtime, model
<1>2. /\ TypeOK /\ IsMemory(memory) /\ ArchiveInv /\ CommittedInv /\ PendingInv
      /\ TracesInv /\ StoreInv(cell, before.store) /\ evidence = before.store.evidence
      /\ treatment = before.store.treatment
  BY <1>1 DEF CellInv, DayInv
<1>3. PICK i : /\ i \in DOMAIN traces /\ traces[i].day = Len(days)
               /\ \A j \in DOMAIN traces : traces[j].day = Len(days) => j = i
               /\ \E x : /\ evidence' = Append(evidence, x)
                         /\ x.cell = cell /\ x.days = days /\ x.memory = memory
                         /\ x.applied = applied /\ x.ledger = traces[i].ledger
  BY DEF Attest, CallAccepted
<1>4. PICK x : /\ evidence' = Append(evidence, x)
               /\ x.cell = cell /\ x.days = days /\ x.memory = memory
               /\ x.applied = applied /\ x.ledger = traces[i].ledger
  BY <1>3
<1>5. traces[i].ledger = ledger
  <2>1. /\ Len(traces) = before.traced + 1 /\ before.traced \in Nat
        /\ TracesDated(traces, Len(days)) /\ traces[Len(traces)].ledger = ledger
    BY <1>1, <1>2 DEF TracesInv, Spoken, CommittedInv
  <2>2. DOMAIN traces = 1..Len(traces) /\ Len(days) \in Nat
    BY <1>2, SequenceFacts DEF TypeOK
  <2>3. Len(traces) \in DOMAIN traces /\ Len(traces) \in Nat
    BY <2>1, <2>2
  <2>4. traces[Len(traces)].day = Len(days) - Len(traces) + Len(traces)
    BY <2>1, <2>3 DEF TracesDated
  <2>5. traces[Len(traces)].day = Len(days)
    BY <2>2, <2>3, <2>4
  <2> QED BY <1>3, <2>1, <2>3, <2>5
<1>6. /\ IsSeq(evidence') /\ Len(evidence') = Len(days) /\ evidence' # <<>>
      /\ Last(evidence') = x
  <2>1. IsSeq(evidence)
    BY <1>2 DEF TypeOK
  <2>2. Len(evidence) + 1 = Len(days)
    BY <1>2 DEF CommittedInv, StoreInv, AlignedStore
  <2> QED BY <1>4, <2>1, <2>2, AppendFacts
<1>7. /\ Store'.treatment = treatment /\ Store'.memory = memory
      /\ Store'.instructions = instructions /\ Store'.shock = shock
      /\ Store'.applied = applied /\ Store'.ledger = ledger
      /\ Store'.days = days /\ Store'.evidence = evidence' /\ IsStore(Store')
  BY <1>1 DEF Store, IsStore
<1>8. AlignedStore(cell, Store')
  <2>1. treatment = cell.intervention
    BY <1>2 DEF StoreInv, AlignedStore
  <2>2. Len(days) >= ShockDay => shock # Nothing
    BY <1>2, CellAssumption, CalendarAssumption DEF CommittedInv
  <2>3. Len(applied) = IF Len(days) >= ActivationDay THEN 1 ELSE 0
    BY <1>2 DEF CommittedInv
  <2> QED BY <1>4, <1>5, <1>6, <1>7, <2>1, <2>2, <2>3 DEF AlignedStore
<1>9. StoreInv(cell, Store')
  <2>1. applied # <<>> => /\ applied[1].condition = cell.intervention
                          /\ InForce(applied[1], memory, instructions)
    BY <1>2 DEF CommittedInv
  <2> QED BY <1>2, <1>6, <1>7, <1>8, <2>1 DEF StoreInv, TypeOK
<1>10. IdleInv'
  <2>1. TracesDated(traces, Len(days))
    BY <1>1, <1>2 DEF TracesInv, Spoken, CommittedInv
  <2>2. pending = {} /\ staged = <<>>
    BY <1>1, <1>2 DEF PendingInv, CommittedInv
  <2> QED BY <1>1, <1>9, <2>1, <2>2 DEF IdleInv
<1>11. TypeOK'
  BY <1>1, <1>2, <1>6 DEF TypeOK, Steps
<1>12. ArchiveInv'
  BY <1>1, <1>2 DEF ArchiveInv
<1> QED BY <1>1, <1>2, <1>10, <1>11, <1>12 DEF CellInv

\* A failed day goes back to where it started.
LEMMA FailKeeps ==
  ASSUME CellInv, Fail
  PROVE  CellInv'
<1>1. /\ pc # "idle" /\ Load(before.store) /\ cell' = cell /\ archive' = archive
      /\ traces' = SubSeq(traces, 1, before.traced)
  BY DEF Fail, StoresBefore, TracesBefore
<1>2. /\ TypeOK /\ ArchiveInv /\ StoreInv(cell, before.store) /\ TracesInv
  BY <1>1 DEF CellInv, DayInv
<1>3. cell \in Cells /\ IsSeq(traces)
  BY <1>2 DEF TypeOK
<1> DEFINE n == before.traced
           k == IF Spoken THEN 1 ELSE 0
<1>4. /\ n \in Nat /\ k \in {0, 1} /\ Len(traces) = n + k
      /\ TracesDated(traces, Len(before.store.days) + k)
  BY <1>2 DEF TracesInv
<1> HIDE DEF k
<1>5. n \in 0..Len(traces)
  BY <1>4
<1>6. /\ IsSeq(traces') /\ Len(traces') = n /\ DOMAIN traces' = 1..n
      /\ \A i \in 1..n : traces'[i] = traces[i]
      /\ DOMAIN traces = 1..Len(traces)
  BY <1>1, <1>3, <1>5, PrefixFacts, SequenceFacts
<1>7. TracesDated(traces', Len(before.store.days))
  <2>1. Len(before.store.days) \in Nat
    BY <1>2, SequenceFacts DEF StoreInv
  <2>2. n <= Len(before.store.days)
    BY <1>4, <2>1 DEF TracesDated
  <2>3. ASSUME NEW i \in 1..n
        PROVE  traces'[i].day = Len(before.store.days) - n + i
    <3>1. i \in DOMAIN traces
      BY <1>4, <1>6
    <3>2. traces[i].day = (Len(before.store.days) + k) - Len(traces) + i
      BY <1>4, <3>1 DEF TracesDated
    <3>3. traces'[i].day = traces[i].day
      BY <1>6
    <3> QED BY <1>4, <2>1, <3>2, <3>3
  <2> QED BY <1>6, <2>2, <2>3 DEF TracesDated
<1> QED BY <1>1, <1>2, <1>3, <1>6, <1>7, LoadKeeps

(***************************************************************************)
(* The theorems.                                                           *)
(***************************************************************************)
LEMMA StutterKeeps ==
  ASSUME CellInv, UNCHANGED vars
  PROVE  CellInv'
<1>1. /\ UNCHANGED <<pc, cell, treatment, memory, instructions, shock, applied, staged,
                     ledger, pending, traces, days, evidence, before, archive>>
      /\ Store' = Store
  BY DEF vars, runtime, model, engine, Store
<1>2. TypeOK' = TypeOK /\ IsMemory(memory') /\ ArchiveInv' = ArchiveInv
  BY <1>1 DEF TypeOK, ArchiveInv, CellInv
<1>3. IdleInv' = IdleInv
  BY <1>1 DEF IdleInv
<1>4. DayInv' = DayInv
  BY <1>1 DEF DayInv, PendingInv, TracesInv, UncommittedInv, CommittedInv, Spoken, Today
<1> QED BY <1>1, <1>2, <1>3, <1>4 DEF CellInv

\* Every step keeps the invariant.
LEMMA NextKeeps ==
  ASSUME CellInv, [Next]_vars
  PROVE  CellInv'
<1>1. ASSUME DayStep
      PROVE  CellInv'
  BY <1>1, BeginKeeps, RetrieveKeeps, SelectKeeps, StageKeeps, SpeakKeeps,
     KeepAuditKeeps, KeepEpisodeKeeps, FinishKeeps, AttestKeeps DEF DayStep
<1>2. ASSUME NEW c \in Cells, StartCell(c)
      PROVE  CellInv'
  BY <1>2, StartKeeps
<1>3. ASSUME NEW c \in Cells, NEW p \in archive, NEW s \in archive,
             NEW r \in archive, NEW e \in archive, Restore(c, p, s, r, e)
      PROVE  CellInv'
  BY <1>3, RestoreKeeps
<1> QED BY <1>1, <1>2, <1>3, FailKeeps, CaptureKeeps, StutterKeeps DEF Next

\* The stores of an execution, the stores a failed day goes back to and every
\* captured bundle stay consistent, wherever a day stops.
THEOREM CellInductive == Spec => []CellInv
<1>1. CellInv /\ [Next]_vars => CellInv'
  BY NextKeeps
<1> QED BY <1>1, InitHolds, PTL DEF Spec

\* Every store holds values of its kind at every step of a day.
THEOREM CellTypes == Spec => []TypeOK
<1>1. CellInv => TypeOK
  BY DEF CellInv
<1> QED BY <1>1, CellInductive, PTL

\* Between days the stores agree with the end of the evidence chain.
THEOREM CellAligned == Spec => []Aligned
<1>1. CellInv => Aligned
  BY DEF CellInv, IdleInv, StoreInv, Aligned
<1> QED BY <1>1, CellInductive, PTL

\* Once the activation day is over, the cell's one treatment stays in force.
THEOREM TreatmentHolds == Spec => []TreatmentLasts
<1>1. CellInv => TreatmentLasts
  <2> SUFFICES ASSUME CellInv, pc = "idle", Len(days) >= ActivationDay
               PROVE  /\ applied[1].condition = cell.intervention
                      /\ InForce(applied[1], memory, instructions)
    BY DEF TreatmentLasts
  <2>1. StoreInv(cell, Store) /\ AlignedStore(cell, Store)
    BY DEF CellInv, IdleInv, StoreInv
  <2>2. Len(applied) = 1
    BY <2>1, StoreFields DEF AlignedStore
  <2>3. applied # <<>>
    BY <2>2, EmptyFacts
  <2> QED BY <2>1, <2>3, StoreFields DEF StoreInv
<1> QED BY <1>1, CellInductive, PTL

\* A step that changes the evidence chain ends a day, starts a fresh execution
\* or resumes one captured bundle as a whole.
THEOREM WholeResume == Spec => ResumesWhole
<1> DEFINE Whole(b) ==
             /\ cell' = b.cell /\ evidence' = b.evidence
             /\ days' = b.simulation.days /\ ledger' = b.ledger
             /\ treatment' = b.runtime.treatment /\ memory' = b.runtime.memory
             /\ instructions' = b.runtime.instructions /\ applied' = b.runtime.applied
             /\ shock' = b.runtime.shock
           Step == evidence' # evidence =>
                     \/ evidence' = <<>> \/ Front(evidence') = evidence
                     \/ \E b \in archive : Whole(b)
<1>1. ASSUME CellInv, Next
      PROVE  Step
  <2>1. CASE BeginDay \/ Retrieve \/ Select \/ Stage \/ Speak \/ KeepAudit
             \/ KeepEpisode \/ FinishCommit \/ Capture
    BY <2>1 DEF BeginDay, Retrieve, Select, Stage, Speak, KeepAudit, KeepEpisode,
                FinishCommit, Capture
  <2>2. CASE Attest
    <3>1. \E x : evidence' = Append(evidence, x)
      BY <2>2 DEF Attest
    <3>2. IsSeq(evidence)
      BY <1>1 DEF CellInv, TypeOK
    <3> QED BY <3>1, <3>2, FrontOfAppend
  <2>3. CASE Fail
    <3>1. evidence' = before.store.evidence /\ pc # "idle"
      BY <2>3 DEF Fail, Load, StoresBefore
    <3>2. evidence = before.store.evidence
      BY <1>1, <3>1 DEF CellInv, DayInv
    <3> QED BY <3>1, <3>2
  <2>4. ASSUME NEW c \in Cells, StartCell(c)
        PROVE  Step
    <3>1. evidence' = <<>>
      BY <2>4 DEF StartCell, Load, FreshStore
    <3> QED BY <3>1
  <2>5. ASSUME NEW c \in Cells, NEW p \in archive, NEW s \in archive,
               NEW r \in archive, NEW e \in archive, Restore(c, p, s, r, e)
        PROVE  Step
    <3>1. /\ p.cell = c /\ p.simulation = s.simulation /\ p.runtime = r.runtime
          /\ p.evidence = e.evidence /\ p.ledger = Last(e.evidence).ledger
      BY <2>5 DEF Restore, BundleAccepted
    <3>2. /\ cell' = p.cell /\ evidence' = p.evidence
          /\ days' = p.simulation.days /\ ledger' = p.ledger
          /\ treatment' = p.runtime.treatment /\ memory' = p.runtime.memory
          /\ instructions' = p.runtime.instructions /\ applied' = p.runtime.applied
          /\ shock' = p.runtime.shock
      BY <2>5, <3>1 DEF Restore, Load, ResumedInstructions, ResumedLedger
    <3>3. Whole(p)
      BY <3>2
    <3> HIDE DEF Whole
    <3> QED BY <3>3
  <2> QED BY <1>1, <2>1, <2>2, <2>3, <2>4, <2>5 DEF Next, DayStep
<1>2. CellInv /\ [Next]_vars => [Step]_vars
  BY <1>1
<1> QED BY <1>2, CellInductive, PTL DEF Spec, ResumesWhole

-----------------------------------------------------------------------------
\* What appending the first n of some episodes, one by one, makes of a memory.
Appends(f, base, episodes, n) ==
  /\ DOMAIN f = 0..n
  /\ f[0] = base
  /\ \A i \in 1..n : f[i] = AppendEpisode(f[i - 1], episodes[i])

Keeps(base, episodes, n, mem) == \E f : Appends(f, base, episodes, n) /\ f[n] = mem

\* Before the first episode nothing is appended.
LEMMA KeepsNone ==
  ASSUME NEW base, NEW episodes
  PROVE  Keeps(base, episodes, 0, base)
<1>1. Appends([i \in 0..0 |-> base], base, episodes, 0) /\ [i \in 0..0 |-> base][0] = base
  BY DEF Appends
<1> QED BY <1>1 DEF Keeps

\* Appending one episode more.
LEMMA KeepsOneMore ==
  ASSUME NEW base, NEW episodes, NEW n \in Nat, NEW mem, Keeps(base, episodes, n, mem)
  PROVE  Keeps(base, episodes, n + 1, AppendEpisode(mem, episodes[n + 1]))
<1>1. PICK f : Appends(f, base, episodes, n) /\ f[n] = mem
  BY DEF Keeps
<1> DEFINE next == AppendEpisode(mem, episodes[n + 1])
            g == [i \in 0..(n + 1) |-> IF i = n + 1 THEN next ELSE f[i]]
<1>2. g[n + 1] = next /\ \A i \in 0..n : g[i] = f[i]
  OBVIOUS
<1>3. Appends(g, base, episodes, n + 1)
  <2>1. DOMAIN g = 0..(n + 1)
    OBVIOUS
  <2>2. g[0] = base
    BY <1>1, <1>2 DEF Appends
  <2> HIDE DEF g, next
  <2>3. ASSUME NEW i \in 1..(n + 1)
        PROVE  g[i] = AppendEpisode(g[i - 1], episodes[i])
    <3>1. CASE i = n + 1
      <4>1. g[i - 1] = mem /\ g[i] = next
        BY <1>1, <1>2, <3>1
      <4> QED BY <3>1, <4>1 DEF next
    <3>2. CASE i \in 1..n
      <4>1. f[i] = AppendEpisode(f[i - 1], episodes[i])
        BY <1>1, <3>2 DEF Appends
      <4>2. g[i] = f[i] /\ g[i - 1] = f[i - 1]
        BY <1>2, <3>2
      <4> QED BY <4>1, <4>2
    <3> QED BY <3>1, <3>2
  <2> QED BY <2>1, <2>2, <2>3 DEF Appends
<1> QED BY <1>2, <1>3 DEF Keeps

\* There is one such memory.
LEMMA KeepsOne ==
  ASSUME NEW base, NEW episodes, NEW n \in Nat, NEW m1, NEW m2,
         Keeps(base, episodes, n, m1), Keeps(base, episodes, n, m2)
  PROVE  m1 = m2
<1>1. PICK f : Appends(f, base, episodes, n) /\ f[n] = m1
  BY DEF Keeps
<1>2. PICK g : Appends(g, base, episodes, n) /\ g[n] = m2
  BY DEF Keeps
<1> DEFINE T == {i \in 0..n : f[i] # g[i]}
<1>3. T = {}
  <2> SUFFICES ASSUME T # {} PROVE FALSE
    OBVIOUS
  <2>0. T \subseteq Nat
    OBVIOUS
  <2> HIDE DEF T
  <2>1. PICK i \in T : \A j \in T : i <= j
    BY <2>0, Least
  <2> USE DEF T
  <2>2. i # 0
    BY <1>1, <1>2 DEF Appends
  <2>3. i \in 1..n /\ i - 1 \in 0..n /\ i - 1 \notin T
    BY <2>1, <2>2
  <2>4. f[i - 1] = g[i - 1]
    BY <2>3
  <2> QED BY <1>1, <1>2, <2>3, <2>4 DEF Appends
<1> QED BY <1>1, <1>2, <1>3

-----------------------------------------------------------------------------
(***************************************************************************)
(* A day as a relation between the stores before and after it.             *)
(***************************************************************************)
Number(s) == Len(s.days) + 1

SeenOn(s) == IF Number(s) = ShockDay THEN Number(s) ELSE s.shock

StagedOn(s) ==
  IF Number(s) = ActivationDay
  THEN <<Treated(s.treatment, s.memory, s.instructions, SeenOn(s))>> ELSE <<>>

SourceOn(s) == IF StagedOn(s) # <<>> THEN StagedOn(s)[1].memory ELSE s.memory

ActiveOn(s) == IF StagedOn(s) # <<>> THEN StagedOn(s)[1].instructions ELSE s.instructions

AppliedOn(s) ==
  IF StagedOn(s) # <<>> THEN Append(s.applied, StagedOn(s)[1].record) ELSE s.applied

OverlayOn(s) ==
  [instructions |-> ActiveOn(s),
   blocked |-> SourceOn(s).blocked,
   record |-> IF StagedOn(s) # <<>> THEN StagedOn(s)[1].record
              ELSE IF s.applied # <<>> THEN Last(s.applied) ELSE Nothing]

ContextOn(s) ==
  [day |-> Number(s),
   retrieval |-> Rank(SourceOn(s), Query(SourceOn(s), Number(s))),
   belief |-> Belief(SourceOn(s)),
   overlay |-> OverlayOn(s)]

InputOn(s) ==
  LET selected == ContextOn(s).retrieval.selected
  IN [day |-> Number(s),
      selected |-> {<<id, Revision(SourceOn(s), id)>> : id \in selected},
      belief |-> Belief(s.memory),
      instructions |-> ActiveOn(s)]

ChosenOn(s) == Append(s.ledger, <<"action", InputOn(s)>>)

LedgerOn(s) == Append(ChosenOn(s), <<"language", Action(InputOn(s))>>)

RecordOn(s) ==
  [day |-> Number(s),
   retrieved |-> ContextOn(s).retrieval.selected,
   belief |-> ContextOn(s).belief,
   decision |-> InputOn(s)]

TraceOn(s) ==
  [day |-> Number(s), input |-> InputOn(s), overlay |-> OverlayOn(s), ledger |-> LedgerOn(s)]

EventOn(c, s) == Candidates(c.formation, Number(s))

DraftsOn(c, s) ==
  [i \in DOMAIN EventOn(c, s) |->
     [id |-> EventOn(c, s)[i], day |-> Number(s), action |-> Action(InputOn(s))]]

EpisodesOn(c, s) ==
  [i \in DOMAIN EventOn(c, s) |->
     [id |-> EventOn(c, s)[i], day |-> Number(s), action |-> Action(InputOn(s)),
      source |-> Append(s.days, RecordOn(s))]]

AuditedOn(s) == CommitRetrieval(SourceOn(s), ContextOn(s).retrieval)

RememberedOn(c, s, mem) == UpdateBelief(mem, Number(s), Range(EventOn(c, s)))

EvidenceOn(c, s, mem) ==
  [cell |-> c, day |-> Number(s), days |-> Append(s.days, RecordOn(s)),
   shock |-> Number(s) = ShockDay /\ SeenOn(s) = Number(s),
   retrieval |-> ContextOn(s).retrieval, memory |-> RememberedOn(c, s, mem),
   applied |-> AppliedOn(s), input |-> InputOn(s),
   overlay |-> OverlayOn(s), ledger |-> LedgerOn(s)]

After(c, s, mem) ==
  [treatment |-> s.treatment, memory |-> RememberedOn(c, s, mem),
   instructions |-> ActiveOn(s), shock |-> SeenOn(s), applied |-> AppliedOn(s),
   ledger |-> LedgerOn(s), days |-> Append(s.days, RecordOn(s)),
   evidence |-> Append(s.evidence, EvidenceOn(c, s, mem))]

Kept(c, s, n, mem) == Keeps(AuditedOn(s), EpisodesOn(c, s), n, mem)

Lived(c, s, t) == \E mem : Kept(c, s, Len(EventOn(c, s)), mem) /\ t = After(c, s, mem)

\* A day has one outcome.
LEMMA LivedOnce ==
  ASSUME NEW c, NEW s, NEW t1, NEW t2, Lived(c, s, t1), Lived(c, s, t2),
         Len(EventOn(c, s)) \in Nat
  PROVE  t1 = t2
BY KeepsOne DEF Lived, Kept

(***************************************************************************)
(* The days of a cell, one after another.                                  *)
(***************************************************************************)
Grows(c, f, n) ==
  /\ DOMAIN f = 0..n
  /\ f[0] = FreshStore(c)
  /\ \A i \in 1..n : Lived(c, f[i - 1], f[i])

Grown(c, s) == \E f : Grows(c, f, Len(s.evidence)) /\ f[Len(s.evidence)] = s

\* A fresh execution has lived no day.
LEMMA GrownFresh ==
  ASSUME NEW c
  PROVE  Grown(c, FreshStore(c))
<1> DEFINE f == [i \in 0..0 |-> FreshStore(c)]
<1>1. Len(FreshStore(c).evidence) = 0
  BY EmptyFacts DEF FreshStore
<1>2. f[0] = FreshStore(c)
  OBVIOUS
<1>3. Grows(c, f, 0)
  BY <1>2 DEF Grows
<1> QED BY <1>1, <1>2, <1>3 DEF Grown

\* An execution that lives a day goes on being one that grew day by day.
LEMMA GrownOneMore ==
  ASSUME NEW c, NEW s, NEW t, Grown(c, s), Lived(c, s, t), Len(s.evidence) \in Nat,
         Len(t.evidence) = Len(s.evidence) + 1
  PROVE  Grown(c, t)
<1> DEFINE n == Len(s.evidence)
<1>1. PICK f : Grows(c, f, n) /\ f[n] = s
  BY DEF Grown
<1> DEFINE g == [i \in 0..(n + 1) |-> IF i = n + 1 THEN t ELSE f[i]]
<1>2. g[n + 1] = t /\ \A i \in 0..n : g[i] = f[i]
  OBVIOUS
<1>3. Grows(c, g, n + 1)
  <2>1. DOMAIN g = 0..(n + 1)
    OBVIOUS
  <2>2. g[0] = FreshStore(c)
    BY <1>1, <1>2 DEF Grows
  <2> HIDE DEF g
  <2>3. ASSUME NEW i \in 1..(n + 1)
        PROVE  Lived(c, g[i - 1], g[i])
    <3>1. CASE i = n + 1
      BY <1>1, <1>2, <3>1
    <3>2. CASE i \in 1..n
      <4>1. Lived(c, f[i - 1], f[i])
        BY <1>1, <3>2 DEF Grows
      <4>2. g[i] = f[i] /\ g[i - 1] = f[i - 1]
        BY <1>2, <3>2
      <4> QED BY <4>1, <4>2
    <3> QED BY <3>1, <3>2
  <2> QED BY <2>1, <2>2, <2>3 DEF Grows
<1> QED BY <1>2, <1>3 DEF Grown

(***************************************************************************)
(* What is always so of a store that a cell has grown: its logs are        *)
(* sequences, its days are counted and its evidence is that of each day.   *)
(***************************************************************************)
Counted(s, n) ==
  /\ IsSeq(s.days) /\ Len(s.days) = n
  /\ IsSeq(s.evidence) /\ Len(s.evidence) = n

\* A day adds one record and one piece of evidence, and changes none of the others.
LEMMA LivedCounts ==
  ASSUME NEW c, NEW s, NEW t, NEW n \in Nat, Lived(c, s, t), Counted(s, n)
  PROVE  /\ Counted(t, n + 1)
         /\ \A i \in 1..n : t.evidence[i] = s.evidence[i]
<1>1. PICK mem : t = After(c, s, mem)
  BY DEF Lived
<1>2. /\ t.days = Append(s.days, RecordOn(s))
      /\ t.evidence = Append(s.evidence, EvidenceOn(c, s, mem))
  BY <1>1 DEF After
<1>3. IsSeq(s.days) /\ IsSeq(s.evidence) /\ Len(s.evidence) = n /\ Len(s.days) = n
  BY DEF Counted
<1>4. DOMAIN s.evidence = 1..n
  BY <1>3, SequenceFacts
<1> QED BY <1>2, <1>3, <1>4, AppendFacts DEF Counted

\* After i days there are i records and i pieces of evidence, each as of its day.
LEMMA GrowsCounts ==
  ASSUME NEW c, NEW f, NEW n \in Nat, Grows(c, f, n)
  PROVE  \A i \in 0..n : /\ Counted(f[i], i)
                         /\ \A j \in 1..i : f[i].evidence[j] = f[j].evidence[j]
<1> DEFINE Good(i) == /\ Counted(f[i], i)
                       /\ \A j \in 1..i : f[i].evidence[j] = f[j].evidence[j]
            T == {i \in 0..n : ~ Good(i)}
<1>1. T = {}
  <2> SUFFICES ASSUME T # {} PROVE FALSE
    OBVIOUS
  <2>1. T \subseteq Nat
    OBVIOUS
  <2>2. PICK i \in T : \A j \in T : i <= j
    <3> HIDE DEF T
    <3> QED BY <2>1, Least
  <2>3. Good(0)
    BY EmptyFacts DEF Grows, FreshStore, Counted
  <2>4. i \in 1..n /\ i - 1 \in 0..n /\ i - 1 \notin T
    BY <2>2, <2>3
  <2>5. Good(i - 1)
    BY <2>4
  <2>6. Lived(c, f[i - 1], f[i])
    BY <2>4 DEF Grows
  <2>7. /\ Counted(f[i], i - 1 + 1)
        /\ \A j \in 1..(i - 1) : f[i].evidence[j] = f[i - 1].evidence[j]
    BY <2>4, <2>5, <2>6, LivedCounts
  <2>8. Good(i)
    BY <2>4, <2>5, <2>7
  <2> QED BY <2>2, <2>8
<1> QED BY <1>1

\* The event of every day is a sequence of candidates.
LEMMA EventCounts ==
  ASSUME NEW c \in Cells, NEW s, NEW n \in Nat, Counted(s, n), n < LastDay
  PROVE  /\ Number(s) = n + 1 /\ Len(EventOn(c, s)) \in Nat
         /\ DOMAIN EventOn(c, s) = 1..Len(EventOn(c, s))
<1>1. Number(s) = n + 1 /\ n + 1 \in 1..LastDay
  BY CellAssumption DEF Number, Counted
<1>2. EventOn(c, s) \in Seq(MemoryIds)
  BY <1>1, CellAssumption DEF EventOn
<1> QED BY <1>1, <1>2

\* Two executions of a cell are the same, as far as both go.
LEMMA GrowsAgree ==
  ASSUME NEW c \in Cells, NEW f, NEW n \in Nat, Grows(c, f, n), n <= LastDay,
         NEW g, NEW m \in Nat, Grows(c, g, m), m <= LastDay
  PROVE  \A i \in (0..n) \cap (0..m) : f[i] = g[i]
<1> DEFINE T == {i \in (0..n) \cap (0..m) : f[i] # g[i]}
<1>1. T = {}
  <2> SUFFICES ASSUME T # {} PROVE FALSE
    OBVIOUS
  <2>1. T \subseteq Nat
    OBVIOUS
  <2>2. PICK i \in T : \A j \in T : i <= j
    <3> HIDE DEF T
    <3> QED BY <2>1, Least
  <2>3. i # 0
    BY <2>2 DEF Grows
  <2>4. /\ i \in 1..n /\ i \in 1..m /\ i - 1 \in 0..n /\ i - 1 \in 0..m
        /\ i - 1 \notin T
    BY <2>2, <2>3
  <2>5. f[i - 1] = g[i - 1]
    BY <2>4
  <2>6. Lived(c, f[i - 1], f[i]) /\ Lived(c, g[i - 1], g[i])
    BY <2>4 DEF Grows
  <2>7. Counted(f[i - 1], i - 1)
    BY <2>4, GrowsCounts
  <2>8. Len(EventOn(c, f[i - 1])) \in Nat
    BY <2>4, <2>7, EventCounts, CellAssumption
  <2>9. f[i] = g[i]
    BY <2>5, <2>6, <2>8, LivedOnce
  <2> QED BY <2>2, <2>9
<1> QED BY <1>1

(***************************************************************************)
(* Two arms of a formation before the activation day.                      *)
(***************************************************************************)
Alike(s, t) ==
  /\ s.memory = t.memory /\ s.instructions = t.instructions /\ s.shock = t.shock
  /\ s.applied = t.applied /\ s.ledger = t.ledger /\ s.days = t.days

SameEvidence(x, y) ==
  x.days = y.days /\ x.input = y.input /\ x.memory = y.memory /\ x.ledger = y.ledger

\* A day other than the activation day keeps two arms alike and adds the same
\* evidence to both.
LEMMA ArmsLiveAlike ==
  ASSUME NEW a, NEW b, a.formation = b.formation,
         NEW s, NEW t, Alike(s, t), Number(s) # ActivationDay, Len(EventOn(a, s)) \in Nat,
         IsSeq(s.evidence), IsSeq(t.evidence),
         NEW s2, NEW t2, Lived(a, s, s2), Lived(b, t, t2)
  PROVE  Alike(s2, t2) /\ SameEvidence(Last(s2.evidence), Last(t2.evidence))
<1>1. Number(s) = Number(t) /\ EventOn(a, s) = EventOn(b, t)
  BY DEF Alike, Number, EventOn
<1>2. SeenOn(s) = SeenOn(t) /\ StagedOn(s) = <<>> /\ StagedOn(t) = <<>>
  BY <1>1 DEF SeenOn, StagedOn, Alike
<1>3. SourceOn(s) = SourceOn(t) /\ ActiveOn(s) = ActiveOn(t) /\ AppliedOn(s) = AppliedOn(t)
  BY <1>2 DEF SourceOn, ActiveOn, AppliedOn, Alike
<1>4. OverlayOn(s) = OverlayOn(t)
  BY <1>2, <1>3 DEF OverlayOn, Alike
<1>5. ContextOn(s) = ContextOn(t)
  BY <1>1, <1>3, <1>4 DEF ContextOn
<1>6. InputOn(s) = InputOn(t)
  BY <1>1, <1>3, <1>5 DEF InputOn, Alike
<1>7. LedgerOn(s) = LedgerOn(t) /\ RecordOn(s) = RecordOn(t)
  BY <1>1, <1>5, <1>6 DEF LedgerOn, ChosenOn, RecordOn, Alike
<1>8. Append(s.days, RecordOn(s)) = Append(t.days, RecordOn(t))
  BY <1>7 DEF Alike
<1>9. EpisodesOn(a, s) = EpisodesOn(b, t) /\ AuditedOn(s) = AuditedOn(t)
  BY <1>1, <1>3, <1>5, <1>6, <1>8 DEF EpisodesOn, AuditedOn
<1>10. PICK m1 : Kept(a, s, Len(EventOn(a, s)), m1) /\ s2 = After(a, s, m1)
  BY DEF Lived
<1>11. PICK m2 : Kept(b, t, Len(EventOn(b, t)), m2) /\ t2 = After(b, t, m2)
  BY DEF Lived
<1>12. m1 = m2
  BY <1>1, <1>9, <1>10, <1>11, KeepsOne DEF Kept
<1>13. RememberedOn(a, s, m1) = RememberedOn(b, t, m2)
  BY <1>1, <1>12 DEF RememberedOn
<1>14. /\ s2.memory = RememberedOn(a, s, m1) /\ t2.memory = RememberedOn(b, t, m2)
       /\ s2.instructions = ActiveOn(s) /\ t2.instructions = ActiveOn(t)
       /\ s2.shock = SeenOn(s) /\ t2.shock = SeenOn(t)
       /\ s2.applied = AppliedOn(s) /\ t2.applied = AppliedOn(t)
       /\ s2.ledger = LedgerOn(s) /\ t2.ledger = LedgerOn(t)
       /\ s2.days = Append(s.days, RecordOn(s)) /\ t2.days = Append(t.days, RecordOn(t))
       /\ s2.evidence = Append(s.evidence, EvidenceOn(a, s, m1))
       /\ t2.evidence = Append(t.evidence, EvidenceOn(b, t, m2))
  BY <1>10, <1>11 DEF After
<1>15. Alike(s2, t2)
  BY <1>2, <1>3, <1>7, <1>8, <1>13, <1>14 DEF Alike
<1>16. Last(s2.evidence) = EvidenceOn(a, s, m1) /\ Last(t2.evidence) = EvidenceOn(b, t, m2)
  BY <1>14, AppendFacts
<1>17. SameEvidence(EvidenceOn(a, s, m1), EvidenceOn(b, t, m2))
  BY <1>6, <1>7, <1>8, <1>13 DEF EvidenceOn, SameEvidence
<1> QED BY <1>15, <1>16, <1>17

\* Arms of one formation are alike on every day before the activation day.
LEMMA ArmsGrowAlike ==
  ASSUME NEW a \in Cells, NEW b \in Cells, a.formation = b.formation,
         NEW f, NEW n \in Nat, Grows(a, f, n), n <= LastDay,
         NEW g, NEW m \in Nat, Grows(b, g, m), m <= LastDay
  PROVE  \A i \in (0..n) \cap (0..m) : i < ActivationDay => Alike(f[i], g[i])
<1> DEFINE T == {i \in (0..n) \cap (0..m) : i < ActivationDay /\ ~ Alike(f[i], g[i])}
<1>1. T = {}
  <2> SUFFICES ASSUME T # {} PROVE FALSE
    OBVIOUS
  <2>1. T \subseteq Nat
    OBVIOUS
  <2>2. PICK i \in T : \A j \in T : i <= j
    <3> HIDE DEF T
    <3> QED BY <2>1, Least
  <2>3. Alike(f[0], g[0])
    BY DEF Grows, Alike, FreshStore, InitialInstructions, InitialLedger
  <2>4. /\ i \in 1..n /\ i \in 1..m /\ i - 1 \in 0..n /\ i - 1 \in 0..m
        /\ i - 1 \notin T /\ i < ActivationDay
    BY <2>2, <2>3
  <2>5. ActivationDay \in Nat
    BY CalendarAssumption
  <2>6. Alike(f[i - 1], g[i - 1])
    BY <2>4, <2>5
  <2>7. Lived(a, f[i - 1], f[i]) /\ Lived(b, g[i - 1], g[i])
    BY <2>4 DEF Grows
  <2>8. Counted(f[i - 1], i - 1) /\ Counted(g[i - 1], i - 1)
    BY <2>4, GrowsCounts
  <2>9. Number(f[i - 1]) = i /\ Len(EventOn(a, f[i - 1])) \in Nat
    BY <2>4, <2>8, EventCounts, CellAssumption
  <2>10. Alike(f[i], g[i])
    BY <2>4, <2>5, <2>6, <2>7, <2>8, <2>9, ArmsLiveAlike DEF Counted
  <2> QED BY <2>2, <2>10
<1> QED BY <1>1

(***************************************************************************)
(* How far a day has come is determined by the stores it started from.     *)
(***************************************************************************)
\* Some of the day's episodes are stored; the others are still drafts.
Appending(s) ==
  /\ (staged = <<>>) = (StagedOn(s) = <<>>)
  /\ staged # <<>> => /\ staged[1].instructions = StagedOn(s)[1].instructions
                      /\ staged[1].record = StagedOn(s)[1].record
  /\ IsSeq(drafts)
  /\ \E k \in Nat :
       /\ k + Len(drafts) = Len(EventOn(cell, s))
       /\ \A i \in 1..Len(drafts) : drafts[i] = DraftsOn(cell, s)[k + i]
       /\ Kept(cell, s, k, SourceMemory)

Committed(s) ==
  /\ \E mem : Kept(cell, s, Len(EventOn(cell, s)), mem) /\ memory = RememberedOn(cell, s, mem)
  /\ instructions = ActiveOn(s) /\ applied = AppliedOn(s)
  /\ days = Append(s.days, RecordOn(s))

Determined(s) ==
  /\ pc = "retrieve" => ledger = s.ledger
  /\ pc # "retrieve" => shock = SeenOn(s) /\ context = ContextOn(s)
  /\ pc \in {"select", "stage", "speak", "commit"} => staged = StagedOn(s)
  /\ pc = "select" => ledger = s.ledger
  /\ pc \in {"stage", "speak"} =>
       /\ ledger = ChosenOn(s)
       /\ pending = {[input |-> InputOn(s), overlay |-> OverlayOn(s), ledger |-> ChosenOn(s)]}
  /\ pc \in {"stage", "speak", "commit", "append"} => decision = InputOn(s)
  /\ pc \in {"speak", "commit"} => drafts = DraftsOn(cell, s)
  /\ pc = "commit" => memory = s.memory
  /\ Spoken => ledger = LedgerOn(s) /\ traces[Len(traces)] = TraceOn(s)
  /\ pc = "append" => Appending(s)
  /\ pc = "attest" => Committed(s)

\* What the day reads of the stores, before its commit.
LEMMA Unchanged ==
  ASSUME CellInv, pc \notin {"idle", "attest"}, NEW s, s = before.store
  PROVE  /\ Today = Number(s) /\ days = s.days /\ applied = s.applied
         /\ instructions = s.instructions /\ treatment = s.treatment
         /\ pc \notin {"commit", "append"} => memory = s.memory
         /\ pc = "retrieve" => shock = s.shock /\ staged = <<>>
BY DuringDay DEF UncommittedInv, DayInv, Today, Number

\* A day starts from the stores it can go back to.
LEMMA BeginDetermines ==
  ASSUME CellInv, BeginDay, NEW s, s = Store
  PROVE  s = before'.store /\ Determined(s)'
<1>1. pc' = "retrieve" /\ before'.store = Store /\ ledger' = ledger
  BY DEF BeginDay, model
<1> QED BY <1>1, StoreFields DEF Determined, Spoken

\* Shock, pending treatment and retrieval follow from the stores of the morning.
LEMMA RetrieveDetermines ==
  ASSUME CellInv, Retrieve, NEW s, s = before.store, Determined(s)
  PROVE  Determined(s)'
<1>1. /\ pc = "retrieve" /\ pc' = "select" /\ shock' = ShockSeen
      /\ staged' = IF Today = ActivationDay THEN <<Activation(shock')>> ELSE staged
      /\ context' = [day |-> Today,
                     retrieval |-> Rank(SourceMemory', Query(SourceMemory', Today)),
                     belief |-> Belief(SourceMemory'),
                     overlay |-> Overlay']
      /\ UNCHANGED <<cell, treatment, memory, instructions, applied, ledger>>
  BY DEF Retrieve, model
<1>2. /\ Today = Number(s) /\ applied = s.applied /\ memory = s.memory
      /\ instructions = s.instructions /\ treatment = s.treatment
      /\ shock = s.shock /\ staged = <<>>
  BY <1>1, Unchanged
<1>3. shock' = SeenOn(s)
  BY <1>1, <1>2 DEF ShockSeen, SeenOn
<1>4. Today = ActivationDay => applied = <<>>
  <2>1. /\ Len(days) \in Nat /\ IsSeq(applied)
        /\ Len(applied) = IF Len(days) >= ActivationDay THEN 1 ELSE 0
    BY <1>1, DuringDay DEF TypeOK
  <2> QED BY <2>1, CalendarAssumption, SequenceFacts DEF Today
<1>5. staged' = StagedOn(s)
  BY <1>1, <1>2, <1>3, <1>4 DEF Activation, StagedOn
<1>6. SourceMemory' = SourceOn(s) /\ ActiveInstructions' = ActiveOn(s)
  BY <1>1, <1>2, <1>5 DEF SourceMemory, SourceOn, ActiveInstructions, ActiveOn
<1>7. Overlay' = OverlayOn(s)
  BY <1>1, <1>2, <1>5, <1>6 DEF Overlay, OverlayOn
<1>8. context' = ContextOn(s)
  BY <1>1, <1>2, <1>6, <1>7 DEF ContextOn
<1> QED BY <1>1, <1>3, <1>5, <1>8 DEF Determined, Spoken

\* So does what the model is asked, ...
LEMMA SelectDetermines ==
  ASSUME CellInv, Select, NEW s, s = before.store, Determined(s)
  PROVE  Determined(s)'
<1>1. /\ pc = "select" /\ pc' = "stage" /\ decision' = Input
      /\ ledger' = Append(ledger, <<"action", Input>>)
      /\ pending' = {p \in pending : p.input # Input} \cup
                      {[input |-> Input, overlay |-> context.overlay, ledger |-> ledger']}
      /\ UNCHANGED <<cell, shock, staged, context>>
  BY DEF Select, runtime
<1>2. /\ Today = Number(s) /\ memory = s.memory /\ instructions = s.instructions
  BY <1>1, Unchanged
<1>3. shock = SeenOn(s) /\ context = ContextOn(s) /\ staged = StagedOn(s) /\ ledger = s.ledger
  BY <1>1 DEF Determined
<1>4. SourceMemory = SourceOn(s) /\ ActiveInstructions = ActiveOn(s)
  BY <1>2, <1>3 DEF SourceMemory, SourceOn, ActiveInstructions, ActiveOn
<1>5. Input = InputOn(s)
  BY <1>2, <1>3, <1>4 DEF Input, InputOn, SelectedEvidence
<1>6. ledger' = ChosenOn(s)
  BY <1>1, <1>3, <1>5 DEF ChosenOn
<1>7. pending = {}
  BY <1>1, DuringDay DEF PendingInv
<1>8. context.overlay = OverlayOn(s)
  BY <1>3 DEF ContextOn
<1>9. pending' = {[input |-> InputOn(s), overlay |-> OverlayOn(s), ledger |-> ChosenOn(s)]}
  BY <1>1, <1>5, <1>6, <1>7, <1>8
<1> QED BY <1>1, <1>3, <1>5, <1>6, <1>9 DEF Determined, Spoken

\* ... what is drafted, ...
LEMMA StageDetermines ==
  ASSUME CellInv, Stage, NEW s, s = before.store, Determined(s)
  PROVE  Determined(s)'
<1>1. /\ pc = "stage" /\ pc' = "speak" /\ drafts' = Drafts
      /\ UNCHANGED <<cell, shock, staged, context, ledger, pending, decision>>
  BY DEF Stage, runtime, model
<1>2. Today = Number(s)
  BY <1>1, Unchanged
<1>3. /\ shock = SeenOn(s) /\ context = ContextOn(s) /\ staged = StagedOn(s)
      /\ ledger = ChosenOn(s) /\ decision = InputOn(s)
      /\ pending = {[input |-> InputOn(s), overlay |-> OverlayOn(s), ledger |-> ChosenOn(s)]}
  BY <1>1 DEF Determined
<1>4. drafts' = DraftsOn(cell, s)
  BY <1>1, <1>2, <1>3 DEF Drafts, DraftsOn, EventOn
<1> QED BY <1>1, <1>3, <1>4 DEF Determined, Spoken

\* ... and the call that the language ends.
LEMMA SpeakDetermines ==
  ASSUME CellInv, Speak, NEW s, s = before.store, Determined(s)
  PROVE  Determined(s)'
<1>1. /\ pc = "speak" /\ pc' = "commit"
      /\ UNCHANGED <<cell, shock, staged, context, memory, decision, drafts>>
  BY DEF Speak, runtime, engine
<1>2. Today = Number(s) /\ IsSeq(traces) /\ memory = s.memory
  BY <1>1, Unchanged, DuringDay DEF TypeOK
<1>3. /\ shock = SeenOn(s) /\ context = ContextOn(s) /\ staged = StagedOn(s)
      /\ decision = InputOn(s) /\ drafts = DraftsOn(cell, s)
      /\ pending = {[input |-> InputOn(s), overlay |-> OverlayOn(s), ledger |-> ChosenOn(s)]}
  BY <1>1 DEF Determined
<1>4. PICK p \in pending :
        /\ ledger' = Append(p.ledger, <<"language", Action(decision)>>)
        /\ traces' = Append(traces, [day |-> Today, input |-> p.input,
                                     overlay |-> p.overlay, ledger |-> ledger'])
  BY DEF Speak
<1>5. p.input = InputOn(s) /\ p.overlay = OverlayOn(s) /\ p.ledger = ChosenOn(s)
  BY <1>3
<1>6. ledger' = LedgerOn(s)
  BY <1>3, <1>4, <1>5 DEF LedgerOn
<1>7. traces' = Append(traces, TraceOn(s))
  BY <1>2, <1>4, <1>5, <1>6 DEF TraceOn
<1>8. traces'[Len(traces')] = TraceOn(s)
  BY <1>2, <1>7, AppendFacts
<1> QED BY <1>1, <1>2, <1>3, <1>6, <1>8 DEF Determined, Spoken

\* What writing m to the memory of the day does.
LEMMA WriteMoves ==
  ASSUME NEW m, WriteMemory(m)
  PROVE  /\ SourceMemory' = m
         /\ (staged' = <<>>) = (staged = <<>>)
         /\ staged # <<>> => /\ staged'[1].instructions = staged[1].instructions
                             /\ staged'[1].record = staged[1].record
BY DEF WriteMemory, SourceMemory

\* The day's event is a sequence of candidates.
LEMMA EventOfDay ==
  ASSUME CellInv, pc # "idle", NEW s, s = before.store
  PROVE  /\ cell \in Cells /\ Len(EventOn(cell, s)) \in Nat
         /\ DOMAIN EventOn(cell, s) = 1..Len(EventOn(cell, s))
<1> DEFINE n == Len(s.days)
<1>1. /\ cell \in Cells /\ n < LastDay /\ StoreInv(cell, s)
  BY DEF CellInv, TypeOK, DayInv
<1>2. IsSeq(s.days) /\ IsSeq(s.evidence) /\ Len(s.evidence) = n
  BY <1>1 DEF StoreInv, AlignedStore
<1>3. n \in Nat /\ Counted(s, n)
  BY <1>2, SequenceFacts DEF Counted
<1> QED BY <1>1, <1>3, EventCounts

\* There is one draft for each candidate.
LEMMA DraftsAreSeq ==
  ASSUME NEW c, NEW s, DOMAIN EventOn(c, s) = 1..Len(EventOn(c, s)), Len(EventOn(c, s)) \in Nat
  PROVE  IsSeq(DraftsOn(c, s)) /\ Len(DraftsOn(c, s)) = Len(EventOn(c, s))
<1> DEFINE n == Len(EventOn(c, s))
            d == DraftsOn(c, s)
<1>1. DOMAIN d = 1..n
  BY DEF DraftsOn
<1>2. \E f : d = [i \in 1..n |-> f[i]]
  <2>1. d = [i \in 1..n |-> d[i]]
    BY DEF DraftsOn
  <2> QED BY <2>1
<1>3. PICK f : d = [i \in 1..n |-> f[i]]
  BY <1>2
<1> HIDE DEF d
<1>4. d \in Seq({f[i] : i \in 1..n}) /\ Len(d) = n
  BY <1>3
<1>5. d \in Seq({f[i] : i \in 1..n}) => IsSeq(d)
  BY SeqOfItsRange
<1>6. IsSeq(d) /\ Len(d) = n
  BY <1>4, <1>5
<1> QED BY <1>6 DEF d

\* The retrieval is recorded in the memory of the day.
LEMMA KeepAuditDetermines ==
  ASSUME CellInv, KeepAudit, NEW s, s = before.store, Determined(s)
  PROVE  Determined(s)'
<1>1. /\ pc = "commit" /\ pc' = "append"
      /\ WriteMemory(CommitRetrieval(SourceMemory, context.retrieval))
      /\ UNCHANGED <<cell, shock, context, ledger, traces, decision, drafts>>
  BY DEF KeepAudit, model, engine
<1>2. /\ shock = SeenOn(s) /\ context = ContextOn(s) /\ staged = StagedOn(s)
      /\ decision = InputOn(s) /\ drafts = DraftsOn(cell, s)
      /\ ledger = LedgerOn(s) /\ traces[Len(traces)] = TraceOn(s)
  BY <1>1 DEF Determined, Spoken
<1>3. /\ Len(EventOn(cell, s)) \in Nat /\ DOMAIN EventOn(cell, s) = 1..Len(EventOn(cell, s))
  BY <1>1, EventOfDay
<1>4. IsSeq(drafts) /\ Len(drafts) = Len(EventOn(cell, s))
  BY <1>2, <1>3, DraftsAreSeq
<1>5. SourceMemory = SourceOn(s)
  BY <1>1, <1>2 DEF Determined, SourceMemory, SourceOn
<1>6. CommitRetrieval(SourceMemory, context.retrieval) = AuditedOn(s)
  BY <1>2, <1>5 DEF AuditedOn
<1>7. Kept(cell, s, 0, SourceMemory')
  BY <1>1, <1>6, WriteMoves, KeepsNone DEF Kept
<1>8. /\ 0 + Len(drafts) = Len(EventOn(cell, s))
      /\ \A i \in 1..Len(drafts) : drafts[i] = DraftsOn(cell, s)[0 + i]
  BY <1>2, <1>3, <1>4
<1>9. Appending(s)'
  BY <1>1, <1>2, <1>4, <1>7, <1>8, WriteMoves DEF Appending
<1> QED BY <1>1, <1>2, <1>9 DEF Determined, Spoken

\* The rest of a sequence.
LEMMA TailFacts ==
  ASSUME NEW q, IsSeq(q), q # <<>>
  PROVE  /\ IsSeq(Tail(q)) /\ Len(Tail(q)) = Len(q) - 1 /\ Head(q) = q[1]
         /\ Len(q) \in Nat \ {0}
         /\ \A i \in 1..Len(Tail(q)) : Tail(q)[i] = q[i + 1]
<1>1. q \in Seq(Range(q))
  BY DEF IsSeq
<1>2. /\ Tail(q) \in Seq(Range(q)) /\ Len(Tail(q)) = Len(q) - 1 /\ Head(q) = q[1]
      /\ Len(q) \in Nat \ {0}
      /\ \A i \in 1..Len(Tail(q)) : Tail(q)[i] = q[i + 1]
  BY <1>1
<1> QED BY <1>2, SeqOfItsRange

\* Episodes are kept in the order of their candidates.
LEMMA KeepEpisodeDetermines ==
  ASSUME CellInv, KeepEpisode, NEW s, s = before.store, Determined(s)
  PROVE  Determined(s)'
<1> DEFINE episode == [id |-> Head(drafts).id, day |-> Head(drafts).day,
                        action |-> Head(drafts).action,
                        source |-> Append(days, StepRecord)]
<1>1. /\ pc = "append" /\ pc' = "append" /\ drafts # <<>> /\ drafts' = Tail(drafts)
      /\ WriteMemory(AppendEpisode(SourceMemory, episode))
      /\ UNCHANGED <<cell, shock, context, ledger, traces, decision>>
  BY DEF KeepEpisode, NextEpisode, model
<1>2. /\ shock = SeenOn(s) /\ context = ContextOn(s) /\ decision = InputOn(s)
      /\ ledger = LedgerOn(s) /\ traces[Len(traces)] = TraceOn(s) /\ Appending(s)
  BY <1>1 DEF Determined, Spoken
<1>3. /\ Len(EventOn(cell, s)) \in Nat /\ DOMAIN EventOn(cell, s) = 1..Len(EventOn(cell, s))
  BY <1>1, EventOfDay
<1>4. Today = Number(s) /\ days = s.days
  BY <1>1, Unchanged
<1>5. StepRecord = RecordOn(s)
  BY <1>2, <1>4 DEF StepRecord, RecordOn
<1>6. PICK k \in Nat : /\ k + Len(drafts) = Len(EventOn(cell, s))
                       /\ \A i \in 1..Len(drafts) : drafts[i] = DraftsOn(cell, s)[k + i]
                       /\ Kept(cell, s, k, SourceMemory)
  BY <1>2 DEF Appending
<1>7. /\ IsSeq(drafts') /\ Len(drafts') = Len(drafts) - 1 /\ Head(drafts) = drafts[1]
      /\ Len(drafts) \in Nat \ {0}
      /\ \A i \in 1..Len(drafts') : drafts'[i] = drafts[i + 1]
  BY <1>1, <1>2, TailFacts DEF Appending
<1>8. Head(drafts) = DraftsOn(cell, s)[k + 1] /\ k + 1 \in DOMAIN EventOn(cell, s)
  BY <1>3, <1>6, <1>7
<1>9. episode = EpisodesOn(cell, s)[k + 1]
  <2>1. /\ Head(drafts).id = EventOn(cell, s)[k + 1] /\ Head(drafts).day = Number(s)
        /\ Head(drafts).action = Action(InputOn(s))
    BY <1>8 DEF DraftsOn
  <2> QED BY <1>4, <1>5, <1>8, <2>1 DEF EpisodesOn
<1>10. Kept(cell, s, k + 1, AppendEpisode(SourceMemory, EpisodesOn(cell, s)[k + 1]))
  <2>1. PICK m, es, a : m = SourceMemory /\ es = EpisodesOn(cell, s) /\ a = AuditedOn(s)
    OBVIOUS
  <2>2. Keeps(a, es, k, m)
    <3>1. Keeps(AuditedOn(s), EpisodesOn(cell, s), k, SourceMemory)
      BY <1>6 DEF Kept
    <3> QED BY <2>1, <3>1
  <2>3. Keeps(a, es, k + 1, AppendEpisode(m, es[k + 1]))
    BY <2>2, KeepsOneMore
  <2> QED BY <2>1, <2>3 DEF Kept
<1>11. Kept(cell, s, k + 1, SourceMemory')
  BY <1>1, <1>9, <1>10, WriteMoves
<1>12. /\ (k + 1) + Len(drafts') = Len(EventOn(cell, s)) /\ k + 1 \in Nat
       /\ \A i \in 1..Len(drafts') : drafts'[i] = DraftsOn(cell, s)[(k + 1) + i]
  <2>1. ASSUME NEW i \in 1..Len(drafts')
        PROVE  drafts'[i] = DraftsOn(cell, s)[(k + 1) + i]
    <3>1. drafts'[i] = drafts[i + 1] /\ i + 1 \in 1..Len(drafts) /\ k + (i + 1) = (k + 1) + i
      BY <1>7
    <3> QED BY <1>6, <3>1
  <2>2. (k + 1) + Len(drafts') = Len(EventOn(cell, s)) /\ k + 1 \in Nat
    <3>1. k + Len(drafts) = Len(EventOn(cell, s))
      BY <1>6
    <3>2. Len(drafts') = Len(drafts) - 1 /\ Len(drafts) \in Nat
      BY <1>7
    <3> QED BY <3>1, <3>2
  <2> QED BY <2>1, <2>2
<1> HIDE DEF episode
<1>13. /\ (staged' = <<>>) = (staged = <<>>)
       /\ staged # <<>> => /\ staged'[1].instructions = staged[1].instructions
                           /\ staged'[1].record = staged[1].record
  BY <1>1, WriteMoves
<1>14. Appending(s)'
  BY <1>1, <1>2, <1>7, <1>11, <1>12, <1>13 DEF Appending
<1> QED BY <1>1, <1>2, <1>14 DEF Determined, Spoken

\* What the commit makes of belief, directives, interventions and records.
LEMMA FinishDetermines ==
  ASSUME CellInv, FinishCommit, NEW s, s = before.store, Determined(s)
  PROVE  Determined(s)'
<1>1. /\ pc = "append" /\ pc' = "attest" /\ drafts = <<>>
      /\ memory' = UpdateBelief(SourceMemory, Today, Range(Candidates(cell.formation, Today)))
      /\ instructions' = ActiveInstructions
      /\ applied' = IF staged # <<>> THEN Append(applied, staged[1].record) ELSE applied
      /\ days' = Append(days, StepRecord)
      /\ UNCHANGED <<cell, shock, context, ledger, traces>>
  BY DEF FinishCommit, model
<1>2. /\ shock = SeenOn(s) /\ context = ContextOn(s) /\ decision = InputOn(s)
      /\ ledger = LedgerOn(s) /\ traces[Len(traces)] = TraceOn(s) /\ Appending(s)
  BY <1>1 DEF Determined, Spoken
<1>3. /\ Today = Number(s) /\ days = s.days /\ applied = s.applied
      /\ instructions = s.instructions
  BY <1>1, Unchanged
<1>4. Kept(cell, s, Len(EventOn(cell, s)), SourceMemory)
  <2>1. PICK k \in Nat : k + Len(drafts) = Len(EventOn(cell, s)) /\ Kept(cell, s, k, SourceMemory)
    BY <1>2 DEF Appending
  <2>2. k = Len(EventOn(cell, s))
    BY <1>1, <2>1, EmptyFacts
  <2> QED BY <2>1, <2>2
<1>5. PICK mem : mem = SourceMemory
  OBVIOUS
<1>6. memory' = RememberedOn(cell, s, mem)
  BY <1>1, <1>3, <1>5 DEF RememberedOn, EventOn
<1>7. ActiveInstructions = ActiveOn(s)
  BY <1>2, <1>3 DEF Appending, ActiveInstructions, ActiveOn
<1>8. applied' = AppliedOn(s)
  BY <1>1, <1>2, <1>3 DEF Appending, AppliedOn
<1>9. days' = Append(s.days, RecordOn(s))
  BY <1>1, <1>2, <1>3 DEF StepRecord, RecordOn
<1>10. Committed(s)'
  BY <1>1, <1>4, <1>5, <1>6, <1>7, <1>8, <1>9 DEF Committed
<1> QED BY <1>1, <1>2, <1>10 DEF Determined, Spoken

\* A day that ends has been lived.
LEMMA AttestLives ==
  ASSUME CellInv, Attest, NEW s, s = before.store, Determined(s)
  PROVE  Lived(cell, s, Store')
<1>1. /\ pc = "attest"
      /\ UNCHANGED <<cell, treatment, memory, instructions, shock, applied, ledger, traces, days>>
  BY DEF Attest, runtime, model
<1>2. /\ shock = SeenOn(s) /\ context = ContextOn(s)
      /\ ledger = LedgerOn(s) /\ traces[Len(traces)] = TraceOn(s) /\ Committed(s)
  BY <1>1 DEF Determined, Spoken
<1>3. /\ TypeOK /\ CommittedInv /\ TracesInv /\ StoreInv(cell, s)
      /\ evidence = s.evidence /\ treatment = s.treatment
  BY <1>1 DEF CellInv, DayInv
<1>4. Len(days) = Number(s) /\ Len(days) \in Nat
  BY <1>3, SequenceFacts DEF CommittedInv, Number, TypeOK
<1>5. PICK i : /\ i \in DOMAIN traces /\ traces[i].day = Len(days)
               /\ \A j \in DOMAIN traces : traces[j].day = Len(days) => j = i
               /\ evidence' = Append(evidence,
                    [cell |-> cell, day |-> Len(days), days |-> days,
                     shock |-> Len(days) = ShockDay /\ shock = Len(days),
                     retrieval |-> context.retrieval, memory |-> memory,
                     applied |-> applied, input |-> traces[i].input,
                     overlay |-> traces[i].overlay, ledger |-> traces[i].ledger])
  BY DEF Attest, CallAccepted
<1>6. traces[i] = TraceOn(s)
  <2>1. Len(traces) = before.traced + 1 /\ before.traced \in Nat
    BY <1>1, <1>3 DEF TracesInv, Spoken
  <2>2. DOMAIN traces = 1..Len(traces)
    BY <1>3, SequenceFacts DEF TypeOK
  <2>3. Len(traces) \in DOMAIN traces
    BY <2>1, <2>2
  <2>4. traces[Len(traces)].day = Len(days)
    BY <1>2, <1>4 DEF TraceOn
  <2> QED BY <1>2, <1>5, <2>3, <2>4
<1>7. PICK mem : Kept(cell, s, Len(EventOn(cell, s)), mem) /\ memory = RememberedOn(cell, s, mem)
  BY <1>2 DEF Committed
<1>8. evidence' = Append(s.evidence, EvidenceOn(cell, s, mem))
  <2>1. /\ traces[i].input = InputOn(s) /\ traces[i].overlay = OverlayOn(s)
        /\ traces[i].ledger = LedgerOn(s)
    BY <1>6 DEF TraceOn
  <2>2. days = Append(s.days, RecordOn(s)) /\ applied = AppliedOn(s)
    BY <1>2 DEF Committed
  <2> QED BY <1>2, <1>3, <1>4, <1>5, <1>7, <2>1, <2>2 DEF EvidenceOn
<1>9. Store' = After(cell, s, mem)
  BY <1>1, <1>2, <1>3, <1>7, <1>8 DEF Store, After, Committed
<1> QED BY <1>7, <1>9 DEF Lived

(***************************************************************************)
(* Every execution, live or captured, has been grown day by day.           *)
(***************************************************************************)
ChainInv ==
  /\ \A b \in archive : Grown(b.cell, StoreOf(b))
  /\ pc = "idle" => Grown(cell, Store)
  /\ pc # "idle" => \E s : s = before.store /\ Grown(cell, s) /\ Determined(s)

\* The first execution is fresh, ...
LEMMA ChainInit == Init => ChainInv
<1> SUFFICES ASSUME Init PROVE ChainInv
  OBVIOUS
<1>1. Store = FreshStore(cell) /\ pc = "idle" /\ archive = {}
  BY DEF Init, Store, FreshStore
<1>2. PICK c : c = cell
  OBVIOUS
<1> QED BY <1>1, <1>2, GrownFresh DEF ChainInv

\* ... and loading the stores of a grown execution gives a grown one.
LEMMA ChainLoad ==
  ASSUME ChainInv, NEW c, NEW s, IsStore(s), Load(s), Grown(c, s), cell' = c, archive' = archive
  PROVE  ChainInv'
<1>1. pc' = "idle" /\ Store' = s
  BY LoadedStore DEF Load
<1> QED BY <1>1 DEF ChainInv

\* A new execution starts fresh.
LEMMA ChainStart ==
  ASSUME ChainInv, NEW c \in Cells, StartCell(c)
  PROVE  ChainInv'
<1>1. IsStore(FreshStore(c))
  BY DEF FreshStore, IsStore
<1> QED BY <1>1, GrownFresh, ChainLoad DEF StartCell

\* A resumed execution has the days of its bundle.
LEMMA ChainRestore ==
  ASSUME ChainInv, NEW c \in Cells, NEW p \in archive, NEW s \in archive,
         NEW r \in archive, NEW e \in archive, Restore(c, p, s, r, e)
  PROVE  ChainInv'
<1>1. /\ p.cell = c /\ p.simulation = s.simulation /\ p.runtime = r.runtime
      /\ p.evidence = e.evidence
  BY DEF Restore, BundleAccepted
<1>2. cell' = c /\ archive' = archive /\ Load(StoreOf(p))
  BY <1>1 DEF Restore, ResumedInstructions, ResumedLedger, StoreOf
<1>3. Grown(c, StoreOf(p)) /\ IsStore(StoreOf(p))
  BY <1>1 DEF ChainInv, StoreOf, IsStore
<1> QED BY <1>2, <1>3, ChainLoad

\* A bundle holds what the execution holds.
LEMMA ChainCapture ==
  ASSUME ChainInv, Capture
  PROVE  ChainInv'
<1>1. /\ pc = "idle" /\ pc' = pc /\ cell' = cell /\ archive' = archive \cup {Bundle}
      /\ Store' = Store
  BY DEF Capture, Store, model, engine
<1>2. Bundle.cell = cell /\ StoreOf(Bundle) = Store
  BY DEF Bundle, StoreOf, Store
<1> QED BY <1>1, <1>2 DEF ChainInv

\* A day begins.
LEMMA ChainBegin ==
  ASSUME CellInv, ChainInv, BeginDay
  PROVE  ChainInv'
<1>1. PICK s : s = Store
  OBVIOUS
<1>2. s = before'.store /\ Determined(s)'
  BY <1>1, BeginDetermines
<1>3. pc = "idle" /\ pc' = "retrieve" /\ cell' = cell /\ archive' = archive
  BY DEF BeginDay
<1>4. Grown(cell, s)
  BY <1>1, <1>3 DEF ChainInv
<1> QED BY <1>2, <1>3, <1>4 DEF ChainInv

\* A step within a day.
LEMMA ChainDay ==
  ASSUME ChainInv, pc # "idle", pc' # "idle", UNCHANGED <<cell, before, archive>>,
         \A s : s = before.store /\ Determined(s) => Determined(s)'
  PROVE  ChainInv'
<1>1. PICK s : s = before.store /\ Grown(cell, s) /\ Determined(s)
  BY DEF ChainInv
<1>2. s = before'.store /\ Grown(cell', s) /\ Determined(s)'
  BY <1>1
<1>3. \A b \in archive' : Grown(b.cell, StoreOf(b))
  BY DEF ChainInv
<1> QED BY <1>2, <1>3 DEF ChainInv

\* A day ends.
LEMMA ChainAttest ==
  ASSUME CellInv, ChainInv, Attest
  PROVE  ChainInv'
<1>1. pc = "attest" /\ pc' = "idle" /\ cell' = cell /\ archive' = archive
  BY DEF Attest
<1>2. PICK s : s = before.store /\ Grown(cell, s) /\ Determined(s)
  BY <1>1 DEF ChainInv
<1>3. Lived(cell, s, Store')
  BY <1>2, AttestLives
<1>4. /\ IsSeq(s.evidence) /\ evidence = s.evidence
  BY <1>1, <1>2 DEF CellInv, DayInv, StoreInv
<1>5. \E x : evidence' = Append(evidence, x)
  BY DEF Attest
<1>6. Len(evidence') = Len(s.evidence) + 1 /\ Len(s.evidence) \in Nat
  BY <1>4, <1>5, AppendFacts, SequenceFacts
<1>7. PICK t, c : t = Store' /\ c = cell
  OBVIOUS
<1>8. t.evidence = evidence'
  BY <1>7 DEF Store
<1>9. Grown(c, t)
  BY <1>2, <1>3, <1>6, <1>7, <1>8, GrownOneMore
<1> QED BY <1>1, <1>7, <1>9 DEF ChainInv

\* A failed day leaves the days before it.
LEMMA ChainFail ==
  ASSUME CellInv, ChainInv, Fail
  PROVE  ChainInv'
<1>1. pc # "idle" /\ Load(before.store) /\ cell' = cell /\ archive' = archive
  BY DEF Fail, StoresBefore
<1>2. PICK s : s = before.store /\ Grown(cell, s)
  BY <1>1 DEF ChainInv
<1>3. PICK c : c = cell
  OBVIOUS
<1>4. IsStore(s)
  BY <1>1, <1>2 DEF CellInv, DayInv, StoreInv
<1>5. Load(s)
  BY <1>1, <1>2
<1> QED BY <1>1, <1>2, <1>3, <1>4, <1>5, ChainLoad

\* Every step keeps what is known of the executions.
LEMMA ChainKept ==
  ASSUME CellInv, ChainInv, [Next]_vars
  PROVE  ChainInv'
<1>1. CASE Retrieve
  BY <1>1, RetrieveDetermines, ChainDay DEF Retrieve
<1>2. CASE Select
  BY <1>2, SelectDetermines, ChainDay DEF Select
<1>3. CASE Stage
  BY <1>3, StageDetermines, ChainDay DEF Stage
<1>4. CASE Speak
  BY <1>4, SpeakDetermines, ChainDay DEF Speak
<1>5. CASE KeepAudit
  BY <1>5, KeepAuditDetermines, ChainDay DEF KeepAudit
<1>6. CASE KeepEpisode
  BY <1>6, KeepEpisodeDetermines, ChainDay DEF KeepEpisode
<1>7. CASE FinishCommit
  BY <1>7, FinishDetermines, ChainDay DEF FinishCommit
<1>8. CASE UNCHANGED vars
  <2>1. /\ UNCHANGED <<pc, cell, shock, context, staged, ledger, pending, decision, drafts,
                      traces, memory, instructions, applied, days, before, archive, Store>>
    BY <1>8 DEF vars, runtime, model, engine, Store
  <2>2. \A s : Determined(s)' = Determined(s)
    BY <2>1 DEF Determined, Spoken, Appending, Committed, SourceMemory
  <2> QED BY <2>1, <2>2 DEF ChainInv
<1>9. ASSUME NEW c \in Cells, StartCell(c)
      PROVE  ChainInv'
  BY <1>9, ChainStart
<1>10. ASSUME NEW c \in Cells, NEW p \in archive, NEW s \in archive,
              NEW r \in archive, NEW e \in archive, Restore(c, p, s, r, e)
       PROVE  ChainInv'
  BY <1>10, ChainRestore
<1> QED BY <1>1, <1>2, <1>3, <1>4, <1>5, <1>6, <1>7, <1>8, <1>9, <1>10, ChainBegin,
            ChainAttest, ChainFail, ChainCapture DEF Next, DayStep

\* The chains that can be compared end executions grown day by day.
LEMMA ChainsGrown ==
  ASSUME CellInv, ChainInv, NEW a \in Chains
  PROVE  /\ a.cell \in Cells
         /\ \E f : \E n \in Nat :
              /\ n <= LastDay /\ Grows(a.cell, f, n)
              /\ IsSeq(a.evidence) /\ Len(a.evidence) = n /\ f[n].evidence = a.evidence
<1>1. PICK s : /\ a.cell \in Cells /\ Grown(a.cell, s) /\ StoreInv(a.cell, s)
               /\ s.evidence = a.evidence
  <2>1. CASE a = [cell |-> cell, evidence |-> evidence] /\ pc = "idle"
    BY <2>1, StoreFields DEF CellInv, TypeOK, IdleInv, ChainInv
  <2>2. CASE a = [cell |-> cell, evidence |-> evidence] /\ pc # "idle"
    BY <2>2 DEF CellInv, TypeOK, DayInv, ChainInv
  <2>3. ASSUME NEW b \in archive, a = [cell |-> b.cell, evidence |-> b.evidence]
        PROVE  \E s : /\ a.cell \in Cells /\ Grown(a.cell, s) /\ StoreInv(a.cell, s)
                      /\ s.evidence = a.evidence
    <3>1. StoreOf(b).evidence = a.evidence /\ a.cell = b.cell
      BY <2>3 DEF StoreOf
    <3> QED BY <3>1 DEF CellInv, ArchiveInv, ChainInv
  <2> QED BY <2>1, <2>2, <2>3 DEF Chains
<1>2. /\ IsSeq(s.evidence) /\ Len(s.evidence) = Len(s.days) /\ Len(s.days) <= LastDay
  BY <1>1 DEF StoreInv, AlignedStore
<1>3. PICK f : Grows(a.cell, f, Len(s.evidence)) /\ f[Len(s.evidence)] = s
  BY <1>1 DEF Grown
<1>4. Len(s.evidence) \in Nat /\ Len(s.evidence) <= LastDay
  BY <1>2, SequenceFacts
<1> QED BY <1>1, <1>2, <1>3, <1>4

\* Executions of one cell have the same evidence.
LEMMA ChainsReproducible ==
  ASSUME CellInv, ChainInv
  PROVE  Reproducible
<1>1. SUFFICES ASSUME NEW a \in Chains, NEW b \in Chains, a.cell = b.cell,
                      NEW i \in DOMAIN a.evidence \cap DOMAIN b.evidence
               PROVE  a.evidence[i] = b.evidence[i]
  BY DEF Reproducible
<1>2. PICK c, f, x : \E n \in Nat :
        /\ c = a.cell /\ x = a.evidence /\ c \in Cells /\ n <= LastDay /\ Grows(c, f, n)
        /\ IsSeq(x) /\ Len(x) = n /\ f[n].evidence = x
  BY ChainsGrown
<1>3. PICK g, y : \E m \in Nat :
        /\ y = b.evidence /\ m <= LastDay /\ Grows(c, g, m)
        /\ IsSeq(y) /\ Len(y) = m /\ g[m].evidence = y
  BY <1>1, <1>2, ChainsGrown
<1> DEFINE n == Len(x)
            m == Len(y)
<1>4. n \in Nat /\ m \in Nat /\ i \in 1..n /\ i \in 1..m
  BY <1>1, <1>2, <1>3, SequenceFacts
<1>5. f[i] = g[i]
  BY <1>2, <1>3, <1>4, GrowsAgree
<1>6. f[n].evidence[i] = f[i].evidence[i] /\ g[m].evidence[i] = g[i].evidence[i]
  BY <1>2, <1>3, <1>4, GrowsCounts
<1> QED BY <1>2, <1>3, <1>5, <1>6

\* Arms of one formation have the same evidence before the activation day.
LEMMA ChainsMatch ==
  ASSUME CellInv, ChainInv
  PROVE  ArmsMatch
<1>1. SUFFICES ASSUME NEW a \in Chains, NEW b \in Chains, a.cell.formation = b.cell.formation,
                      NEW i \in DOMAIN a.evidence \cap DOMAIN b.evidence, i < ActivationDay
               PROVE  LET x == a.evidence[i]
                          y == b.evidence[i]
                      IN x.days = y.days /\ x.input = y.input /\ x.memory = y.memory
                           /\ x.ledger = y.ledger
  BY DEF ArmsMatch
<1>2. PICK c, f, x : \E n \in Nat :
        /\ c = a.cell /\ x = a.evidence /\ c \in Cells /\ n <= LastDay /\ Grows(c, f, n)
        /\ IsSeq(x) /\ Len(x) = n /\ f[n].evidence = x
  BY ChainsGrown
<1>3. PICK d, g, y : \E m \in Nat :
        /\ d = b.cell /\ y = b.evidence /\ d \in Cells /\ m <= LastDay /\ Grows(d, g, m)
        /\ IsSeq(y) /\ Len(y) = m /\ g[m].evidence = y
  BY ChainsGrown
<1> DEFINE n == Len(x)
            m == Len(y)
<1>4. /\ n \in Nat /\ m \in Nat /\ i \in 1..n /\ i \in 1..m
      /\ i - 1 \in (0..n) \cap (0..m) /\ i - 1 < ActivationDay
  BY <1>1, <1>2, <1>3, SequenceFacts, CalendarAssumption
<1>5. Alike(f[i - 1], g[i - 1])
  BY <1>1, <1>2, <1>3, <1>4, ArmsGrowAlike
<1>6. Lived(c, f[i - 1], f[i]) /\ Lived(d, g[i - 1], g[i])
  BY <1>2, <1>3, <1>4 DEF Grows
<1>7. /\ Counted(f[i - 1], i - 1) /\ Counted(g[i - 1], i - 1)
      /\ Counted(f[i], i) /\ Counted(g[i], i)
  BY <1>2, <1>3, <1>4, GrowsCounts
<1>8. Number(f[i - 1]) = i /\ Len(EventOn(c, f[i - 1])) \in Nat
  BY <1>2, <1>4, <1>7, EventCounts, CellAssumption
<1>9. SameEvidence(Last(f[i].evidence), Last(g[i].evidence))
  <2>1. c.formation = d.formation /\ Number(f[i - 1]) # ActivationDay
    BY <1>1, <1>2, <1>3, <1>8
  <2>2. IsSeq(f[i - 1].evidence) /\ IsSeq(g[i - 1].evidence)
    BY <1>7 DEF Counted
  <2> QED BY <1>5, <1>6, <1>8, <2>1, <2>2, ArmsLiveAlike
<1>10. Last(f[i].evidence) = f[i].evidence[i] /\ Last(g[i].evidence) = g[i].evidence[i]
  BY <1>7 DEF Counted, Last
<1>11. f[n].evidence[i] = f[i].evidence[i] /\ g[m].evidence[i] = g[i].evidence[i]
  BY <1>2, <1>3, <1>4, GrowsCounts
<1> QED BY <1>2, <1>3, <1>9, <1>10, <1>11 DEF SameEvidence

\* Every execution, live or captured, has been grown day by day from a fresh
\* one, each day a function of the stores before it.
THEOREM CellGrows == Spec => [](CellInv /\ ChainInv)
<1>1. CellInv /\ ChainInv /\ [Next]_vars => (CellInv /\ ChainInv)'
  BY NextKeeps, ChainKept
<1>2. Init => CellInv /\ ChainInv
  BY InitHolds, ChainInit
<1> QED BY <1>1, <1>2, PTL DEF Spec

\* Executions of one cell produce the same evidence, whatever days failed in
\* them and wherever they were resumed.
THEOREM Reproducibility == Spec => []Reproducible
<1>1. CellInv /\ ChainInv => Reproducible
  BY ChainsReproducible
<1> QED BY <1>1, CellGrows, PTL

\* The arms of one formation cannot be told apart before the activation day.
THEOREM ArmsStayMatched == Spec => []ArmsMatch
<1>1. CellInv /\ ChainInv => ArmsMatch
  BY ChainsMatch
<1> QED BY <1>1, CellGrows, PTL

(***************************************************************************)
(* Histories: what a list of days says of the episodes they stored.        *)
(***************************************************************************)
\* A function on 1..n is a sequence.
LEMMA FunctionIsSeq ==
  ASSUME NEW q, NEW n \in Nat, q = [i \in 1..n |-> q[i]]
  PROVE  IsSeq(q) /\ Len(q) = n
<1>1. PICK f : q = [i \in 1..n |-> f[i]]
  OBVIOUS
<1>2. q \in Seq({f[i] : i \in 1..n}) /\ Len(q) = n
  BY <1>1
<1> QED BY <1>2, SeqOfItsRange

\* Sequences with the same members in the same places are one.
LEMMA SameSeq ==
  ASSUME NEW s, IsSeq(s), NEW t, IsSeq(t), Len(s) = Len(t),
         \A i \in 1..Len(s) : s[i] = t[i]
  PROVE  s = t
<1>1. s \in Seq(Range(s)) /\ t \in Seq(Range(t))
  BY DEF IsSeq
<1>2. /\ s = [i \in 1..Len(s) |-> s[i]] /\ t = [i \in 1..Len(t) |-> t[i]]
  BY <1>1
<1> QED BY <1>2

\* What comes later does not change a prefix.
LEMMA PrefixOfAppend ==
  ASSUME NEW s, IsSeq(s), NEW x, NEW n \in 0..Len(s)
  PROVE  SubSeq(Append(s, x), 1, n) = SubSeq(s, 1, n)
<1> DEFINE t == Append(s, x)
<1>1. Len(s) \in Nat /\ DOMAIN s = 1..Len(s)
  BY SequenceFacts
<1>2. IsSeq(t) /\ Len(t) = Len(s) + 1 /\ \A i \in 1..Len(s) : t[i] = s[i]
  BY <1>1, AppendFacts
<1>3. n \in 0..Len(t)
  BY <1>1, <1>2
<1> HIDE DEF t
<1>4. /\ IsSeq(SubSeq(s, 1, n)) /\ Len(SubSeq(s, 1, n)) = n
      /\ \A i \in 1..n : SubSeq(s, 1, n)[i] = s[i]
  BY PrefixFacts
<1>5. /\ IsSeq(SubSeq(t, 1, n)) /\ Len(SubSeq(t, 1, n)) = n
      /\ \A i \in 1..n : SubSeq(t, 1, n)[i] = t[i]
  BY <1>2, <1>3, PrefixFacts
<1>6. \A i \in 1..n : SubSeq(t, 1, n)[i] = SubSeq(s, 1, n)[i]
  BY <1>1, <1>2, <1>4, <1>5
<1>7. SubSeq(t, 1, n) = SubSeq(s, 1, n)
  BY <1>4, <1>5, <1>6, SameSeq
<1> QED BY <1>7 DEF t

\* The whole is a prefix.
LEMMA WholePrefix ==
  ASSUME NEW s, IsSeq(s)
  PROVE  SubSeq(s, 1, Len(s)) = s
<1>1. Len(s) \in Nat /\ Len(s) \in 0..Len(s)
  BY SequenceFacts
<1>2. /\ IsSeq(SubSeq(s, 1, Len(s))) /\ Len(SubSeq(s, 1, Len(s))) = Len(s)
      /\ \A i \in 1..Len(s) : SubSeq(s, 1, Len(s))[i] = s[i]
  BY <1>1, PrefixFacts
<1> QED BY <1>2, SameSeq

(***************************************************************************)
(* The episodes of a history.                                              *)
(***************************************************************************)
EpisodesOfDays(c, history) == [d \in DOMAIN history |-> EpisodesOfDay(c, history, d)]

\* The episodes of the days of a history are a sequence, a day each.
LEMMA DaysAreSeq ==
  ASSUME NEW c, NEW h, IsSeq(h)
  PROVE  IsSeq(EpisodesOfDays(c, h)) /\ Len(EpisodesOfDays(c, h)) = Len(h)
<1> DEFINE q == EpisodesOfDays(c, h)
<1>1. Len(h) \in Nat /\ DOMAIN h = 1..Len(h)
  BY SequenceFacts
<1>2. q = [i \in 1..Len(h) |-> q[i]]
  BY <1>1 DEF EpisodesOfDays
<1> HIDE DEF q
<1>3. IsSeq(q) /\ Len(q) = Len(h)
  BY <1>1, <1>2, FunctionIsSeq
<1> QED BY <1>3 DEF q

\* One day more adds its episodes to the end.
LEMMA DaysOneMore ==
  ASSUME NEW c, NEW h, IsSeq(h), NEW r
  PROVE  EpisodesOfDays(c, Append(h, r)) =
           Append(EpisodesOfDays(c, h), EpisodesOfDay(c, Append(h, r), Len(h) + 1))
<1> DEFINE n == Len(h)
           k == Append(h, r)
           new == EpisodesOfDay(c, k, n + 1)
           q == EpisodesOfDays(c, h)
           p == EpisodesOfDays(c, k)
<1>1. n \in Nat /\ DOMAIN h = 1..n
  BY SequenceFacts
<1>2. IsSeq(k) /\ Len(k) = n + 1 /\ DOMAIN k = 1..(n + 1) /\ \A i \in 1..n : k[i] = h[i]
  BY <1>1, AppendFacts
<1>3. \A i \in 1..n : SubSeq(k, 1, i) = SubSeq(h, 1, i)
  BY <1>1, PrefixOfAppend
<1>4. \A i \in 1..n : EpisodesOfDay(c, k, i) = EpisodesOfDay(c, h, i)
  BY <1>2, <1>3 DEF EpisodesOfDay
<1>5. \A i \in 1..n : p[i] = q[i]
  BY <1>1, <1>2, <1>4 DEF EpisodesOfDays
<1>6. p[n + 1] = new
  BY <1>1, <1>2 DEF EpisodesOfDays
<1>7. IsSeq(q) /\ Len(q) = n
  BY DaysAreSeq
<1>8. IsSeq(p) /\ Len(p) = n + 1
  BY <1>2, DaysAreSeq
<1> HIDE DEF p, q, new, k
<1>9. /\ IsSeq(Append(q, new)) /\ Len(Append(q, new)) = n + 1
      /\ Append(q, new)[n + 1] = new /\ \A i \in 1..n : Append(q, new)[i] = q[i]
  <2>1. DOMAIN q = 1..n
    BY <1>7, SequenceFacts
  <2> QED BY <1>7, <2>1, AppendFacts
<1>10. \A i \in 1..(n + 1) : p[i] = Append(q, new)[i]
  <2> TAKE i \in 1..(n + 1)
  <2>1. i \in 1..n \/ i = n + 1
    BY <1>1
  <2> QED BY <1>5, <1>6, <1>9, <2>1
<1>11. p = Append(q, new)
  BY <1>8, <1>9, <1>10, SameSeq
<1> QED BY <1>11 DEF p, q, new, k

(***************************************************************************)
(* Appending the episodes of a day.                                        *)
(***************************************************************************)
SameButEpisodes(m, n) ==
  /\ IsMemory(n)
  /\ n.retrievals = m.retrievals /\ n.accesses = m.accesses /\ n.beliefs = m.beliefs
  /\ n.reframes = m.reframes /\ n.blocked = m.blocked

\* e is b followed by the first i members of es.
Followed(b, es, i, e) ==
  /\ IsSeq(e) /\ Len(e) = Len(b) + i
  /\ \A j \in 1..Len(b) : e[j] = b[j]
  /\ \A j \in 1..i : e[Len(b) + j] = es[j]

\* A new episode is appended.
LEMMA NewEpisode ==
  ASSUME NEW m, IsMemory(m), NEW e, e \notin Range(m.episodes)
  PROVE  /\ SameButEpisodes(m, AppendEpisode(m, e))
         /\ AppendEpisode(m, e).episodes = Append(m.episodes, e)
<1> DEFINE n == AppendEpisode(m, e)
<1>1. /\ DOMAIN n = DOMAIN m /\ n.episodes = Append(m.episodes, e)
      /\ n.retrievals = m.retrievals /\ n.accesses = m.accesses /\ n.beliefs = m.beliefs
      /\ n.reframes = m.reframes /\ n.blocked = m.blocked
  BY Fields DEF AppendEpisode, IsMemory
<1>2. IsSeq(n.episodes)
  BY <1>1, AppendFacts DEF IsMemory
<1> HIDE DEF n
<1>3. SameButEpisodes(m, n) /\ n.episodes = Append(m.episodes, e)
  BY <1>1, <1>2 DEF SameButEpisodes, IsMemory
<1> QED BY <1>3 DEF n

\* One more of some different episodes, none of which is stored.
LEMMA FollowedOneMore ==
  ASSUME NEW b, IsSeq(b), NEW es, NEW i \in Nat, NEW e, Followed(b, es, i, e),
         es[i + 1] \notin Range(b), \A j \in 1..i : es[i + 1] # es[j]
  PROVE  /\ es[i + 1] \notin Range(e)
         /\ Followed(b, es, i + 1, Append(e, es[i + 1]))
<1> DEFINE L == Len(b)
           x == es[i + 1]
           a == Append(e, x)
<1>1. L \in Nat /\ DOMAIN b = 1..L /\ Len(e) = L + i /\ DOMAIN e = 1..(L + i)
  BY SequenceFacts DEF Followed
<1>2. ASSUME NEW k \in DOMAIN e
      PROVE  e[k] # x
  <2>1. CASE k \in 1..L
    <3>1. e[k] = b[k] /\ b[k] \in Range(b)
      BY <1>1, <2>1 DEF Followed, Range
    <3> QED BY <3>1
  <2>2. CASE k \notin 1..L
    <3>1. k - L \in 1..i /\ k = L + (k - L)
      BY <1>1, <2>2
    <3>2. PICK j \in 1..i : k = L + j
      BY <3>1
    <3> QED BY <3>2 DEF Followed
  <2> QED BY <2>1, <2>2
<1>3. x \notin Range(e)
  BY <1>2 DEF Range
<1>4. /\ IsSeq(a) /\ Len(a) = L + i + 1 /\ a[L + i + 1] = x
      /\ \A k \in 1..(L + i) : a[k] = e[k]
  BY <1>1, AppendFacts DEF Followed
<1>5. \A j \in 1..L : a[j] = b[j]
  <2> TAKE j \in 1..L
  <2>1. j \in 1..(L + i)
    BY <1>1
  <2> QED BY <1>4, <2>1 DEF Followed
<1>6. \A j \in 1..(i + 1) : a[L + j] = es[j]
  <2> TAKE j \in 1..(i + 1)
  <2>1. CASE j = i + 1
    <3>1. L + j = L + i + 1
      BY <1>1, <2>1
    <3>2. a[L + j] = a[L + i + 1]
      BY <3>1
    <3>3. a[L + i + 1] = x
      BY <1>4
    <3> QED BY <2>1, <3>2, <3>3
  <2>2. CASE j \in 1..i
    <3>1. L + j \in 1..(L + i)
      BY <1>1, <2>2
    <3> QED BY <1>4, <2>2, <3>1 DEF Followed
  <2>3. j = i + 1 \/ j \in 1..i
    OBVIOUS
  <2> HIDE DEF a, L
  <2> QED BY <2>1, <2>2, <2>3
<1>7. Len(a) = L + (i + 1)
  BY <1>1, <1>4
<1> HIDE DEF a, x, L
<1>8. Followed(b, es, i + 1, a)
  BY <1>4, <1>5, <1>6, <1>7 DEF Followed, L
<1> QED BY <1>3, <1>8 DEF a, x

\* The first n of some different episodes, none of which is stored, go to the end.
LEMMA EpisodesFollowed ==
  ASSUME NEW base, IsMemory(base), NEW es, NEW n \in Nat,
         \A i \in 1..n : es[i] \notin Range(base.episodes),
         \A i, j \in 1..n : es[i] = es[j] => i = j,
         NEW mem, Keeps(base, es, n, mem)
  PROVE  SameButEpisodes(base, mem) /\ Followed(base.episodes, es, n, mem.episodes)
<1>1. PICK f : Appends(f, base, es, n) /\ f[n] = mem
  BY DEF Keeps
<1>2. IsSeq(base.episodes)
  BY DEF IsMemory
<1> DEFINE Good(i) == SameButEpisodes(base, f[i]) /\ Followed(base.episodes, es, i, f[i].episodes)
           T == {i \in 0..n : ~ Good(i)}
<1>3. T = {}
  <2> SUFFICES ASSUME T # {} PROVE FALSE
    OBVIOUS
  <2>1. T \subseteq Nat
    OBVIOUS
  <2>2. PICK i \in T : \A j \in T : i <= j
    <3> HIDE DEF T
    <3> QED BY <2>1, Least
  <2>3. Good(0)
    <3>1. f[0] = base
      BY <1>1 DEF Appends
    <3>2. Followed(base.episodes, es, 0, base.episodes)
      BY <1>2, SequenceFacts DEF Followed
    <3> QED BY <3>1, <3>2 DEF SameButEpisodes
  <2>4. i \in 1..n /\ i - 1 \in 0..n /\ i - 1 \notin T /\ ~ Good(i)
    <3>1. i \in 0..n /\ ~ Good(i)
      OBVIOUS
    <3> HIDE DEF Good
    <3>2. i # 0
      BY <2>3, <3>1
    <3> HIDE DEF T
    <3> QED BY <2>2, <3>1, <3>2
  <2>5. Good(i - 1)
    BY <2>4
  <2>6. f[i] = AppendEpisode(f[i - 1], es[i])
    BY <1>1, <2>4 DEF Appends
  <2>7. PICK k, m, e : k \in Nat /\ k = i - 1 /\ k + 1 = i /\ m = f[i - 1] /\ e = m.episodes
    BY <2>4
  <2>8. SameButEpisodes(base, m) /\ Followed(base.episodes, es, k, e) /\ IsMemory(m)
    BY <2>5, <2>7 DEF SameButEpisodes
  <2>9. es[k + 1] \notin Range(base.episodes) /\ \A j \in 1..k : es[k + 1] # es[j]
    BY <2>4, <2>7
  <2>10. /\ es[k + 1] \notin Range(e)
         /\ Followed(base.episodes, es, k + 1, Append(e, es[k + 1]))
    <3>1. PICK b : b = base.episodes
      OBVIOUS
    <3>2. IsSeq(b) /\ Followed(b, es, k, e) /\ k \in Nat
      BY <1>2, <2>7, <2>8, <3>1
    <3>3. es[k + 1] \notin Range(b) /\ \A j \in 1..k : es[k + 1] # es[j]
      BY <2>9, <3>1
    <3>4. es[k + 1] \notin Range(e) /\ Followed(b, es, k + 1, Append(e, es[k + 1]))
      <4> HIDE DEF Good, T
      <4> QED BY <3>2, <3>3, FollowedOneMore
    <3> QED BY <3>1, <3>4
  <2>11. /\ SameButEpisodes(m, AppendEpisode(m, es[k + 1]))
         /\ AppendEpisode(m, es[k + 1]).episodes = Append(e, es[k + 1])
    BY <2>7, <2>8, <2>10, NewEpisode
  <2>12. f[i] = AppendEpisode(m, es[k + 1])
    BY <2>6, <2>7
  <2>13. SameButEpisodes(base, f[i])
    BY <2>8, <2>11, <2>12 DEF SameButEpisodes
  <2>14. Followed(base.episodes, es, i, f[i].episodes)
    BY <2>7, <2>10, <2>11, <2>12
  <2> QED BY <2>4, <2>13, <2>14
<1> QED
  <2>1. n \notin T /\ n \in 0..n
    BY <1>3
  <2> QED BY <1>1, <2>1

\* All of them, when n is how many there are.
LEMMA EpisodesFollow ==
  ASSUME NEW base, IsMemory(base), NEW es, IsSeq(es), NEW n \in Nat, n = Len(es),
         \A i \in 1..n : es[i] \notin Range(base.episodes),
         \A i, j \in 1..n : es[i] = es[j] => i = j,
         NEW mem, Keeps(base, es, n, mem)
  PROVE  SameButEpisodes(base, mem) /\ mem.episodes = base.episodes \o es
<1>1. IsSeq(base.episodes)
  BY DEF IsMemory
<1>2. SameButEpisodes(base, mem) /\ Followed(base.episodes, es, n, mem.episodes)
  BY EpisodesFollowed
<1>3. mem.episodes = base.episodes \o es
  <2> DEFINE b == base.episodes
             e == mem.episodes
             L == Len(b)
  <2>1. L \in Nat
    BY <1>1, SequenceFacts
  <2>2. /\ IsSeq(b \o es) /\ Len(b \o es) = L + n
        /\ \A j \in 1..L : (b \o es)[j] = b[j]
        /\ \A j \in 1..n : (b \o es)[L + j] = es[j]
    BY <1>1, JoinFacts
  <2>3. /\ IsSeq(e) /\ Len(e) = L + n
        /\ \A j \in 1..L : e[j] = b[j]
        /\ \A j \in 1..n : e[L + j] = es[j]
    BY <1>2 DEF Followed
  <2>4. ASSUME NEW j \in 1..(L + n)
        PROVE  e[j] = (b \o es)[j]
    <3>1. CASE j \in 1..L
      BY <2>2, <2>3, <3>1
    <3>2. CASE j \notin 1..L
      <4>1. j - L \in 1..n /\ j = L + (j - L)
        BY <2>1, <3>2
      <4>2. PICK k \in 1..n : j = L + k
        BY <4>1
      <4> QED BY <2>2, <2>3, <4>2
    <3> QED BY <3>1, <3>2
  <2> HIDE DEF b, e, L
  <2>5. PICK u : u = b \o es
    OBVIOUS
  <2>6. e = u
    <3>1. IsSeq(u) /\ Len(u) = Len(e) /\ IsSeq(e)
      BY <2>2, <2>3, <2>5
    <3>2. \A j \in 1..Len(e) : e[j] = u[j]
      BY <2>3, <2>4, <2>5
    <3> QED BY <3>1, <3>2, SameSeq
  <2> QED BY <2>5, <2>6 DEF b, e
<1> QED BY <1>2, <1>3

(***************************************************************************)
(* What a treatment leaves of a memory's layers.                           *)
(***************************************************************************)
Reframed(ids) == {[id |-> id, revision |-> 2] : id \in ids}

\* The layers of a memory and the directives on a day of c.
TreatedAs(c, day, mem, directives) ==
  /\ directives = InitialInstructions(c) \
       (IF TreatedBy(c, day, "instruction_removal") THEN TargetInstructions ELSE {})
  /\ mem.blocked = IF TreatedBy(c, day, "memory_blocking") THEN PartnerTargets(mem) ELSE {}
  /\ mem.reframes = IF TreatedBy(c, day, "memory_reframing")
                    THEN Reframed(PartnerTargets(mem) \cap Interpreted) ELSE {}

\* The revision of a memory, when some have been reframed once.
LEMMA RevisionOf ==
  ASSUME NEW ids, NEW id
  PROVE  RevisionAfter(Reframed(ids), id) =
           IF id \notin Interpreted THEN 0 ELSE IF id \in ids THEN 2 ELSE 1
<1> DEFINE R == {r.revision : r \in {x \in Reframed(ids) : x.id = id}}
<1>1. CASE id \in ids
  <2>1. [id |-> id, revision |-> 2] \in Reframed(ids)
    BY <1>1 DEF Reframed
  <2>2. R = {2}
    <3>1. \A x \in Reframed(ids) : x.revision = 2
      BY DEF Reframed
    <3>2. 2 \in R
      <4>1. PICK x : x = [id |-> id, revision |-> 2]
        OBVIOUS
      <4> QED BY <2>1, <4>1
    <3> QED BY <3>1, <3>2
  <2>3. Max({1} \cup R) = 2
    BY <2>2 DEF Max
  <2> QED BY <1>1, <2>3 DEF RevisionAfter
<1>2. CASE id \notin ids
  <2>1. R = {}
    BY <1>2 DEF Reframed
  <2>2. Max({1} \cup R) = 1
    BY <2>1 DEF Max
  <2> QED BY <1>2, <2>2 DEF RevisionAfter
<1> QED BY <1>1, <1>2

\* The revision of a memory, when none has been.
LEMMA RevisionFirst ==
  ASSUME NEW id
  PROVE  RevisionAfter({}, id) = IF id \notin Interpreted THEN 0 ELSE 1
<1>1. Reframed({}) = {}
  BY DEF Reframed
<1> QED BY <1>1, RevisionOf

\* The parts of a memory that no treatment touches.
SameHistory(m, n) ==
  /\ IsMemory(n)
  /\ n.episodes = m.episodes /\ n.retrievals = m.retrievals
  /\ n.accesses = m.accesses /\ n.beliefs = m.beliefs

\* The activation treats one layer of a memory that nothing was done to.
LEMMA TreatedOnce ==
  ASSUME NEW c \in Cells, NEW m, IsMemory(m), m.blocked = {}, m.reframes = {},
         NEW seen
  PROVE  LET a == Treated(c.intervention, m, InitialInstructions(c), seen)
         IN SameHistory(m, a.memory) /\ TreatedAs(c, ActivationDay, a.memory, a.instructions)
<1> DEFINE v == c.intervention
           d == InitialInstructions(c)
           targets == Targets(v, m, d)
           n == TreatedMemory(v, m, targets)
           k == TreatedInstructions(v, d, targets)
           P == PartnerTargets(m)
<1>0. v \in Conditions /\ ActivationDay >= ActivationDay
  BY CellAssumption, CalendarAssumption
<1>1. \A x : TreatedBy(c, ActivationDay, x) = (v = x)
  BY <1>0 DEF TreatedBy
<1>2. SameHistory(m, m)
  BY DEF SameHistory
<1>3. CASE v = "none"
  <2>1. n = m /\ k = d
    BY <1>3 DEF TreatedMemory, TreatedInstructions
  <2>2. TreatedAs(c, ActivationDay, n, k)
    BY <1>1, <1>3, <2>1 DEF TreatedAs
  <2> QED BY <1>2, <2>1, <2>2 DEF Treated
<1>4. CASE v = "instruction_removal"
  <2>1. n = m /\ k = d \ targets /\ targets = TargetInstructions \cap d
    BY <1>4 DEF TreatedMemory, TreatedInstructions, Targets
  <2>2. k = d \ TargetInstructions
    BY <2>1
  <2>3. TreatedAs(c, ActivationDay, n, k)
    BY <1>1, <1>4, <2>1, <2>2 DEF TreatedAs
  <2> QED BY <1>2, <2>1, <2>3 DEF Treated
<1>5. CASE v = "memory_blocking"
  <2>1. k = d /\ targets = P /\ n = (IF targets = {} THEN m ELSE Block(m, targets))
    BY <1>5 DEF TreatedMemory, TreatedInstructions, Targets
  <2>2. n.blocked = P /\ n.reframes = {} /\ SameHistory(m, n)
    <3>1. CASE P = {}
      BY <1>2, <2>1, <3>1
    <3>2. CASE P # {}
      <4>1. n = [m EXCEPT !.blocked = P]
        BY <2>1, <3>2 DEF Block
      <4>2. /\ DOMAIN n = DOMAIN m /\ n.blocked = P /\ n.reframes = m.reframes
            /\ n.episodes = m.episodes /\ n.retrievals = m.retrievals
            /\ n.accesses = m.accesses /\ n.beliefs = m.beliefs
        BY <4>1, Fields DEF IsMemory
      <4> QED BY <4>2 DEF SameHistory, IsMemory
    <3> QED BY <3>1, <3>2
  <2>3. PartnerTargets(n) = P
    BY <2>2 DEF PartnerTargets, SameHistory
  <2>4. TreatedAs(c, ActivationDay, n, k)
    BY <1>1, <1>5, <2>1, <2>2, <2>3 DEF TreatedAs
  <2> QED BY <2>2, <2>4 DEF Treated
<1>6. CASE v = "memory_reframing"
  <2>0. \A id : Revision(m, id) = IF id \notin Interpreted THEN 0 ELSE 1
    BY RevisionFirst DEF Revision
  <2>1. /\ k = d /\ targets = ReframeTargets(m)
        /\ n = (IF targets = {} THEN m ELSE Reframe(m, targets))
    BY <1>6 DEF TreatedMemory, TreatedInstructions, Targets
  <2>2. targets = P \cap Interpreted
    BY <2>0, <2>1 DEF ReframeTargets
  <2>3. n.blocked = {} /\ n.reframes = Reframed(targets) /\ SameHistory(m, n)
    <3>1. CASE targets = {}
      <4>1. Reframed(targets) = {} /\ n = m
        BY <2>1, <3>1 DEF Reframed
      <4> QED BY <1>2, <4>1
    <3>2. CASE targets # {}
      <4>1. n = [m EXCEPT !.reframes = m.reframes \cup
                   {[id |-> id, revision |-> Revision(m, id) + 1] : id \in targets}]
        BY <2>1, <3>2 DEF Reframe
      <4>2. {[id |-> id, revision |-> Revision(m, id) + 1] : id \in targets} = Reframed(targets)
        <5>1. \A id \in targets : Revision(m, id) + 1 = 2
          BY <2>0, <2>2
        <5> HIDE DEF targets
        <5> QED BY <5>1 DEF Reframed
      <4>3. /\ DOMAIN n = DOMAIN m /\ n.blocked = m.blocked
            /\ n.reframes = m.reframes \cup Reframed(targets)
            /\ n.episodes = m.episodes /\ n.retrievals = m.retrievals
            /\ n.accesses = m.accesses /\ n.beliefs = m.beliefs
        <5> HIDE DEF targets, n
        <5> QED BY <4>1, <4>2, Fields DEF IsMemory
      <4> QED BY <4>3 DEF SameHistory, IsMemory
    <3> QED BY <3>1, <3>2
  <2>4. PartnerTargets(n) = P
    BY <2>3 DEF PartnerTargets, SameHistory
  <2>5. TreatedAs(c, ActivationDay, n, k)
    BY <1>1, <1>6, <2>1, <2>2, <2>3, <2>4 DEF TreatedAs
  <2> QED BY <2>3, <2>5 DEF Treated
<1> QED BY <1>0, <1>3, <1>4, <1>5, <1>6 DEF Conditions

(***************************************************************************)
(* The stores of an execution tell its days.                               *)
(***************************************************************************)
Logs(mem) == IsMemory(mem) /\ IsSeq(mem.retrievals) /\ IsSeq(mem.beliefs)

Told(c, s, n) ==
  /\ s.treatment = c.intervention
  /\ Logs(s.memory)
  /\ TreatedAs(c, n, s.memory, s.instructions)
  /\ TellsDays(c, s.memory, s.days)
  /\ \A e \in Range(s.memory.episodes) :
       e.day \in 1..n /\ e.id \in Range(Candidates(c.formation, e.day))

\* A fresh execution has nothing to tell.
LEMMA FreshTold ==
  ASSUME NEW c \in Cells
  PROVE  Told(c, FreshStore(c), 0)
<1> DEFINE m == EmptyMemory
<1>1. /\ m.episodes = <<>> /\ m.retrievals = <<>> /\ m.accesses = {} /\ m.blocked = {}
      /\ m.reframes = {}
      /\ m.beliefs = <<[day |-> 0, supporting |-> {}, contradicting |-> {}]>>
  BY DEF EmptyMemory
<1>2. IsMemory(m)
  BY EmptyMemoryFacts
<1>3. /\ FreshStore(c).memory = m /\ FreshStore(c).treatment = c.intervention
      /\ FreshStore(c).instructions = InitialInstructions(c) /\ FreshStore(c).days = <<>>
  BY DEF FreshStore
<1>4. IsSeq(m.beliefs) /\ Belief(m) = [day |-> 0, supporting |-> {}, contradicting |-> {}]
  <2>1. PICK b : b = [day |-> 0, supporting |-> {}, contradicting |-> {}]
    OBVIOUS
  <2>2. <<b>> \in Seq({b}) /\ Len(<<b>>) = 1 /\ <<b>>[1] = b
    OBVIOUS
  <2> QED BY <1>1, <2>1, <2>2, SeqOfItsRange DEF Belief, Last
<1>5. Logs(m)
  BY <1>1, <1>2, <1>4, EmptyFacts DEF Logs
<1>6. ~ (0 >= ActivationDay)
  BY CalendarAssumption
<1>7. TreatedAs(c, 0, m, InitialInstructions(c))
  BY <1>1, <1>6 DEF TreatedAs, TreatedBy
<1>8. TellsDays(c, m, <<>>)
  <2>1. [d \in DOMAIN <<>> |-> EpisodesOfDay(c, <<>>, d)] = <<>>
    BY EmptyFacts
  <2>2. FlattenSeq(<<>>) = <<>>
    BY EmptyFacts DEF FlattenSeq
  <2>3. StoredIds(m) = {}
    BY <1>1, EmptyFacts DEF StoredIds
  <2>4. UNION {Accesses(m.retrievals[d]) : d \in DOMAIN <<>>} = {}
    BY EmptyFacts
  <2> HIDE DEF m
  <2> QED BY <1>1, <1>4, <2>1, <2>2, <2>3, <2>4, EmptyFacts DEF TellsDays
<1>9. Range(m.episodes) = {}
  BY <1>1, EmptyFacts DEF Range
<1> HIDE DEF m
<1> QED BY <1>3, <1>5, <1>7, <1>8, <1>9 DEF Told

\* The memory a day works on has the same history, and the treatment of the day.
LEMMA SourceTold ==
  ASSUME NEW c \in Cells, NEW s, NEW n \in Nat, Counted(s, n), Told(c, s, n)
  PROVE  /\ SameHistory(s.memory, SourceOn(s))
         /\ TreatedAs(c, n + 1, SourceOn(s), ActiveOn(s))
<1>1. Number(s) = n + 1 /\ ActivationDay \in Nat
  BY CalendarAssumption DEF Number, Counted
<1>2. IsMemory(s.memory) /\ TreatedAs(c, n, s.memory, s.instructions)
  BY DEF Told, Logs
<1>3. CASE n + 1 # ActivationDay
  <2>1. StagedOn(s) = <<>>
    BY <1>1, <1>3 DEF StagedOn
  <2>2. SourceOn(s) = s.memory /\ ActiveOn(s) = s.instructions
    BY <2>1 DEF SourceOn, ActiveOn
  <2>3. (n >= ActivationDay) = (n + 1 >= ActivationDay)
    BY <1>1, <1>3
  <2>4. \A x : TreatedBy(c, n, x) = TreatedBy(c, n + 1, x)
    BY <2>3 DEF TreatedBy
  <2>5. TreatedAs(c, n + 1, s.memory, s.instructions)
    BY <1>2, <2>4 DEF TreatedAs
  <2> QED BY <1>2, <2>2, <2>5 DEF SameHistory
<1>4. CASE n + 1 = ActivationDay
  <2>1. \A x : ~ TreatedBy(c, n, x)
    BY <1>1, <1>4 DEF TreatedBy
  <2>2. /\ s.memory.blocked = {} /\ s.memory.reframes = {}
        /\ s.instructions = InitialInstructions(c) /\ s.treatment = c.intervention
    BY <1>2, <2>1 DEF TreatedAs, Told
  <2>3. PICK a : a = Treated(c.intervention, s.memory, InitialInstructions(c), SeenOn(s))
    OBVIOUS
  <2>4. StagedOn(s) = <<a>>
    BY <1>1, <1>4, <2>2, <2>3 DEF StagedOn
  <2>5. SourceOn(s) = a.memory /\ ActiveOn(s) = a.instructions
    BY <2>4 DEF SourceOn, ActiveOn
  <2>6. PICK m : m = s.memory
    OBVIOUS
  <2>7. SameHistory(m, a.memory) /\ TreatedAs(c, ActivationDay, a.memory, a.instructions)
    BY <1>2, <2>2, <2>3, <2>6, TreatedOnce
  <2> QED BY <1>4, <2>5, <2>6, <2>7
<1> QED BY <1>3, <1>4

\* The retrieval of a new day is recorded.
LEMMA AuditAdds ==
  ASSUME NEW m, Logs(m), NEW r, r \notin Range(m.retrievals)
  PROVE  LET a == CommitRetrieval(m, r)
         IN /\ IsMemory(a)
            /\ a.retrievals = Append(m.retrievals, r)
            /\ a.accesses = m.accesses \cup Accesses(r)
            /\ a.episodes = m.episodes /\ a.beliefs = m.beliefs
            /\ a.blocked = m.blocked /\ a.reframes = m.reframes
<1> DEFINE a == CommitRetrieval(m, r)
<1>1. a = [m EXCEPT !.retrievals = Append(m.retrievals, r),
                    !.accesses = m.accesses \cup Accesses(r)]
  BY DEF CommitRetrieval
<1>2. /\ DOMAIN a = DOMAIN m /\ a.retrievals = Append(m.retrievals, r)
      /\ a.accesses = m.accesses \cup Accesses(r)
      /\ a.episodes = m.episodes /\ a.beliefs = m.beliefs
      /\ a.blocked = m.blocked /\ a.reframes = m.reframes
  <2> HIDE DEF a
  <2> QED BY <1>1, Fields DEF IsMemory, Logs
<1>3. IsMemory(a)
  BY <1>2 DEF IsMemory, Logs
<1> QED BY <1>2, <1>3

\* The retrieval of a day is recorded as one of a new day.
LEMMA AuditOfDay ==
  ASSUME NEW c \in Cells, NEW s, NEW n \in Nat, Counted(s, n), Told(c, s, n)
  PROVE  /\ ContextOn(s).retrieval.query.day = n + 1
         /\ \A x \in Range(SourceOn(s).retrievals) : x.query.day \in 1..n
         /\ IsMemory(AuditedOn(s))
         /\ AuditedOn(s).retrievals = Append(s.memory.retrievals, ContextOn(s).retrieval)
         /\ AuditedOn(s).accesses = s.memory.accesses \cup Accesses(ContextOn(s).retrieval)
         /\ AuditedOn(s).episodes = s.memory.episodes
         /\ AuditedOn(s).beliefs = s.memory.beliefs
         /\ AuditedOn(s).blocked = SourceOn(s).blocked
         /\ AuditedOn(s).reframes = SourceOn(s).reframes
<1>1. PICK m, src, r, h, a :
        m = s.memory /\ src = SourceOn(s) /\ r = ContextOn(s).retrieval /\ h = s.days
          /\ a = AuditedOn(s)
  OBVIOUS
<1>2. /\ IsSeq(h) /\ Len(h) = n /\ DOMAIN h = 1..n /\ Number(s) = n + 1
  BY <1>1, SequenceFacts DEF Counted, Number
<1>3. Logs(m) /\ TellsDays(c, m, h)
  BY <1>1 DEF Told
<1>4. SameHistory(m, src)
  BY <1>1, SourceTold
<1>5. Logs(src)
  BY <1>3, <1>4 DEF SameHistory, Logs
<1>6. r.query.day = n + 1
  <2>1. r = Rank(SourceOn(s), Query(SourceOn(s), Number(s)))
    BY <1>1 DEF ContextOn
  <2>2. r.query = Query(SourceOn(s), Number(s))
    BY <2>1 DEF Rank
  <2> QED BY <1>2, <2>2 DEF Query
<1>7. \A x \in Range(src.retrievals) : x.query.day \in 1..n
  <2>1. IsSeq(m.retrievals) /\ Len(m.retrievals) = n
    BY <1>2, <1>3 DEF Logs, TellsDays
  <2>2. DOMAIN m.retrievals = 1..n
    BY <2>1, SequenceFacts
  <2>3. \A d \in 1..n : m.retrievals[d].query.day = d
    BY <1>2, <1>3 DEF TellsDays
  <2>4. src.retrievals = m.retrievals
    BY <1>4 DEF SameHistory
  <2> QED BY <2>2, <2>3, <2>4 DEF Range
<1>8. r \notin Range(src.retrievals)
  BY <1>6, <1>7
<1>9. /\ IsMemory(a) /\ a.retrievals = Append(src.retrievals, r)
      /\ a.accesses = src.accesses \cup Accesses(r)
      /\ a.episodes = src.episodes /\ a.beliefs = src.beliefs
      /\ a.blocked = src.blocked /\ a.reframes = src.reframes
  <2>1. a = CommitRetrieval(src, r)
    BY <1>1 DEF AuditedOn
  <2> QED BY <1>5, <1>8, <2>1, AuditAdds
<1>10. /\ src.retrievals = m.retrievals /\ src.accesses = m.accesses
       /\ src.episodes = m.episodes /\ src.beliefs = m.beliefs
  BY <1>4 DEF SameHistory
<1>11. /\ r.query.day = n + 1
       /\ \A x \in Range(src.retrievals) : x.query.day \in 1..n
       /\ IsMemory(a) /\ a.retrievals = Append(m.retrievals, r)
       /\ a.accesses = m.accesses \cup Accesses(r)
       /\ a.episodes = m.episodes /\ a.beliefs = m.beliefs
       /\ a.blocked = src.blocked /\ a.reframes = src.reframes
  BY <1>6, <1>7, <1>9, <1>10
<1> QED BY <1>1, <1>11

\* The belief cites what is stored, before and after the evidence of a day.
LEMMA BeliefCites ==
  ASSUME NEW m, Logs(m), NEW d, NEW ids
  PROVE  LET a == UpdateBelief(m, d, ids)
         IN /\ Logs(a)
            /\ Belief(a).supporting = Belief(m).supporting \cup (ids \cap Supporting)
            /\ Belief(a).contradicting = Belief(m).contradicting \cup (ids \cap Contradicting)
            /\ a.episodes = m.episodes /\ a.retrievals = m.retrievals
            /\ a.accesses = m.accesses /\ a.blocked = m.blocked /\ a.reframes = m.reframes
<1> DEFINE a == UpdateBelief(m, d, ids)
           b == UpdatedBelief(m, d, ids)
<1>1. /\ b.supporting = Belief(m).supporting \cup (ids \cap Supporting)
      /\ b.contradicting = Belief(m).contradicting \cup (ids \cap Contradicting)
  BY DEF UpdatedBelief
<1>2. CASE ids \cap (Supporting \cup Contradicting) = {}
  <2>1. a = m /\ ids \cap Supporting = {} /\ ids \cap Contradicting = {}
    BY <1>2 DEF UpdateBelief
  <2> QED BY <2>1
<1>3. CASE b = Belief(m)
  <2>1. a = m
    BY <1>3 DEF UpdateBelief
  <2> QED BY <1>1, <1>3, <2>1
<1>4. CASE ids \cap (Supporting \cup Contradicting) # {} /\ b # Belief(m)
  <2>1. a = [m EXCEPT !.beliefs = Append(m.beliefs, b)]
    BY <1>4 DEF UpdateBelief
  <2>2. /\ DOMAIN a = DOMAIN m /\ a.beliefs = Append(m.beliefs, b)
        /\ a.episodes = m.episodes /\ a.retrievals = m.retrievals
        /\ a.accesses = m.accesses /\ a.blocked = m.blocked /\ a.reframes = m.reframes
    <3> HIDE DEF a, b
    <3> QED BY <2>1, Fields DEF IsMemory, Logs
  <2>3. IsSeq(a.beliefs) /\ Belief(a) = b
    <3> HIDE DEF a, b
    <3>1. IsSeq(Append(m.beliefs, b)) /\ Last(Append(m.beliefs, b)) = b
      BY AppendFacts DEF Logs
    <3> QED BY <2>2, <3>1 DEF Belief
  <2>4. Logs(a)
    <3> HIDE DEF a, b
    <3> QED BY <2>2, <2>3 DEF Logs, IsMemory
  <2> QED BY <1>1, <2>2, <2>3, <2>4
<1> QED BY <1>2, <1>3, <1>4

\* What two sequences hold together.
LEMMA JoinRange ==
  ASSUME NEW s, IsSeq(s), NEW t, IsSeq(t)
  PROVE  Range(s \o t) = Range(s) \cup Range(t)
<1>1. /\ Len(s) \in Nat /\ DOMAIN s = 1..Len(s) /\ Len(t) \in Nat /\ DOMAIN t = 1..Len(t)
  BY SequenceFacts
<1>2. PICK u : u = s \o t
  OBVIOUS
<1>3. /\ IsSeq(u) /\ Len(u) = Len(s) + Len(t)
      /\ \A i \in 1..Len(s) : u[i] = s[i]
      /\ \A i \in 1..Len(t) : u[Len(s) + i] = t[i]
  BY <1>2, JoinFacts
<1>4. DOMAIN u = 1..(Len(s) + Len(t))
  BY <1>3, SequenceFacts
<1>5. ASSUME NEW i \in DOMAIN u
      PROVE  u[i] \in Range(s) \cup Range(t)
  <2>1. CASE i \in 1..Len(s)
    BY <1>1, <1>3, <2>1 DEF Range
  <2>2. CASE i \notin 1..Len(s)
    <3>1. i - Len(s) \in 1..Len(t) /\ i = Len(s) + (i - Len(s))
      BY <1>1, <1>4, <2>2
    <3>2. PICK k \in 1..Len(t) : i = Len(s) + k
      BY <3>1
    <3>3. u[i] = t[k]
      BY <1>3, <3>2
    <3> QED BY <1>1, <3>3 DEF Range
  <2> QED BY <2>1, <2>2
<1>6. ASSUME NEW i \in DOMAIN s
      PROVE  s[i] \in Range(u)
  <2>1. i \in DOMAIN u /\ u[i] = s[i]
    BY <1>1, <1>3, <1>4
  <2> QED BY <2>1 DEF Range
<1>7. ASSUME NEW i \in DOMAIN t
      PROVE  t[i] \in Range(u)
  <2>1. Len(s) + i \in DOMAIN u /\ u[Len(s) + i] = t[i]
    BY <1>1, <1>3, <1>4
  <2> QED BY <2>1 DEF Range
<1>8. Range(u) = Range(s) \cup Range(t)
  BY <1>5, <1>6, <1>7 DEF Range
<1> QED BY <1>2, <1>8

(***************************************************************************)
(* The episodes of a day.                                                  *)
(***************************************************************************)
LEMMA EpisodesOnDay ==
  ASSUME NEW c \in Cells, NEW s, NEW n \in Nat, Counted(s, n), n < LastDay
  PROVE  LET es == EpisodesOn(c, s)
         IN /\ IsSeq(es) /\ Len(es) = Len(EventOn(c, s)) /\ Len(es) \in Nat
            /\ \A i \in 1..Len(es) : es[i].day = n + 1 /\ es[i].id = EventOn(c, s)[i]
            /\ \A i, j \in 1..Len(es) : es[i] = es[j] => i = j
            /\ es = EpisodesOfDay(c, Append(s.days, RecordOn(s)), n + 1)
<1> DEFINE es == EpisodesOn(c, s)
           ev == EventOn(c, s)
<1>1. /\ Number(s) = n + 1 /\ Len(ev) \in Nat /\ DOMAIN ev = 1..Len(ev)
  BY EventCounts
<1>2. IsInjective(ev)
  <2>1. n + 1 \in 1..LastDay
    BY CellAssumption
  <2> QED BY <1>1, <2>1, CellAssumption DEF EventOn
<1>3. es = [i \in 1..Len(ev) |-> es[i]]
  BY <1>1 DEF EpisodesOn
<1>4. \A i \in 1..Len(ev) : es[i].day = n + 1 /\ es[i].id = ev[i]
  BY <1>1 DEF EpisodesOn
<1>5. IsSeq(es) /\ Len(es) = Len(ev)
  <2> HIDE DEF es, ev
  <2> QED BY <1>1, <1>3, FunctionIsSeq
<1>6. \A i, j \in 1..Len(ev) : es[i] = es[j] => i = j
  <2>1. \A i, j \in 1..Len(ev) : ev[i] = ev[j] => i = j
    <3> HIDE DEF ev
    <3> QED BY <1>1, <1>2 DEF IsInjective
  <2> HIDE DEF es, ev
  <2> QED BY <1>4, <2>1
<1>7. es = EpisodesOfDay(c, Append(s.days, RecordOn(s)), n + 1)
  <2>1. PICK h : h = Append(s.days, RecordOn(s))
    OBVIOUS
  <2>2. IsSeq(h) /\ Len(h) = n + 1 /\ h[n + 1] = RecordOn(s)
    BY <2>1, AppendFacts DEF Counted
  <2>3. SubSeq(h, 1, n + 1) = h
    BY <2>2, WholePrefix
  <2>4. h[n + 1].decision = InputOn(s)
    BY <2>2 DEF RecordOn
  <2> QED BY <1>1, <2>1, <2>3, <2>4 DEF EpisodesOn, EpisodesOfDay, EventOn
<1> HIDE DEF es, ev
<1>8. /\ IsSeq(es) /\ Len(es) = Len(ev) /\ Len(es) \in Nat
      /\ \A i \in 1..Len(es) : es[i].day = n + 1 /\ es[i].id = ev[i]
      /\ \A i, j \in 1..Len(es) : es[i] = es[j] => i = j
  BY <1>1, <1>4, <1>5, <1>6
<1> QED BY <1>7, <1>8 DEF es, ev

\* The memory a day leaves adds its retrieval, its episodes, and their evidence.
AddsDay(m, r, es, ids, a) ==
  /\ Logs(m)
  /\ Logs(a)
  /\ a.episodes = m.episodes \o es
  /\ a.retrievals = Append(m.retrievals, r)
  /\ a.accesses = m.accesses \cup Accesses(r)
  /\ ids = {e.id : e \in Range(es)}
  /\ Belief(a).supporting = Belief(m).supporting \cup (ids \cap Supporting)
  /\ Belief(a).contradicting = Belief(m).contradicting \cup (ids \cap Contradicting)

\* The logs of a day's end continue the history by that day.
LEMMA TellsOneMore ==
  ASSUME NEW c, NEW h, NEW m, NEW day, NEW k, NEW es, NEW r, NEW a, NEW ids,
         IsSeq(h), TellsDays(c, m, h), k = Append(h, day), IsSeq(es),
         es = EpisodesOfDay(c, k, Len(h) + 1),
         r.query.day = Len(h) + 1, r.selected = day.retrieved,
         AddsDay(m, r, es, ids, a)
  PROVE  TellsDays(c, a, k)
<1>0. /\ Logs(m)
      /\ Logs(a)
      /\ a.episodes = m.episodes \o es
      /\ a.retrievals = Append(m.retrievals, r)
      /\ a.accesses = m.accesses \cup Accesses(r)
      /\ ids = {e.id : e \in Range(es)}
      /\ Belief(a).supporting = Belief(m).supporting \cup (ids \cap Supporting)
      /\ Belief(a).contradicting = Belief(m).contradicting \cup (ids \cap Contradicting)
  BY DEF AddsDay
<1> DEFINE n == Len(h)
<1>1. /\ n \in Nat /\ DOMAIN h = 1..n /\ IsSeq(k) /\ Len(k) = n + 1
      /\ DOMAIN k = 1..(n + 1) /\ k[n + 1] = day /\ \A i \in 1..n : k[i] = h[i]
  <2>1. n \in Nat /\ DOMAIN h = 1..n
    BY SequenceFacts
  <2> QED BY <2>1, AppendFacts
<1>2. a.episodes = FlattenSeq([d \in DOMAIN k |-> EpisodesOfDay(c, k, d)])
  <2>1. PICK f : f = EpisodesOfDays(c, h)
    OBVIOUS
  <2>2. m.episodes = FlattenSeq(f)
    BY <2>1 DEF TellsDays, EpisodesOfDays
  <2>3. IsSeq(f)
    BY <2>1, DaysAreSeq
  <2>4. EpisodesOfDays(c, k) = Append(f, es)
    BY <2>1, DaysOneMore
  <2>5. FlattenSeq(Append(f, es)) = FlattenSeq(f) \o es
    BY <2>3, FlattenOneMore
  <2>6. a.episodes = FlattenSeq(EpisodesOfDays(c, k))
    BY <1>0, <2>2, <2>4, <2>5
  <2> QED BY <2>6 DEF EpisodesOfDays
<1>3. /\ Len(m.retrievals) = n /\ IsSeq(m.retrievals) /\ DOMAIN m.retrievals = 1..n
      /\ \A d \in 1..n : m.retrievals[d].query.day = d /\ m.retrievals[d].selected = h[d].retrieved
  <2>1. Len(m.retrievals) = n /\ IsSeq(m.retrievals)
    BY <1>0 DEF TellsDays, Logs
  <2>2. DOMAIN m.retrievals = 1..n
    BY <2>1, SequenceFacts
  <2> QED BY <1>1, <2>1, <2>2 DEF TellsDays
<1>4. /\ Len(a.retrievals) = n + 1 /\ a.retrievals[n + 1] = r
      /\ \A d \in 1..n : a.retrievals[d] = m.retrievals[d]
  BY <1>0, <1>3, AppendFacts
<1>5. \A d \in DOMAIN k : d = n + 1 \/ d \in 1..n
  BY <1>1
<1>6. \A d \in DOMAIN k : /\ a.retrievals[d].query.day = d
                          /\ a.retrievals[d].selected = k[d].retrieved
  BY <1>1, <1>3, <1>4, <1>5
<1>7. a.accesses = UNION {Accesses(a.retrievals[d]) : d \in DOMAIN k}
  <2>1. m.accesses = UNION {Accesses(m.retrievals[d]) : d \in 1..n}
    BY <1>1 DEF TellsDays
  <2>2. DOMAIN k = (1..n) \cup {n + 1}
    BY <1>1
  <2>3. {Accesses(a.retrievals[d]) : d \in DOMAIN k} =
          {Accesses(m.retrievals[d]) : d \in 1..n} \cup {Accesses(r)}
    BY <1>4, <2>2
  <2> QED BY <1>0, <2>1, <2>3
<1>8. StoredIds(a) = StoredIds(m) \cup ids
  <2>1. \A x : IsSeq(x.episodes) => StoredIds(x) = {e.id : e \in Range(x.episodes)}
    BY DEF StoredIds, Range
  <2>2. IsSeq(m.episodes) /\ IsSeq(a.episodes)
    BY <1>0 DEF Logs, IsMemory
  <2>3. Range(a.episodes) = Range(m.episodes) \cup Range(es)
    BY <1>0, <2>2, JoinRange
  <2>4. /\ StoredIds(a) = {e.id : e \in Range(a.episodes)}
        /\ StoredIds(m) = {e.id : e \in Range(m.episodes)}
    BY <2>1, <2>2
  <2> QED BY <1>0, <2>3, <2>4
<1>9. /\ Belief(m).supporting = StoredIds(m) \cap Supporting
      /\ Belief(m).contradicting = StoredIds(m) \cap Contradicting
  BY DEF TellsDays
<1>10. /\ Belief(a).supporting = StoredIds(a) \cap Supporting
       /\ Belief(a).contradicting = StoredIds(a) \cap Contradicting
  BY <1>0, <1>8, <1>9
<1> QED BY <1>1, <1>2, <1>4, <1>6, <1>7, <1>10 DEF TellsDays

\* What is about a partner does not change once the days of targets are over.
LEMMA TargetsStay ==
  ASSUME NEW m, NEW a, NEW es, NEW n \in Nat, n > TargetsThrough,
         Range(a.episodes) = Range(m.episodes) \cup Range(es),
         \A e \in Range(es) : e.day = n
  PROVE  PartnerTargets(a) = PartnerTargets(m)
<1>1. \A e \in Range(es) : ~ (e.day <= TargetsThrough)
  BY CalendarAssumption
<1>2. {x \in Range(a.episodes) : x.id \in Partner /\ x.day <= TargetsThrough}
        = {x \in Range(m.episodes) : x.id \in Partner /\ x.day <= TargetsThrough}
  BY <1>1
<1> QED BY <1>2 DEF PartnerTargets

\* What the model is shown on a day, by the memory that the treatment leaves.
LEMMA ShownBySource ==
  ASSUME NEW c \in Cells, NEW s, NEW day, NEW e,
         TreatedAs(c, day, SourceOn(s), ActiveOn(s)), e.input = InputOn(s),
         \A x : TreatedBy(c, day, x) => PartnerTargets(e.memory) = PartnerTargets(SourceOn(s))
  PROVE  ShownItsLayer(c, day, e)
<1> DEFINE m == SourceOn(s)
           r == ContextOn(s).retrieval
           old == PartnerTargets(e.memory)
<1>1. e.input.instructions =
        InitialInstructions(c) \
          (IF TreatedBy(c, day, "instruction_removal") THEN TargetInstructions ELSE {})
  BY DEF TreatedAs, InputOn
<1>2. ASSUME NEW z \in e.input.selected
      PROVE  /\ TreatedBy(c, day, "memory_blocking") => z[1] \notin old
             /\ (z[2] > 1) = (TreatedBy(c, day, "memory_reframing") /\ z[1] \in old /\ z[2] # 0)
  <2>1. PICK id \in r.selected : z = <<id, Revision(m, id)>>
    BY DEF InputOn
  <2>2. id \in Retrievable \ m.blocked
    <3>1. r = Rank(m, Query(m, Number(s)))
      BY DEF ContextOn
    <3>2. PICK q : q = Query(m, Number(s)) /\ q.blocked = m.blocked
      <4>1. Query(m, Number(s)).blocked = m.blocked
        BY DEF Query
      <4> QED BY <4>1
    <3>3. PICK C : C = {Candidate(m, q, x) : x \in Range(m.episodes)}
      OBVIOUS
    <3>4. r.selected = {x.id : x \in Best(C)}
      BY <3>1, <3>2, <3>3 DEF Rank
    <3>5. PICK x \in Best(C) : id = x.id
      BY <2>1, <3>4
    <3>6. x \in C /\ x.eligible
      BY <3>5 DEF Best
    <3>7. PICK y : x = Candidate(m, q, y)
      BY <3>3, <3>6
    <3> QED BY <3>2, <3>5, <3>6, <3>7 DEF Candidate
  <2>3. TreatedBy(c, day, "memory_blocking") => id \notin old
    <3>1. TreatedBy(c, day, "memory_blocking") => m.blocked = PartnerTargets(m)
      BY DEF TreatedAs
    <3> QED BY <2>2, <3>1
  <2>4. (Revision(m, id) > 1) =
          (TreatedBy(c, day, "memory_reframing") /\ id \in old /\ Revision(m, id) # 0)
    <3>1. CASE TreatedBy(c, day, "memory_reframing")
      <4>1. m.reframes = Reframed(PartnerTargets(m) \cap Interpreted)
        BY <3>1 DEF TreatedAs
      <4>2. Revision(m, id) = IF id \notin Interpreted THEN 0
                              ELSE IF id \in PartnerTargets(m) \cap Interpreted THEN 2 ELSE 1
        BY <4>1, RevisionOf DEF Revision
      <4>3. old = PartnerTargets(m)
        BY <3>1
      <4> QED BY <3>1, <4>2, <4>3
    <3>2. CASE ~ TreatedBy(c, day, "memory_reframing")
      <4>1. m.reframes = {}
        BY <3>2 DEF TreatedAs
      <4>2. Revision(m, id) = IF id \notin Interpreted THEN 0 ELSE 1
        BY <4>1, RevisionFirst DEF Revision
      <4> QED BY <3>2, <4>2
    <3> QED BY <3>1, <3>2
  <2> QED BY <2>1, <2>3, <2>4
<1> QED BY <1>1, <1>2 DEF ShownItsLayer

\* A day adds itself to what the stores tell, and its evidence shows one layer treated.
LEMMA LivedTells ==
  ASSUME NEW c \in Cells, NEW s, NEW t, NEW n \in Nat, n < LastDay,
         Counted(s, n), Told(c, s, n), Lived(c, s, t)
  PROVE  Told(c, t, n + 1) /\ ShownItsLayer(c, n + 1, t.evidence[n + 1])
<1>1. PICK mem, u : /\ Kept(c, s, Len(EventOn(c, s)), mem) /\ t = After(c, s, mem)
                    /\ u = EvidenceOn(c, s, mem)
  BY DEF Lived
<1>2. PICK m, src, r, es, h, k, day, a, ids :
        /\ m = s.memory /\ src = SourceOn(s) /\ r = ContextOn(s).retrieval
        /\ es = EpisodesOn(c, s) /\ h = s.days /\ day = RecordOn(s) /\ k = Append(h, day)
        /\ a = t.memory /\ ids = Range(EventOn(c, s))
  OBVIOUS
<1>3. /\ IsSeq(h) /\ Len(h) = n /\ DOMAIN h = 1..n /\ Number(s) = n + 1
  BY <1>2, SequenceFacts DEF Counted, Number
<1>4. /\ t.treatment = s.treatment /\ t.instructions = ActiveOn(s) /\ t.days = k
      /\ a = UpdateBelief(mem, n + 1, ids) /\ t.evidence = Append(s.evidence, u)
  BY <1>1, <1>2, <1>3 DEF After, RememberedOn
<1>5. /\ Logs(m) /\ TellsDays(c, m, h) /\ s.treatment = c.intervention
      /\ \A e \in Range(m.episodes) :
           e.day \in 1..n /\ e.id \in Range(Candidates(c.formation, e.day))
  BY <1>2 DEF Told
<1>6. SameHistory(m, src) /\ TreatedAs(c, n + 1, src, ActiveOn(s))
  BY <1>2, SourceTold
<1>8. r.query.day = n + 1 /\ r.selected = day.retrieved
  <2>1. r = Rank(SourceOn(s), Query(SourceOn(s), Number(s)))
    BY <1>2 DEF ContextOn
  <2>2. r.query = Query(SourceOn(s), Number(s))
    BY <2>1 DEF Rank
  <2> QED BY <1>2, <1>3, <2>2 DEF Query, RecordOn
<1>10. PICK audited : audited = AuditedOn(s)
  OBVIOUS
<1>11. /\ IsMemory(audited) /\ audited.retrievals = Append(m.retrievals, r)
       /\ audited.accesses = m.accesses \cup Accesses(r)
       /\ audited.episodes = m.episodes /\ audited.beliefs = m.beliefs
       /\ audited.blocked = src.blocked /\ audited.reframes = src.reframes
  BY <1>2, <1>10, AuditOfDay
<1>12. /\ IsSeq(es) /\ Len(es) = Len(EventOn(c, s)) /\ Len(es) \in Nat
       /\ \A i \in 1..Len(es) : es[i].day = n + 1 /\ es[i].id = EventOn(c, s)[i]
       /\ \A i, j \in 1..Len(es) : es[i] = es[j] => i = j
       /\ es = EpisodesOfDay(c, k, n + 1)
  BY <1>2, EpisodesOnDay
<1>13. SameButEpisodes(audited, mem) /\ mem.episodes = m.episodes \o es
  <2>1. Keeps(audited, es, Len(es), mem)
    BY <1>1, <1>2, <1>10, <1>12 DEF Kept
  <2>2. \A i \in 1..Len(es) : es[i] \notin Range(audited.episodes)
    <3>1. \A i \in 1..Len(es) : ~ (es[i].day \in 1..n)
      BY <1>12
    <3> QED BY <1>5, <1>11, <3>1
  <2>3. SameButEpisodes(audited, mem) /\ mem.episodes = audited.episodes \o es
    <3>1. PICK l : l = Len(es)
      OBVIOUS
    <3>2. l \in Nat /\ l = Len(es) /\ IsMemory(audited) /\ IsSeq(es)
      BY <1>11, <1>12, <3>1
    <3>3. /\ \A i \in 1..l : es[i] \notin Range(audited.episodes)
          /\ \A i, j \in 1..l : es[i] = es[j] => i = j
          /\ Keeps(audited, es, l, mem)
      BY <1>12, <2>1, <2>2, <3>1
    <3> QED BY <3>2, <3>3, EpisodesFollow
  <2> QED BY <1>11, <2>3
<1>14. Logs(mem) /\ Belief(mem) = Belief(m)
  <2>1. mem.retrievals = Append(m.retrievals, r) /\ mem.beliefs = m.beliefs /\ IsMemory(mem)
    BY <1>11, <1>13 DEF SameButEpisodes
  <2>2. IsSeq(Append(m.retrievals, r))
    BY <1>5, AppendFacts DEF Logs
  <2> QED BY <1>5, <2>1, <2>2 DEF Logs, Belief
<1>15. /\ Logs(a)
       /\ Belief(a).supporting = Belief(m).supporting \cup (ids \cap Supporting)
       /\ Belief(a).contradicting = Belief(m).contradicting \cup (ids \cap Contradicting)
       /\ a.episodes = mem.episodes /\ a.retrievals = mem.retrievals
       /\ a.accesses = mem.accesses /\ a.blocked = mem.blocked /\ a.reframes = mem.reframes
  BY <1>4, <1>14, BeliefCites
<1>16. /\ a.episodes = m.episodes \o es
       /\ a.retrievals = Append(m.retrievals, r)
       /\ a.accesses = m.accesses \cup Accesses(r)
       /\ a.blocked = src.blocked /\ a.reframes = src.reframes
  BY <1>11, <1>13, <1>15 DEF SameButEpisodes
<1>17. DOMAIN es = 1..Len(es) /\ DOMAIN EventOn(c, s) = 1..Len(es)
  <2>1. DOMAIN EventOn(c, s) = 1..Len(EventOn(c, s))
    BY EventCounts
  <2> QED BY <1>12, <2>1, SequenceFacts
<1>18. ids = {e.id : e \in Range(es)}
  BY <1>2, <1>12, <1>17 DEF Range
<1>19. TellsDays(c, a, k)
  <2>1. IsSeq(h) /\ Logs(m) /\ TellsDays(c, m, h) /\ k = Append(h, day)
    BY <1>2, <1>3, <1>5
  <2>2. /\ IsSeq(es) /\ es = EpisodesOfDay(c, k, Len(h) + 1)
        /\ r.query.day = Len(h) + 1 /\ r.selected = day.retrieved
    BY <1>3, <1>8, <1>12
  <2>3. AddsDay(m, r, es, ids, a)
    BY <1>5, <1>15, <1>16, <1>18 DEF AddsDay
  <2> QED BY <2>1, <2>2, <2>3, TellsOneMore
<1>20. Range(a.episodes) = Range(m.episodes) \cup Range(es)
  BY <1>5, <1>12, <1>16, JoinRange DEF Logs, IsMemory
<1>21. \A e \in Range(es) : e.day = n + 1 /\ e.id \in Range(Candidates(c.formation, e.day))
  <2>1. EventOn(c, s) = Candidates(c.formation, n + 1)
    BY <1>3 DEF EventOn
  <2> QED BY <1>12, <1>17, <2>1 DEF Range
<1>22. \A e \in Range(a.episodes) :
         e.day \in 1..(n + 1) /\ e.id \in Range(Candidates(c.formation, e.day))
  <2>1. \A e \in Range(m.episodes) :
          e.day \in 1..(n + 1) /\ e.id \in Range(Candidates(c.formation, e.day))
    <3>1. \A i \in 1..n : i \in 1..(n + 1)
      OBVIOUS
    <3> QED BY <1>5, <3>1
  <2>2. n + 1 \in 1..(n + 1)
    OBVIOUS
  <2> QED BY <1>20, <1>21, <2>1, <2>2
<1>23. \A x : TreatedBy(c, n + 1, x) => PartnerTargets(a) = PartnerTargets(src)
  <2>1. PartnerTargets(src) = PartnerTargets(m)
    BY <1>6 DEF PartnerTargets, SameHistory
  <2>2. ASSUME n + 1 >= ActivationDay
        PROVE  PartnerTargets(a) = PartnerTargets(m)
    <3>1. n + 1 > TargetsThrough /\ n + 1 \in Nat
      BY <2>2, CalendarAssumption
    <3> QED BY <1>20, <1>21, <3>1, TargetsStay
  <2> QED BY <2>1, <2>2 DEF TreatedBy
<1>24. TreatedAs(c, n + 1, a, ActiveOn(s))
  BY <1>6, <1>16, <1>23 DEF TreatedAs
<1>25. Told(c, t, n + 1)
  BY <1>2, <1>4, <1>5, <1>15, <1>19, <1>22, <1>24 DEF Told
<1>26. u = t.evidence[n + 1] /\ u.input = InputOn(s) /\ u.memory = a
  <2>1. Append(s.evidence, u)[n + 1] = u
    BY AppendFacts DEF Counted
  <2>2. u.input = InputOn(s) /\ u.memory = RememberedOn(c, s, mem)
    BY <1>1 DEF EvidenceOn
  <2>3. t.memory = RememberedOn(c, s, mem)
    BY <1>1 DEF After
  <2> QED BY <1>2, <1>4, <2>1, <2>2, <2>3
<1>27. ShownItsLayer(c, n + 1, u)
  <2>1. TreatedAs(c, n + 1, SourceOn(s), ActiveOn(s))
    BY <1>2, <1>6
  <2>2. \A x : TreatedBy(c, n + 1, x) => PartnerTargets(u.memory) = PartnerTargets(SourceOn(s))
    BY <1>2, <1>23, <1>26
  <2> QED BY <1>26, <2>1, <2>2, ShownBySource
<1> QED BY <1>25, <1>26, <1>27

\* All the days of an execution are told, and each shows one layer treated.
LEMMA GrowsTells ==
  ASSUME NEW c \in Cells, NEW f, NEW n \in Nat, Grows(c, f, n), n <= LastDay
  PROVE  \A i \in 0..n : /\ Told(c, f[i], i)
                         /\ i # 0 => ShownItsLayer(c, i, f[i].evidence[i])
<1> DEFINE Good(i) == /\ Told(c, f[i], i)
                      /\ i # 0 => ShownItsLayer(c, i, f[i].evidence[i])
           T == {i \in 0..n : ~ Good(i)}
<1>1. T = {}
  <2> SUFFICES ASSUME T # {} PROVE FALSE
    OBVIOUS
  <2>1. T \subseteq Nat
    OBVIOUS
  <2>2. PICK i \in T : \A j \in T : i <= j
    <3> HIDE DEF T
    <3> QED BY <2>1, Least
  <2>3. Good(0)
    BY FreshTold DEF Grows
  <2>4. i \in 1..n /\ i - 1 \in 0..n /\ i - 1 \notin T /\ ~ Good(i)
    <3>1. i \in 0..n /\ ~ Good(i)
      OBVIOUS
    <3> HIDE DEF Good
    <3>2. i # 0
      BY <2>3, <3>1
    <3> HIDE DEF T
    <3> QED BY <2>2, <3>1, <3>2
  <2>5. Good(i - 1)
    BY <2>4
  <2>6. PICK k, s, t : k = i - 1 /\ s = f[i - 1] /\ t = f[i]
    OBVIOUS
  <2>7. k \in Nat /\ k < LastDay /\ k + 1 = i
    BY <2>4, <2>6, CellAssumption
  <2>8. Lived(c, s, t) /\ Counted(s, k) /\ Told(c, s, k)
    BY <2>4, <2>5, <2>6, GrowsCounts DEF Grows
  <2>9. Told(c, t, k + 1) /\ ShownItsLayer(c, k + 1, t.evidence[k + 1])
    <3> HIDE DEF T, Good
    <3> QED BY <2>7, <2>8, LivedTells
  <2> QED BY <2>4, <2>6, <2>7, <2>9
<1> QED BY <1>1

\* Every day that the live execution has evidence of shows one layer treated.
LEMMA EvidenceShowsItsLayer ==
  ASSUME CellInv, ChainInv
  PROVE  OnlyItsLayer
<1>1. PICK a, c, x : a = [cell |-> cell, evidence |-> evidence] /\ c = cell /\ x = evidence
  OBVIOUS
<1>2. a \in Chains /\ a.cell = c /\ a.evidence = x
  BY <1>1 DEF Chains
<1>3. PICK f : \E n \in Nat :
        /\ c \in Cells /\ n <= LastDay /\ Grows(c, f, n)
        /\ IsSeq(x) /\ Len(x) = n /\ f[n].evidence = x
  BY <1>2, ChainsGrown
<1>4. ASSUME NEW i \in DOMAIN x
      PROVE  ShownItsLayer(c, i, x[i])
  <2>1. Len(x) \in Nat /\ i \in 1..Len(x) /\ i # 0
    BY <1>3, SequenceFacts
  <2>2. f[Len(x)].evidence[i] = f[i].evidence[i]
    BY <1>3, <2>1, GrowsCounts
  <2>3. ShownItsLayer(c, i, f[i].evidence[i])
    BY <1>3, <2>1, GrowsTells
  <2> QED BY <1>3, <2>2, <2>3
<1> QED BY <1>1, <1>4 DEF OnlyItsLayer

\* Between days the live memory tells the days.
LEMMA MemoryTold ==
  ASSUME CellInv, ChainInv
  PROVE  MemoryTellsDays
<1>1. SUFFICES ASSUME pc = "idle" PROVE TellsDays(cell, memory, days)
  BY DEF MemoryTellsDays
<1>2. PICK c, s : c = cell /\ s = Store
  OBVIOUS
<1>3. c \in Cells /\ Grown(c, s) /\ StoreInv(c, s)
  BY <1>1, <1>2 DEF CellInv, TypeOK, IdleInv, ChainInv
<1>4. PICK f : Grows(c, f, Len(s.evidence)) /\ f[Len(s.evidence)] = s
  BY <1>3 DEF Grown
<1>5. Len(s.evidence) \in Nat /\ Len(s.evidence) <= LastDay
  <2>1. IsSeq(s.evidence) /\ Len(s.evidence) = Len(s.days) /\ Len(s.days) <= LastDay
    BY <1>3 DEF StoreInv, AlignedStore
  <2> QED BY <2>1, SequenceFacts
<1>6. Told(c, s, Len(s.evidence))
  BY <1>3, <1>4, <1>5, GrowsTells
<1> QED BY <1>2, <1>6, StoreFields DEF Told

\* What the model is shown changes from the activation day on in the layer of
\* the cell's intervention and in no other, whatever days failed and wherever
\* the execution was resumed.
THEOREM LayersStayApart == Spec => []OnlyItsLayer
<1>1. CellInv /\ ChainInv => OnlyItsLayer
  BY EvidenceShowsItsLayer
<1> QED BY <1>1, CellGrows, PTL

\* Between days the memory tells the history of the days and nothing else.
THEOREM MemoryStaysTrue == Spec => []MemoryTellsDays
<1>1. CellInv /\ ChainInv => MemoryTellsDays
  BY MemoryTold
<1> QED BY <1>1, CellGrows, PTL

(***************************************************************************)
(* No check refuses a day.                                                 *)
(***************************************************************************)
\* The record of a treatment says that it changed one layer.
LEMMA TreatmentIsolated ==
  ASSUME NEW c \in Conditions, NEW m, IsMemory(m), NEW d, NEW seen
  PROVE  Isolated(Treated(c, m, d, seen).record)
<1> DEFINE targets == Targets(c, m, d)
           n == TreatedMemory(c, m, targets)
           k == TreatedInstructions(c, d, targets)
           b == LayerSnapshot(m, d)
           a == LayerSnapshot(n, k)
           r == Treated(c, m, d, seen).record
<1>1. r.before = b /\ r.after = a /\ r.targets = targets /\ r.condition = c
  BY DEF Treated
<1>2. targets = {} => n = m /\ k = d
  BY DEF TreatedMemory, TreatedInstructions
<1>3. c # "instruction_removal" => k = d
  BY DEF TreatedInstructions
<1>4. LET x == Block(m, targets)
      IN x.episodes = m.episodes /\ x.beliefs = m.beliefs /\ x.reframes = m.reframes
  BY Fields DEF Block, IsMemory
<1>5. LET x == Reframe(m, targets)
      IN x.episodes = m.episodes /\ x.beliefs = m.beliefs /\ x.blocked = m.blocked
  BY Fields DEF Reframe, IsMemory
<1>6. /\ c = "memory_blocking" => n \in {m, Block(m, targets)}
      /\ c = "memory_reframing" => n \in {m, Reframe(m, targets)}
      /\ c \notin {"memory_blocking", "memory_reframing"} => n = m
  BY DEF TreatedMemory
<1> HIDE DEF n
<1>7. /\ n.episodes = m.episodes /\ n.beliefs = m.beliefs
      /\ c # "memory_blocking" => n.blocked = m.blocked
      /\ c # "memory_reframing" => n.reframes = m.reframes
  BY <1>4, <1>5, <1>6
<1>8. /\ a.episodes = b.episodes /\ a.beliefs = b.beliefs
      /\ a.instructions = k /\ b.instructions = d
      /\ c # "memory_blocking" => b.blocked = a.blocked
  BY <1>7 DEF LayerSnapshot
<1>9. c # "memory_reframing" => b.interpretations = a.interpretations
  BY <1>7 DEF LayerSnapshot, Revision
<1>10. targets = {} => b = a
  BY <1>2
<1> HIDE DEF a, b, k, r, targets
<1>11. Isolated(r)
  BY <1>1, <1>3, <1>8, <1>9, <1>10 DEF Isolated
<1> QED BY <1>11 DEF r

\* Between days the checkpoint of the runtime validates.
LEMMA SnapshotPasses ==
  ASSUME CellInv, pc = "idle"
  PROVE  SnapshotValid
<1>1. AlignedStore(cell, Store) /\ IsSeq(days)
  BY DEF CellInv, IdleInv, StoreInv, TypeOK
<1>2. /\ Len(days) >= ShockDay => shock # Nothing
      /\ Len(applied) = IF Len(days) >= ActivationDay THEN 1 ELSE 0
  BY <1>1, StoreFields DEF AlignedStore
<1>3. Len(days) \in Nat
  BY <1>1, SequenceFacts
<1> QED BY <1>2, <1>3, CalendarAssumption DEF SnapshotValid, Today

\* The treatment is accepted on its day, and is on record after it.
LEMMA TreatmentPasses ==
  ASSUME CellInv, pc = "retrieve"
  PROVE  TreatmentAccepted
<1>1. /\ TypeOK /\ IsMemory(memory) /\ UncommittedInv
      /\ Len(days) \in Nat /\ cell.intervention \in Conditions
      /\ treatment = cell.intervention
      /\ Len(applied) = IF Len(days) >= ActivationDay THEN 1 ELSE 0
      /\ Len(days) >= ShockDay => before.store.shock = ShockDay
  BY DuringDay
<1>2. shock = before.store.shock /\ shock \in {Nothing, ShockDay} /\ IsSeq(applied)
  BY <1>1 DEF UncommittedInv, TypeOK
<1>3. Today = Len(days) + 1
  BY DEF Today
<1>4. ASSUME Today = ActivationDay
      PROVE  ShockSeen # Nothing /\ Isolated(Activation(ShockSeen).record)
  <2>1. applied = <<>>
    <3>1. Len(applied) = 0
      BY <1>1, <1>3, <1>4, CalendarAssumption
    <3> QED BY <1>2, <3>1, SequenceFacts
  <2>2. Activation(ShockSeen) = Treated(treatment, memory, instructions, ShockSeen)
    BY <2>1 DEF Activation
  <2>3. ShockSeen = ShockDay /\ ShockDay \in Nat
    BY <1>1, <1>2, <1>3, <1>4, CalendarAssumption DEF ShockSeen
  <2> QED BY <1>1, <2>2, <2>3, TreatmentIsolated, CellAssumption
<1>5. Today > ActivationDay => applied # <<>>
  <2>1. Today > ActivationDay => Len(applied) = 1
    BY <1>1, <1>3, CalendarAssumption
  <2> QED BY <1>2, <2>1, EmptyFacts
<1> QED BY <1>2, <1>4, <1>5 DEF TreatmentAccepted

\* The model is asked in the context of the day.
LEMMA ContextPasses ==
  ASSUME CellInv, pc = "select", NEW s, s = before.store, Determined(s)
  PROVE  ContextAccepted
<1>1. context = ContextOn(s) /\ staged = StagedOn(s)
  BY DEF Determined
<1>2. Today = Number(s) /\ applied = s.applied /\ memory = s.memory /\ instructions = s.instructions
  BY Unchanged
<1>3. SourceMemory = SourceOn(s) /\ ActiveInstructions = ActiveOn(s)
  BY <1>1, <1>2 DEF SourceMemory, SourceOn, ActiveInstructions, ActiveOn
<1>4. Overlay = OverlayOn(s)
  BY <1>1, <1>2, <1>3 DEF Overlay, OverlayOn
<1> QED BY <1>1, <1>2, <1>4 DEF ContextAccepted, ContextOn

\* The decision that the language is for is pending.
LEMMA CallPasses ==
  ASSUME pc = "speak", NEW s, Determined(s)
  PROVE  \E p \in pending : p.input = decision
<1>1. /\ decision = InputOn(s)
      /\ pending = {[input |-> InputOn(s), overlay |-> OverlayOn(s), ledger |-> ChosenOn(s)]}
  BY DEF Determined
<1> QED BY <1>1

\* The first k episodes of a day are kept after those of the days before.
LEMMA EpisodesSoFar ==
  ASSUME NEW c \in Cells, NEW s, NEW n \in Nat, n < LastDay, Counted(s, n), Told(c, s, n),
         NEW k \in Nat, k <= Len(EventOn(c, s)), NEW mem, Kept(c, s, k, mem)
  PROVE  /\ SameButEpisodes(AuditedOn(s), mem)
         /\ Followed(s.memory.episodes, EpisodesOn(c, s), k, mem.episodes)
<1>1. PICK a, es : a = AuditedOn(s) /\ es = EpisodesOn(c, s)
  OBVIOUS
<1>2. IsMemory(a) /\ a.episodes = s.memory.episodes
  BY <1>1, AuditOfDay
<1>3. /\ Len(es) = Len(EventOn(c, s)) /\ Len(es) \in Nat
      /\ \A i \in 1..Len(es) : es[i].day = n + 1
      /\ \A i, j \in 1..Len(es) : es[i] = es[j] => i = j
  BY <1>1, EpisodesOnDay
<1>4. \A i \in 1..k : i \in 1..Len(es)
  BY <1>3
<1>5. \A i, j \in 1..k : es[i] = es[j] => i = j
  BY <1>3, <1>4
<1>6. \A i \in 1..k : es[i] \notin Range(a.episodes)
  <2>1. \A e \in Range(s.memory.episodes) : e.day \in 1..n
    BY DEF Told
  <2>2. \A i \in 1..k : ~ (es[i].day \in 1..n)
    BY <1>3, <1>4
  <2> QED BY <1>2, <2>1, <2>2
<1>7. Keeps(a, es, k, mem)
  BY <1>1 DEF Kept
<1>8. SameButEpisodes(a, mem) /\ Followed(a.episodes, es, k, mem.episodes)
  BY <1>2, <1>5, <1>6, <1>7, EpisodesFollowed
<1> QED BY <1>1, <1>2, <1>8

\* The next one has the id of none that is stored.
LEMMA EpisodeIsNew ==
  ASSUME SoundScenario, NEW c \in Cells, NEW s, NEW n \in Nat, n < LastDay, Counted(s, n),
         Told(c, s, n), NEW k \in Nat, k < Len(EventOn(c, s)), NEW mem, Kept(c, s, k, mem)
  PROVE  ~ EpisodeClashes(mem, EpisodesOn(c, s)[k + 1])
<1>1. PICK b, es, ev, L :
        b = s.memory.episodes /\ es = EpisodesOn(c, s) /\ ev = EventOn(c, s) /\ L = Len(b)
  OBVIOUS
<1>2. /\ Number(s) = n + 1 /\ Len(ev) \in Nat /\ DOMAIN ev = 1..Len(ev)
      /\ ev = Candidates(c.formation, n + 1) /\ n + 1 \in 1..LastDay
  BY <1>1, EventCounts, CellAssumption DEF EventOn
<1>3. k <= Len(ev) /\ k + 1 \in 1..Len(ev) /\ \A i \in 1..k : i \in 1..Len(ev) /\ i # k + 1
  BY <1>1, <1>2
<1>4. /\ Len(es) = Len(ev) /\ \A i \in 1..Len(es) : es[i].id = ev[i]
  BY <1>1, EpisodesOnDay
<1>5. Followed(b, es, k, mem.episodes)
  BY <1>1, <1>3, EpisodesSoFar
<1>6. IsSeq(b)
  BY <1>1 DEF Told, Logs, IsMemory
<1>7. L \in Nat /\ DOMAIN b = 1..L /\ DOMAIN mem.episodes = 1..(L + k)
  BY <1>1, <1>5, <1>6, SequenceFacts DEF Followed
<1>8. ASSUME NEW e \in Range(b)
      PROVE  e.id # ev[k + 1]
  <2>1. e.day \in 1..n /\ e.id \in Range(Candidates(c.formation, e.day))
    BY <1>1 DEF Told
  <2>2. e.day \in 1..LastDay /\ e.day # n + 1
    BY <2>1, CellAssumption
  <2>3. ev[k + 1] \in Range(Candidates(c.formation, n + 1))
    BY <1>2, <1>3 DEF Range
  <2>4. Range(Candidates(c.formation, e.day)) \cap Range(Candidates(c.formation, n + 1)) = {}
    BY <1>2, <2>2 DEF SoundScenario
  <2> QED BY <2>1, <2>3, <2>4
<1>9. ASSUME NEW i \in 1..k
      PROVE  es[i].id # ev[k + 1]
  <2>1. IsInjective(ev)
    BY <1>2, CellAssumption
  <2> QED BY <1>2, <1>3, <1>4, <2>1 DEF IsInjective
<1>10. ASSUME NEW e \in Range(mem.episodes)
       PROVE  e.id # ev[k + 1]
  <2>1. PICK j \in 1..(L + k) : e = mem.episodes[j]
    BY <1>7 DEF Range
  <2>2. CASE j \in 1..L
    <3>1. e = b[j] /\ b[j] \in Range(b)
      BY <1>1, <1>5, <1>7, <2>1, <2>2 DEF Followed, Range
    <3> QED BY <1>8, <3>1
  <2>3. CASE j \notin 1..L
    <3>1. j - L \in 1..k /\ j = L + (j - L)
      BY <1>7, <2>3
    <3>2. PICK i \in 1..k : j = L + i
      BY <3>1
    <3>3. e = es[i]
      BY <1>1, <1>5, <2>1, <3>2 DEF Followed
    <3> QED BY <1>9, <3>3
  <2> QED BY <2>2, <2>3
<1>11. es[k + 1].id = ev[k + 1]
  BY <1>3, <1>4
<1> QED BY <1>1, <1>10, <1>11 DEF EpisodeClashes

\* During a day the stores it can go back to tell the days before it.
LEMMA MorningTold ==
  ASSUME CellInv, ChainInv, pc # "idle"
  PROVE  \E s : \E n \in Nat :
           /\ s = before.store /\ cell \in Cells /\ n < LastDay
           /\ StoreInv(cell, s) /\ Determined(s) /\ Counted(s, n) /\ Told(cell, s, n)
<1>1. PICK c, s : c = cell /\ s = before.store /\ Grown(c, s) /\ Determined(s)
  BY DEF ChainInv
<1>2. c \in Cells /\ StoreInv(c, s) /\ Len(s.days) < LastDay
  BY <1>1 DEF CellInv, TypeOK, DayInv
<1>3. PICK n : n = Len(s.evidence)
  OBVIOUS
<1>4. n \in Nat /\ n = Len(s.days) /\ n < LastDay /\ n <= LastDay
  BY <1>2, <1>3, SequenceFacts, CellAssumption DEF StoreInv, AlignedStore
<1>5. PICK f : Grows(c, f, n) /\ f[n] = s
  BY <1>1, <1>3 DEF Grown
<1>6. Told(c, s, n)
  BY <1>2, <1>4, <1>5, GrowsTells
<1>7. Counted(s, n)
  BY <1>2, <1>3, <1>4 DEF StoreInv, Counted
<1> QED BY <1>1, <1>2, <1>4, <1>6, <1>7

\* The day's retrieval collides with none on record.
LEMMA RetrievalPasses ==
  ASSUME CellInv, ChainInv, pc = "commit"
  PROVE  ~ RetrievalCollides(SourceMemory, context.retrieval)
<1>1. PICK s : \E n \in Nat :
        /\ s = before.store /\ cell \in Cells /\ n < LastDay
        /\ StoreInv(cell, s) /\ Determined(s) /\ Counted(s, n) /\ Told(cell, s, n)
  BY MorningTold
<1>2. PICK c, n : /\ c = cell /\ n \in Nat /\ c \in Cells /\ Counted(s, n) /\ Told(c, s, n)
  BY <1>1
<1>3. context = ContextOn(s) /\ staged = StagedOn(s) /\ memory = s.memory
  BY <1>1 DEF Determined
<1>4. SourceMemory = SourceOn(s)
  BY <1>3 DEF SourceMemory, SourceOn
<1>5. /\ context.retrieval.query.day = n + 1
      /\ \A x \in Range(SourceMemory.retrievals) : x.query.day \in 1..n
  BY <1>2, <1>3, <1>4, AuditOfDay
<1>6. ASSUME NEW x, NEW y, RetrievalId(x) = RetrievalId(y)
      PROVE  x.query = y.query
  BY <1>6 DEF RetrievalId
<1> QED BY <1>2, <1>5, <1>6 DEF RetrievalCollides

\* Each episode has an id of its own, and no evidence speaks both for and
\* against the belief.
LEMMA CommitPasses ==
  ASSUME SoundScenario, CellInv, ChainInv, pc = "append"
  PROVE  IF drafts # <<>> THEN ~ EpisodeClashes(SourceMemory, NextEpisode) ELSE BeliefAccepted
<1>1. PICK s : \E n \in Nat :
        /\ s = before.store /\ cell \in Cells /\ n < LastDay
        /\ StoreInv(cell, s) /\ Determined(s) /\ Counted(s, n) /\ Told(cell, s, n)
  BY MorningTold
<1>2. PICK c, n : /\ c = cell /\ n \in Nat /\ n < LastDay /\ c \in Cells
                  /\ Counted(s, n) /\ Told(c, s, n)
  BY <1>1
<1>3. context = ContextOn(s) /\ decision = InputOn(s) /\ Appending(s)
  BY <1>1 DEF Determined
<1>4. Today = Number(s) /\ days = s.days
  BY <1>1, Unchanged
<1>5. PICK k, mem :
        /\ k \in Nat /\ k + Len(drafts) = Len(EventOn(c, s))
        /\ \A i \in 1..Len(drafts) : drafts[i] = DraftsOn(c, s)[k + i]
        /\ mem = SourceMemory /\ Kept(c, s, k, mem)
  BY <1>2, <1>3 DEF Appending
<1>6. IsSeq(drafts) /\ Len(drafts) \in Nat /\ (drafts = <<>>) = (Len(drafts) = 0)
  BY <1>3, SequenceFacts DEF Appending
<1>7. /\ Len(EventOn(c, s)) \in Nat /\ DOMAIN EventOn(c, s) = 1..Len(EventOn(c, s))
  BY <1>2, EventCounts
<1>8. CASE drafts # <<>>
  <2>1. k < Len(EventOn(c, s)) /\ k + 1 \in DOMAIN EventOn(c, s)
    BY <1>5, <1>6, <1>7, <1>8
  <2>2. Head(drafts) = DraftsOn(c, s)[k + 1]
    <3>1. Head(drafts) = drafts[1] /\ 1 \in 1..Len(drafts)
      BY <1>6, <1>8, TailFacts
    <3> QED BY <1>5, <3>1
  <2>3. StepRecord = RecordOn(s)
    BY <1>3, <1>4 DEF StepRecord, RecordOn
  <2>4. NextEpisode = EpisodesOn(c, s)[k + 1]
    <3>1. /\ Head(drafts).id = EventOn(c, s)[k + 1] /\ Head(drafts).day = Number(s)
          /\ Head(drafts).action = Action(InputOn(s))
      BY <2>1, <2>2 DEF DraftsOn
    <3> QED BY <1>4, <2>1, <2>3, <3>1 DEF NextEpisode, EpisodesOn
  <2>5. ~ EpisodeClashes(mem, EpisodesOn(c, s)[k + 1])
    BY <1>2, <1>5, <2>1, EpisodeIsNew
  <2> QED BY <1>5, <1>8, <2>4, <2>5
<1>9. CASE drafts = <<>>
  <2>1. mem.beliefs = s.memory.beliefs
    <3>1. k <= Len(EventOn(c, s))
      BY <1>5, <1>6, <1>7
    <3>2. SameButEpisodes(AuditedOn(s), mem)
      BY <1>2, <1>5, <3>1, EpisodesSoFar
    <3>3. AuditedOn(s).beliefs = s.memory.beliefs
      BY <1>2, AuditOfDay
    <3> QED BY <3>2, <3>3 DEF SameButEpisodes
  <2>2. Belief(mem) = Belief(s.memory)
    BY <2>1 DEF Belief
  <2>3. /\ Belief(mem).supporting \subseteq Supporting
        /\ Belief(mem).contradicting \subseteq Contradicting
    BY <1>2, <2>2 DEF Told, TellsDays
  <2>4. ASSUME NEW d, NEW ids
        PROVE  Consistent(UpdatedBelief(mem, d, ids))
    <3>1. /\ UpdatedBelief(mem, d, ids).supporting \subseteq Supporting
          /\ UpdatedBelief(mem, d, ids).contradicting \subseteq Contradicting
      BY <2>3 DEF UpdatedBelief
    <3> QED BY <3>1 DEF Consistent, SoundScenario
  <2> QED BY <1>5, <1>9, <2>4 DEF BeliefAccepted
<1> QED BY <1>8, <1>9

\* The targets of a treatment are partner memories from before the shock.
LEMMA TargetsOfTreatment ==
  ASSUME NEW c \in {"memory_blocking", "memory_reframing"}, NEW m, NEW d, NEW seen
  PROVE  Treated(c, m, d, seen).record.targets \subseteq PartnerTargets(m)
<1>1. Treated(c, m, d, seen).record.targets = Targets(c, m, d)
  BY DEF Treated
<1>2. ReframeTargets(m) \subseteq PartnerTargets(m)
  BY DEF ReframeTargets
<1>3. Targets(c, m, d) \in {PartnerTargets(m), ReframeTargets(m)}
  BY DEF Targets
<1> QED BY <1>1, <1>2, <1>3

\* They are still in memory when the evidence of the day is written.
LEMMA TargetsPass ==
  ASSUME CellInv, pc = "attest", NEW s, s = before.store, StoreInv(cell, s), Determined(s),
         Len(days) = ActivationDay
  PROVE  TargetsLegal
<1>1. CommittedInv /\ TypeOK /\ treatment = s.treatment
  BY DEF CellInv, DayInv
<1>2. applied = AppliedOn(s)
  BY DEF Determined, Committed
<1>3. /\ Len(s.days) \in Nat /\ Len(s.days) + 1 = ActivationDay /\ Len(s.applied) = 0
      /\ IsSeq(s.applied) /\ IsMemory(s.memory) /\ treatment \in Conditions
  <2>1. IsSeq(s.days) /\ IsSeq(s.applied) /\ IsMemory(s.memory)
    BY DEF StoreInv
  <2>2. Len(s.days) \in Nat /\ Len(s.days) + 1 = ActivationDay
    BY <1>1, <2>1, SequenceFacts DEF CommittedInv
  <2>3. Len(s.applied) = IF Len(s.days) >= ActivationDay THEN 1 ELSE 0
    BY DEF StoreInv, AlignedStore
  <2> QED BY <1>1, <2>1, <2>2, <2>3 DEF TypeOK
<1>4. PICK t : t = Treated(s.treatment, s.memory, s.instructions, SeenOn(s))
  OBVIOUS
<1>5. StagedOn(s) = <<t>>
  BY <1>3, <1>4 DEF StagedOn, Number
<1>6. applied = Append(s.applied, t.record) /\ s.applied = <<>>
  BY <1>2, <1>3, <1>5, SequenceFacts DEF AppliedOn
<1>7. applied[1] = t.record /\ Last(applied) = t.record /\ applied # <<>>
  <2>1. PICK r : r = t.record
    OBVIOUS
  <2>2. Append(<<>>, r) = <<r>>
    OBVIOUS
  <2> QED BY <1>6, <2>1, <2>2 DEF Last
<1>8. InForce(t.record, memory, instructions)
  BY <1>1, <1>7 DEF CommittedInv
<1>9. t.record.after.episodes = s.memory.episodes
  <2>1. PICK r : r = t.record
    OBVIOUS
  <2>2. Isolated(r)
    BY <1>1, <1>3, <1>4, <2>1, TreatmentIsolated
  <2>3. r.before.episodes = s.memory.episodes
    BY <1>4, <2>1 DEF Treated, LayerSnapshot
  <2> QED BY <2>1, <2>2, <2>3 DEF Isolated
<1>10. Range(s.memory.episodes) \subseteq Range(memory.episodes)
  BY <1>8, <1>9 DEF InForce, Range
<1>11. ASSUME treatment \in {"memory_blocking", "memory_reframing"}, NEW id \in t.record.targets
       PROVE  \E e \in Range(memory.episodes) :
                e.id = id /\ e.day <= TargetsThrough /\ id \in Partner
  <2>1. id \in PartnerTargets(s.memory)
    BY <1>1, <1>4, <1>11, TargetsOfTreatment
  <2> QED BY <1>10, <2>1 DEF PartnerTargets
<1> QED BY <1>7, <1>11 DEF TargetsLegal

\* One call is of the day, and it asked what was recorded.
LEMMA AttestPasses ==
  ASSUME CellInv, ChainInv, pc = "attest"
  PROVE  \E i \in DOMAIN traces : CallAccepted(i)
<1>1. PICK s : \E n \in Nat :
        /\ s = before.store /\ cell \in Cells /\ n < LastDay
        /\ StoreInv(cell, s) /\ Determined(s) /\ Counted(s, n) /\ Told(cell, s, n)
  BY MorningTold
<1>2. PICK n \in Nat : Counted(s, n)
  BY <1>1
<1>3. /\ context = ContextOn(s) /\ traces[Len(traces)] = TraceOn(s) /\ Committed(s)
  BY <1>1 DEF Determined, Spoken
<1>4. CommittedInv /\ TracesInv /\ TypeOK
  BY DEF CellInv, DayInv
<1>5. Len(days) = n + 1 /\ Number(s) = n + 1 /\ Len(s.days) = n
  BY <1>1, <1>2, <1>4 DEF CommittedInv, Counted, Number
<1>6. PICK i : i = Len(traces)
  OBVIOUS
<1>7. /\ i \in Nat /\ i # 0 /\ DOMAIN traces = 1..i
      /\ \A j \in 1..i : traces[j].day = (n + 1) - i + j
  <2>1. i = before.traced + 1 /\ before.traced \in Nat /\ TracesDated(traces, n + 1)
    BY <1>1, <1>4, <1>5, <1>6 DEF TracesInv, Spoken
  <2>2. DOMAIN traces = 1..i
    BY <1>4, <1>6, SequenceFacts DEF TypeOK
  <2> QED BY <1>6, <2>1, <2>2 DEF TracesDated
<1>8. {j \in DOMAIN traces : traces[j].day = Len(days)} = {i}
  BY <1>5, <1>7
<1>9. context.day = Len(days)
  BY <1>3, <1>5 DEF ContextOn
<1>10. {x[1] : x \in traces[i].input.selected} = Last(days).retrieved
  <2>1. PICK S, m : S = ContextOn(s).retrieval.selected /\ m = SourceOn(s)
    OBVIOUS
  <2>2. traces[i].input.selected = {<<id, Revision(m, id)>> : id \in S}
    BY <1>3, <1>6, <2>1 DEF TraceOn, InputOn
  <2>3. {x[1] : x \in traces[i].input.selected} = S
    <3>1. \A id : <<id, Revision(m, id)>>[1] = id
      OBVIOUS
    <3>2. \A x \in traces[i].input.selected : \E id \in S : x[1] = id
      BY <2>2, <3>1
    <3>3. \A id \in S : \E x \in traces[i].input.selected : x[1] = id
      BY <2>2, <3>1
    <3> QED BY <3>2, <3>3
  <2>4. days = Append(s.days, RecordOn(s)) /\ IsSeq(s.days)
    BY <1>2, <1>3 DEF Committed, Counted
  <2>5. Last(days) = RecordOn(s)
    BY <2>4, AppendFacts DEF Last
  <2>6. Last(days).retrieved = S
    BY <2>1, <2>5 DEF RecordOn
  <2> QED BY <2>3, <2>6
<1>11. (Len(days) >= ActivationDay) = (applied # <<>>)
  <2>1. /\ Len(applied) = (IF Len(days) >= ActivationDay THEN 1 ELSE 0) /\ IsSeq(applied)
    BY <1>4 DEF CommittedInv, TypeOK
  <2> QED BY <2>1, SequenceFacts
<1>12. Len(days) = ActivationDay => TargetsLegal
  BY <1>1, TargetsPass
<1>13. i \in DOMAIN traces
  BY <1>7
<1>14. CallAccepted(i)
  BY <1>8, <1>9, <1>10, <1>11, <1>12 DEF CallAccepted
<1> QED BY <1>13, <1>14

\* In a scenario like the repository's no check of a day ever refuses it,
\* whatever failed before and wherever the execution was resumed.
THEOREM ChecksPass ==
  ASSUME SoundScenario
  PROVE  Spec => []NoCheckRefuses
<1>1. ASSUME CellInv, ChainInv
      PROVE  NoCheckRefuses
  <2>1. pc = "select" => ContextAccepted
    BY <1>1, MorningTold, ContextPasses
  <2>2. pc = "speak" => \E p \in pending : p.input = decision
    BY <1>1, MorningTold, CallPasses
  <2>3. pc = "append" => IF drafts # <<>> THEN ~ EpisodeClashes(SourceMemory, NextEpisode)
                         ELSE BeliefAccepted
    BY <1>1, CommitPasses
  <2> QED BY <1>1, <2>1, <2>2, <2>3, SnapshotPasses, TreatmentPasses, RetrievalPasses,
             AttestPasses DEF NoCheckRefuses
<1>2. CellInv /\ ChainInv => NoCheckRefuses
  BY <1>1
<1> QED BY <1>2, CellGrows, PTL

=============================================================================
