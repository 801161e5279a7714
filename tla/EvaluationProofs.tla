-------------------------- MODULE EvaluationProofs --------------------------
(***************************************************************************)
(* Proofs about OfflineEvaluation and its write-once store, for any number *)
(* of evaluations, designs, payloads, durations and deaths; and about the  *)
(* rules of Evaluation, for any observations and any family of tests.      *)
(***************************************************************************)
EXTENDS OfflineEvaluation, Evaluation, DataFacts, SequenceTheorems

\* A result can be verified: it has no payload, or its file is whole.
Verifiable(files, r) ==
  r.payload # NoPayload => r.payload \in DOMAIN files /\ files[r.payload] = "whole"

\* Everything an evaluation keeps is kept per design.
PerDesign ==
  /\ DOMAIN saved = Kinds /\ DOMAIN pc = Kinds /\ DOMAIN scheduled = Kinds
  /\ DOMAIN added = Kinds /\ DOMAIN outcome = Kinds

\* A file has one writer, and it is there while it is written.
OneWriter ==
  /\ \A k \in Kinds : pc[k] = "write" => outcome[k].payload \in DOMAIN store
  /\ \A k, j \in Kinds :
       pc[k] = "write" /\ pc[j] = "write" /\ outcome[k].payload = outcome[j].payload => k = j

StoreInv ==
  /\ PerDesign
  /\ \A k \in Kinds : \A id \in DOMAIN saved[k] : Verifiable(store, saved[k][id])
  /\ \A k \in Kinds : \A id \in DOMAIN added[k] : Verifiable(store, added[k][id])
  /\ OneWriter

\* What a file is stays true.
StoreGrows ==
  \A p \in DOMAIN store : p \in DOMAIN store' /\ (store[p] = "whole" => store'[p] = "whole")

-----------------------------------------------------------------------------
\* A result that can be verified stays so while the store grows.
LEMMA VerifiableStays ==
  ASSUME NEW r, Verifiable(store, r), StoreGrows
  PROVE  Verifiable(store', r)
BY DEF Verifiable, StoreGrows

\* The local state of one design is forgotten.
LEMMA ForgetFacts ==
  ASSUME StoreInv, NEW k \in Kinds, Forget(k)
  PROVE  /\ DOMAIN pc' = Kinds /\ DOMAIN scheduled' = Kinds
         /\ DOMAIN added' = Kinds /\ DOMAIN outcome' = Kinds
         /\ pc'[k] = "idle" /\ DOMAIN added'[k] = {}
         /\ \A j \in Kinds \ {k} : /\ pc'[j] = pc[j] /\ added'[j] = added[j]
                                   /\ outcome'[j] = outcome[j]
BY DEF StoreInv, PerDesign, Forget, NoResults

\* The end of a call by an error, or by its process' death.
LEMMA RaiseInv ==
  ASSUME StoreInv, NEW k \in Kinds, NEW why, Raise(k, why), UNCHANGED store
  PROVE  StoreInv' /\ StoreGrows
<1>1. /\ DOMAIN pc' = Kinds /\ DOMAIN scheduled' = Kinds
      /\ DOMAIN added' = Kinds /\ DOMAIN outcome' = Kinds
      /\ pc'[k] = "idle" /\ DOMAIN added'[k] = {}
      /\ \A j \in Kinds \ {k} : /\ pc'[j] = pc[j] /\ added'[j] = added[j]
                                /\ outcome'[j] = outcome[j]
      /\ saved' = saved
  BY ForgetFacts DEF Raise
<1>2. PerDesign'
  BY <1>1 DEF StoreInv, PerDesign
<1>3. OneWriter'
  BY <1>1 DEF StoreInv, OneWriter
<1>4. \A j \in Kinds : /\ \A id \in DOMAIN saved'[j] : Verifiable(store', saved'[j][id])
                       /\ \A id \in DOMAIN added'[j] : Verifiable(store', added'[j][id])
  BY <1>1 DEF StoreInv, Verifiable
<1>. QED BY <1>2, <1>3, <1>4 DEF StoreInv, StoreGrows

\* The end of a call that returns: its client keeps what was added.
LEMMA ReturnInv ==
  ASSUME StoreInv, NEW k \in Kinds, EndOfSlice(k)
  PROVE  StoreInv' /\ StoreGrows
<1>1. /\ DOMAIN pc' = Kinds /\ DOMAIN scheduled' = Kinds
      /\ DOMAIN added' = Kinds /\ DOMAIN outcome' = Kinds
      /\ pc'[k] = "idle" /\ DOMAIN added'[k] = {}
      /\ \A j \in Kinds \ {k} : /\ pc'[j] = pc[j] /\ added'[j] = added[j]
                                /\ outcome'[j] = outcome[j]
      /\ saved' = [saved EXCEPT ![k] = Combined(k)]
      /\ store' = store
  BY ForgetFacts DEF EndOfSlice, Return
<1>2. \A id \in DOMAIN Combined(k) : Verifiable(store, Combined(k)[id])
  BY DEF Combined, StoreInv
<1>3. PerDesign'
  BY <1>1 DEF StoreInv, PerDesign
<1>4. OneWriter'
  BY <1>1 DEF StoreInv, OneWriter
<1>5. \A j \in Kinds : \A id \in DOMAIN saved'[j] : Verifiable(store', saved'[j][id])
  <2>. SUFFICES ASSUME NEW j \in Kinds, NEW id \in DOMAIN saved'[j]
               PROVE  Verifiable(store', saved'[j][id])
    BY <1>1 DEF Verifiable
  <2>1. DOMAIN saved = Kinds
    BY DEF StoreInv, PerDesign
  <2>2. CASE j = k
    BY <1>1, <1>2, <2>1, <2>2
  <2>3. CASE j # k
    BY <1>1, <2>1, <2>3 DEF StoreInv
  <2>. QED BY <2>2, <2>3
<1>6. \A j \in Kinds : \A id \in DOMAIN added'[j] : Verifiable(store', added'[j][id])
  BY <1>1 DEF StoreInv, Verifiable
<1>. QED BY <1>1, <1>3, <1>4, <1>5, <1>6 DEF StoreInv, StoreGrows

\* A result that can be verified joins the slice.
LEMMA AddResultInv ==
  ASSUME StoreInv, StoreGrows, NEW k \in Kinds, NEW o, NEW seconds,
         AddResult(k, o, seconds), Verifiable(store', o)
  PROVE  StoreInv'
<1>1. DOMAIN saved = Kinds /\ DOMAIN pc = Kinds /\ DOMAIN scheduled = Kinds
      /\ DOMAIN added = Kinds /\ DOMAIN outcome = Kinds
  BY DEF StoreInv, PerDesign
<1>0. PICK n \in scheduled[k] :
        /\ added' = [added EXCEPT ![k] = With(added[k], Matrix[k][n], o)]
        /\ scheduled' = [scheduled EXCEPT ![k] = scheduled[k] \ {n}]
  BY DEF AddResult, IsNext
<1>2. /\ added' = [added EXCEPT ![k] = With(added[k], Matrix[k][n], o)]
      /\ outcome' = [outcome EXCEPT ![k] = NoOutcome]
      /\ pc' = [pc EXCEPT ![k] = "next"]
      /\ saved' = saved
      /\ DOMAIN scheduled' = Kinds
  BY <1>0, <1>1 DEF AddResult
<1>3. PerDesign'
  BY <1>1, <1>2 DEF PerDesign
<1>4. \A j \in Kinds : pc'[j] = "write" => j # k /\ pc[j] = "write" /\ outcome'[j] = outcome[j]
  BY <1>1, <1>2
<1>5. OneWriter'
  BY <1>4 DEF StoreInv, OneWriter, StoreGrows
<1>6. \A j \in Kinds : \A id \in DOMAIN saved'[j] : Verifiable(store', saved'[j][id])
  BY <1>2, VerifiableStays DEF StoreInv
<1>7. \A j \in Kinds : \A id \in DOMAIN added'[j] : Verifiable(store', added'[j][id])
  <2>. SUFFICES ASSUME NEW j \in Kinds, NEW id \in DOMAIN added'[j]
               PROVE  Verifiable(store', added'[j][id])
    OBVIOUS
  <2>1. added'[j][id] = o \/ (id \in DOMAIN added[j] /\ added'[j][id] = added[j][id])
    BY <1>1, <1>2 DEF With
  <2>2. CASE id \in DOMAIN added[j] /\ added'[j][id] = added[j][id]
    <3>1. Verifiable(store, added[j][id])
      BY <2>2 DEF StoreInv
    <3>. QED BY <2>2, <3>1 DEF Verifiable, StoreGrows
  <2>3. CASE added'[j][id] = o
    BY <2>3 DEF Verifiable
  <2>. QED BY <2>1, <2>2, <2>3
<1>. QED BY <1>3, <1>5, <1>6, <1>7 DEF StoreInv

-----------------------------------------------------------------------------
(* The steps of a call *)

\* A call starts from what its client has, or raises.
LEMMA ResumeInv ==
  ASSUME StoreInv, NEW k \in Kinds, NEW limit, Resume(k, limit)
  PROVE  StoreInv' /\ StoreGrows
<1>0. UNCHANGED store
  BY DEF Resume
<1>1. CASE Raise(k, "time_exceeded")
  BY <1>0, <1>1, RaiseInv
<1>2. CASE ~Raise(k, "time_exceeded")
  <2>1. /\ pc' = [pc EXCEPT ![k] = "next"]
        /\ scheduled' = [scheduled EXCEPT ![k] = Schedule(k, limit)]
        /\ added' = [added EXCEPT ![k] = NoResults]
        /\ saved' = saved /\ outcome' = outcome /\ store' = store
    BY <1>2 DEF Resume
  <2>2. PerDesign'
    BY <2>1 DEF StoreInv, PerDesign
  <2>3. OneWriter'
    BY <2>1 DEF StoreInv, PerDesign, OneWriter
  <2>4. \A j \in Kinds : \A id \in DOMAIN saved'[j] : Verifiable(store', saved'[j][id])
    BY <2>1 DEF StoreInv
  <2>5. \A j \in Kinds : j = k \/ added'[j] = added[j]
    BY <2>1 DEF StoreInv, PerDesign
  <2>6. DOMAIN added'[k] = {}
    BY <2>1 DEF StoreInv, PerDesign, NoResults
  <2>7. \A j \in Kinds : \A id \in DOMAIN added'[j] : Verifiable(store', added'[j][id])
    BY <2>1, <2>5, <2>6 DEF StoreInv
  <2>. QED BY <2>1, <2>2, <2>3, <2>4, <2>7 DEF StoreInv, StoreGrows
<1>. QED BY <1>1, <1>2

\* A trajectory starts.
LEMMA StartInv ==
  ASSUME StoreInv, NEW k \in Kinds, Start(k)
  PROVE  StoreInv' /\ StoreGrows
<1>1. /\ pc' = [pc EXCEPT ![k] = "execute"]
      /\ UNCHANGED <<store, saved, scheduled, added, outcome>>
  BY DEF Start
<1>2. PerDesign' /\ OneWriter'
  BY <1>1 DEF StoreInv, PerDesign, OneWriter
<1>. QED BY <1>1, <1>2 DEF StoreInv, StoreGrows

\* An executor returns: without a payload there is nothing to store.
LEMMA ExecuteInv ==
  ASSUME StoreInv, NEW k \in Kinds, NEW o \in Outcomes, Execute(k, o)
  PROVE  StoreInv' /\ StoreGrows
<1>0. UNCHANGED store /\ StoreGrows
  BY DEF Execute, StoreGrows
<1>1. CASE o.payload = NoPayload
  <2>1. AddResult(k, o, spent[k] + o.elapsed)
    BY <1>1 DEF Execute
  <2>2. Verifiable(store', o)
    BY <1>1 DEF Verifiable
  <2>3. PICK seconds : seconds = spent[k] + o.elapsed
    OBVIOUS
  <2>. QED BY <1>0, <2>1, <2>2, <2>3, AddResultInv
<1>2. CASE o.payload # NoPayload /\ o.payload = EmptyPayload
  BY <1>0, <1>2, RaiseInv DEF Execute
<1>3. CASE o.payload # NoPayload /\ o.payload # EmptyPayload
  <2>1. /\ outcome' = [outcome EXCEPT ![k] = o]
        /\ pc' = [pc EXCEPT ![k] = "put"]
        /\ UNCHANGED <<saved, scheduled, added>>
    BY <1>3 DEF Execute
  <2>2. PerDesign' /\ OneWriter'
    BY <1>0, <2>1 DEF StoreInv, PerDesign, OneWriter
  <2>. QED BY <1>0, <2>1, <2>2 DEF StoreInv
<1>. QED BY <1>1, <1>2, <1>3

-----------------------------------------------------------------------------
(* The steps of put *)

\* A file that is there is compared: only a whole one is accepted.
LEMMA CompareInv ==
  ASSUME StoreInv, NEW k \in Kinds, NEW seconds, Compare(k, seconds),
         outcome[k].payload \in DOMAIN store
  PROVE  StoreInv' /\ StoreGrows
<1>1. UNCHANGED store /\ StoreGrows
  BY DEF Compare, StoreGrows
<1>2. CASE store[outcome[k].payload] = "whole"
  <2>1. PICK o : o = outcome[k]
    OBVIOUS
  <2>2. PICK total : total = spent[k] + seconds
    OBVIOUS
  <2>3. AddResult(k, o, total)
    BY <1>2, <2>1, <2>2 DEF Compare
  <2>4. Verifiable(store', o)
    BY <1>1, <1>2, <2>1 DEF Verifiable
  <2>. QED BY <1>1, <2>3, <2>4, AddResultInv
<1>3. CASE store[outcome[k].payload] # "whole"
  BY <1>1, <1>3, RaiseInv DEF Compare
<1>. QED BY <1>2, <1>3

\* put looks for the file, and compares or goes on to create it.
LEMMA PutInv ==
  ASSUME StoreInv, NEW k \in Kinds, NEW seconds, Put(k, seconds)
  PROVE  StoreInv' /\ StoreGrows
<1>1. CASE outcome[k].payload \in DOMAIN store
  BY <1>1, CompareInv DEF Put
<1>2. CASE outcome[k].payload \notin DOMAIN store
  <2>1. /\ pc' = [pc EXCEPT ![k] = "create"]
        /\ UNCHANGED <<store, saved, scheduled, added, outcome>>
    BY <1>2 DEF Put, local
  <2>2. PerDesign' /\ OneWriter'
    BY <2>1 DEF StoreInv, PerDesign, OneWriter
  <2>. QED BY <2>1, <2>2 DEF StoreInv, StoreGrows
<1>. QED BY <1>1, <1>2

\* The file is created only where there is none, so that nobody else writes it.
LEMMA CreateInv ==
  ASSUME StoreInv, NEW k \in Kinds, NEW seconds, Create(k, seconds)
  PROVE  StoreInv' /\ StoreGrows
<1>1. CASE outcome[k].payload \in DOMAIN store
  BY <1>1, CompareInv DEF Create
<1>2. CASE outcome[k].payload \notin DOMAIN store
  <2>1. /\ store' = With(store, outcome[k].payload, "created")
        /\ pc' = [pc EXCEPT ![k] = "write"]
        /\ UNCHANGED <<saved, scheduled, added, outcome>>
    BY <1>2 DEF Create, local
  <2>2. StoreGrows
    BY <1>2, <2>1 DEF StoreGrows, With
  <2>3. DOMAIN store' = DOMAIN store \cup {outcome[k].payload}
    BY <2>1 DEF With
  <2>4. PerDesign'
    BY <2>1 DEF StoreInv, PerDesign
  <2>5. \A j \in Kinds : pc'[j] = "write" => j = k \/ pc[j] = "write"
    BY <2>1 DEF StoreInv, PerDesign
  <2>6. \A j \in Kinds : pc[j] = "write" => outcome[j].payload # outcome[k].payload
    BY <1>2 DEF StoreInv, OneWriter
  <2>7. OneWriter'
    BY <2>1, <2>3, <2>5, <2>6 DEF StoreInv, OneWriter
  <2>8. \A j \in Kinds : /\ \A id \in DOMAIN saved'[j] : Verifiable(store', saved'[j][id])
                         /\ \A id \in DOMAIN added'[j] : Verifiable(store', added'[j][id])
    BY <2>1, <2>2 DEF StoreInv, Verifiable, StoreGrows
  <2>. QED BY <2>2, <2>4, <2>7, <2>8 DEF StoreInv
<1>. QED BY <1>1, <1>2

\* Its one writer makes the file whole, and points to it.
LEMMA WriteInv ==
  ASSUME StoreInv, NEW k \in Kinds, NEW seconds, Write(k, seconds)
  PROVE  StoreInv' /\ StoreGrows
<1>1. PICK o : o = outcome[k]
  OBVIOUS
<1>2. PICK total : total = spent[k] + seconds
  OBVIOUS
<1>3. AddResult(k, o, total) /\ store' = [store EXCEPT ![o.payload] = "whole"]
  BY <1>1, <1>2 DEF Write
<1>4. o.payload \in DOMAIN store
  BY <1>1 DEF Write, StoreInv, OneWriter
<1>5. StoreGrows
  BY <1>3 DEF StoreGrows
<1>6. Verifiable(store', o)
  BY <1>3, <1>4 DEF Verifiable
<1>. QED BY <1>3, <1>5, <1>6, AddResultInv

-----------------------------------------------------------------------------
(* What is run again, and what the client keeps *)

\* What is left of a slice has no result, neither from an earlier call nor from this one's.
SliceInv ==
  \A k \in Kinds :
    /\ \A n \in scheduled[k] : Matrix[k][n] \notin DOMAIN saved[k]
    /\ DOMAIN added[k] \cap DOMAIN saved[k] = {}

\* The results that a client has stay as they are.
SavedStays ==
  \A k \in Kinds : \A id \in DOMAIN saved[k] :
    id \in DOMAIN saved'[k] /\ saved'[k][id] = saved[k][id]

\* A call that raises leaves nothing behind.
LEMMA RaiseSlice ==
  ASSUME StoreInv, SliceInv, NEW k \in Kinds, NEW why, Raise(k, why)
  PROVE  SliceInv' /\ SavedStays
<1>1. /\ scheduled' = [scheduled EXCEPT ![k] = {}]
      /\ added' = [added EXCEPT ![k] = NoResults]
      /\ saved' = saved
  BY DEF Raise, Forget
<1>2. DOMAIN scheduled = Kinds /\ DOMAIN added = Kinds
  BY DEF StoreInv, PerDesign
<1>3. \A j \in Kinds \ {k} : scheduled'[j] = scheduled[j] /\ added'[j] = added[j]
  BY <1>1, <1>2
<1>4. scheduled'[k] = {} /\ DOMAIN added'[k] = {}
  BY <1>1, <1>2 DEF NoResults
<1>. QED BY <1>1, <1>3, <1>4 DEF SliceInv, SavedStays

\* A call that returns adds its results to those of the client, and replaces none.
LEMMA ReturnSlice ==
  ASSUME StoreInv, SliceInv, NEW k \in Kinds, EndOfSlice(k)
  PROVE  SliceInv' /\ SavedStays
<1>1. /\ scheduled' = [scheduled EXCEPT ![k] = {}]
      /\ added' = [added EXCEPT ![k] = NoResults]
      /\ saved' = [saved EXCEPT ![k] = Combined(k)]
  BY DEF EndOfSlice, Return, Forget
<1>2. DOMAIN scheduled = Kinds /\ DOMAIN added = Kinds /\ DOMAIN saved = Kinds
  BY DEF StoreInv, PerDesign
<1>3. \A j \in Kinds \ {k} :
        scheduled'[j] = scheduled[j] /\ added'[j] = added[j] /\ saved'[j] = saved[j]
  BY <1>1, <1>2
<1>4. scheduled'[k] = {} /\ DOMAIN added'[k] = {} /\ saved'[k] = Combined(k)
  BY <1>1, <1>2 DEF NoResults
<1>5. \A id \in DOMAIN saved[k] : id \in DOMAIN Combined(k) /\ Combined(k)[id] = saved[k][id]
  BY DEF SliceInv, Combined
<1>. QED BY <1>3, <1>4, <1>5 DEF SliceInv, SavedStays

\* What gets a result leaves the slice, and only it.
LEMMA AddResultSlice ==
  ASSUME StoreInv, SliceInv, NEW k \in Kinds, NEW o, NEW seconds,
         AddResult(k, o, seconds)
  PROVE  SliceInv' /\ SavedStays
<1>1. PICK n \in scheduled[k] :
        /\ added' = [added EXCEPT ![k] = With(added[k], Matrix[k][n], o)]
        /\ scheduled' = [scheduled EXCEPT ![k] = scheduled[k] \ {n}]
  BY DEF AddResult, IsNext
<1>2. saved' = saved
  BY DEF AddResult
<1>3. DOMAIN scheduled = Kinds /\ DOMAIN added = Kinds
  BY DEF StoreInv, PerDesign
<1>4. \A j \in Kinds \ {k} : scheduled'[j] = scheduled[j] /\ added'[j] = added[j]
  BY <1>1, <1>3
<1>5. /\ scheduled'[k] = scheduled[k] \ {n}
      /\ DOMAIN added'[k] = DOMAIN added[k] \cup {Matrix[k][n]}
  BY <1>1, <1>3 DEF With
<1>. QED BY <1>2, <1>4, <1>5 DEF SliceInv, SavedStays

\* A slice is made of assignments without a result.
LEMMA ResumeSlice ==
  ASSUME StoreInv, SliceInv, NEW k \in Kinds, NEW limit, Resume(k, limit)
  PROVE  SliceInv' /\ SavedStays
<1>1. CASE Raise(k, "time_exceeded")
  BY <1>1, RaiseSlice
<1>2. CASE ~Raise(k, "time_exceeded")
  <2>1. /\ scheduled' = [scheduled EXCEPT ![k] = Schedule(k, limit)]
        /\ added' = [added EXCEPT ![k] = NoResults]
        /\ saved' = saved
    BY <1>2 DEF Resume
  <2>2. DOMAIN scheduled = Kinds /\ DOMAIN added = Kinds
    BY DEF StoreInv, PerDesign
  <2>3. \A j \in Kinds \ {k} : scheduled'[j] = scheduled[j] /\ added'[j] = added[j]
    BY <2>1, <2>2
  <2>4. scheduled'[k] = Schedule(k, limit) /\ DOMAIN added'[k] = {}
    BY <2>1, <2>2 DEF NoResults
  <2>5. \A n \in Schedule(k, limit) : Matrix[k][n] \notin DOMAIN saved[k]
    BY DEF Schedule, FirstOf
  <2>. QED BY <2>1, <2>3, <2>4, <2>5 DEF SliceInv, SavedStays
<1>. QED BY <1>1, <1>2

\* A file that is compared is accepted, or the call raises.
LEMMA CompareSlice ==
  ASSUME StoreInv, SliceInv, NEW k \in Kinds, NEW seconds, Compare(k, seconds)
  PROVE  SliceInv' /\ SavedStays
<1>1. PICK o, total : o = outcome[k] /\ total = spent[k] + seconds
  OBVIOUS
<1>2. AddResult(k, o, total) \/ Raise(k, "different_bytes")
  BY <1>1 DEF Compare
<1>. QED BY <1>2, AddResultSlice, RaiseSlice

\* Every step keeps to the slice, and takes no result from a client.
LEMMA StepSlice ==
  StoreInv /\ SliceInv /\ [Next]_vars => SliceInv' /\ SavedStays
<1>. SUFFICES ASSUME StoreInv, SliceInv, [Next]_vars PROVE SliceInv' /\ SavedStays
  OBVIOUS
<1>0. UNCHANGED <<saved, scheduled, added>> => SliceInv' /\ SavedStays
  BY DEF SliceInv, SavedStays
<1>1. CASE UNCHANGED vars
  BY <1>0, <1>1 DEF vars
<1>2. CASE Next
  <2>1. PICK k \in Kinds : \/ \E limit \in Slices : Resume(k, limit)
                           \/ RunStep(k) \/ ExecutorStep(k) \/ Crash(k)
    BY <1>2 DEF Next
  <2>2. CASE \E limit \in Slices : Resume(k, limit)
    BY <2>2, ResumeSlice
  <2>3. CASE RunStep(k)
    <3>1. CASE EndOfSlice(k) \/ Start(k)
      BY <1>0, <3>1, ReturnSlice DEF Start
    <3>2. ASSUME NEW seconds \in WriteTimes, Put(k, seconds) \/ Create(k, seconds)
          PROVE  SliceInv' /\ SavedStays
      BY <1>0, <3>2, CompareSlice DEF Put, Create, local
    <3>3. ASSUME NEW seconds \in WriteTimes, Write(k, seconds)
          PROVE  SliceInv' /\ SavedStays
      <4>1. PICK o, total : o = outcome[k] /\ total = spent[k] + seconds
        OBVIOUS
      <4>2. AddResult(k, o, total)
        BY <3>3, <4>1 DEF Write
      <4>. QED BY <4>2, AddResultSlice
    <3>. QED BY <2>3, <3>1, <3>2, <3>3 DEF RunStep
  <2>4. CASE ExecutorStep(k)
    <3>1. ASSUME NEW o \in Outcomes, Execute(k, o)
          PROVE  SliceInv' /\ SavedStays
      <4>1. PICK total : total = spent[k] + o.elapsed
        OBVIOUS
      <4>2. \/ AddResult(k, o, total) \/ Raise(k, "empty_result")
            \/ UNCHANGED <<saved, scheduled, added>>
        BY <3>1, <4>1 DEF Execute
      <4>. QED BY <1>0, <4>2, AddResultSlice, RaiseSlice
    <3>2. CASE DeclareModelCall(k)
      BY <3>2, RaiseSlice DEF DeclareModelCall
    <3>. QED BY <2>4, <3>1, <3>2 DEF ExecutorStep
  <2>5. CASE Crash(k)
    BY <2>5, RaiseSlice DEF Crash
  <2>. QED BY <2>1, <2>2, <2>3, <2>4, <2>5
<1>. QED BY <1>1, <1>2

-----------------------------------------------------------------------------
(* The theorems *)

\* Nothing is stored or kept at first.
LEMMA InitInv == Init => StoreInv
<1>. SUFFICES ASSUME Init PROVE StoreInv
  OBVIOUS
<1>1. PerDesign
  BY DEF Init, PerDesign
<1>2. OneWriter
  BY DEF Init, OneWriter
<1>3. \A k \in Kinds : DOMAIN saved[k] = {} /\ DOMAIN added[k] = {}
  BY DEF Init, NoResults
<1>. QED BY <1>1, <1>2, <1>3 DEF StoreInv

\* Every step keeps the invariant, and no step takes anything from the store.
LEMMA StepInv == StoreInv /\ [Next]_vars => StoreInv' /\ StoreGrows
<1>. SUFFICES ASSUME StoreInv, [Next]_vars PROVE StoreInv' /\ StoreGrows
  OBVIOUS
<1>1. CASE UNCHANGED vars
  <2>1. UNCHANGED <<store, saved, pc, scheduled, added, outcome>>
    BY <1>1 DEF vars
  <2>2. PerDesign' /\ OneWriter'
    BY <2>1 DEF StoreInv, PerDesign, OneWriter
  <2>. QED BY <2>1, <2>2 DEF StoreInv, StoreGrows
<1>2. CASE Next
  <2>1. PICK k \in Kinds : \/ \E limit \in Slices : Resume(k, limit)
                           \/ RunStep(k) \/ ExecutorStep(k) \/ Crash(k)
    BY <1>2 DEF Next
  <2>2. CASE \E limit \in Slices : Resume(k, limit)
    BY <2>2, ResumeInv
  <2>3. CASE RunStep(k)
    <3>1. CASE EndOfSlice(k)
      BY <3>1, ReturnInv
    <3>2. CASE Start(k)
      BY <3>2, StartInv
    <3>3. ASSUME NEW seconds \in WriteTimes, Put(k, seconds)
          PROVE  StoreInv' /\ StoreGrows
      BY <3>3, PutInv
    <3>4. ASSUME NEW seconds \in WriteTimes, Create(k, seconds)
          PROVE  StoreInv' /\ StoreGrows
      BY <3>4, CreateInv
    <3>5. ASSUME NEW seconds \in WriteTimes, Write(k, seconds)
          PROVE  StoreInv' /\ StoreGrows
      BY <3>5, WriteInv
    <3>. QED BY <2>3, <3>1, <3>2, <3>3, <3>4, <3>5 DEF RunStep
  <2>4. CASE ExecutorStep(k)
    <3>1. ASSUME NEW o \in Outcomes, Execute(k, o)
          PROVE  StoreInv' /\ StoreGrows
      BY <3>1, ExecuteInv
    <3>2. CASE DeclareModelCall(k)
      BY <3>2, RaiseInv DEF DeclareModelCall
    <3>. QED BY <2>4, <3>1, <3>2 DEF ExecutorStep
  <2>5. CASE Crash(k)
    BY <2>5, RaiseInv DEF Crash
  <2>. QED BY <2>1, <2>2, <2>3, <2>4, <2>5
<1>. QED BY <1>1, <1>2

\* No two evaluations ever write one file (open("xb"), runner.py:149-158).
THEOREM FilesHaveOneWriter == Spec => []OneWriter
<1>1. StoreInv => OneWriter
  BY DEF StoreInv
<1>. QED BY InitInv, StepInv, <1>1, PTL DEF Spec

\* Both invariants hold of every evaluation.
LEMMA SliceInductive == Spec => [](StoreInv /\ SliceInv)
<1>1. Init => SliceInv
  BY DEF Init, SliceInv, NoResults
<1>2. StoreInv /\ SliceInv /\ [Next]_vars => (StoreInv /\ SliceInv)'
  BY StepInv, StepSlice
<1>. QED BY InitInv, <1>1, <1>2, PTL DEF Spec

\* What a client has is executed once and can be verified, whatever slices, errors,
\* deaths and other evaluations lie in between (evaluation/runner.py:311, 326).
THEOREM ResultsAreSound == Spec => []ResultsSound
<1>1. StoreInv /\ SliceInv => ResultsSound
  BY DEF StoreInv, SliceInv, Verifiable, ResultsSound, NeverTwice, PointersResolve, IsNext
<1>. QED BY <1>1, SliceInductive, PTL

\* No step replaces a result that a client has, or touches a whole file
\* (runner.py:149-158, 399).
THEOREM NothingIsOverwritten == Spec => NothingOverwritten
<1>1. StoreInv /\ SliceInv /\ [Next]_vars =>
        [/\ \A k \in Kinds : \A id \in DOMAIN saved[k] :
              id \in DOMAIN saved'[k] /\ saved'[k][id] = saved[k][id]
         /\ \A p \in DOMAIN store :
              p \in DOMAIN store' /\ (store[p] = "whole" => store'[p] = "whole")]_vars
  BY StepInv, StepSlice DEF SavedStays, StoreGrows
<1>. QED BY <1>1, SliceInductive, PTL DEF Spec, NothingOverwritten
-----------------------------------------------------------------------------
(***************************************************************************)
(* What the budget counts.                                                 *)
(***************************************************************************)

\* The product of two lists is a list of as many pairs.
LEMMA CrossFacts ==
  ASSUME NEW s, NEW t, Len(s) \in Nat, Len(t) \in Nat
  PROVE  /\ Len(Cross(s, t)) = Len(s) * Len(t) /\ Len(Cross(s, t)) \in Nat
         /\ DOMAIN Cross(s, t) = 1..Len(Cross(s, t))
<1>. DEFINE n == Len(s) * Len(t)
            e(i) == <<s[((i - 1) \div Len(t)) + 1], t[((i - 1) % Len(t)) + 1]>>
<1>1. n \in Nat
  OBVIOUS
<1>2. Cross(s, t) = [i \in 1..n |-> e(i)]
  BY DEF Cross
<1>. HIDE DEF n, e
<1>3. Len([i \in 1..n |-> e(i)]) = n
  BY <1>1
<1>. QED BY <1>1, <1>2, <1>3 DEF n

\* The matrix of a design is a finite list of assignments.
LEMMA MatrixFacts ==
  ASSUME NEW k \in Kinds
  PROVE  /\ Len(Matrix[k]) \in Nat
         /\ DOMAIN Matrix[k] = 1..Len(Matrix[k])
         /\ \A n, m \in DOMAIN Matrix[k] : Matrix[k][n] = Matrix[k][m] => n = m
         /\ RunIds[k] = {Matrix[k][n] : n \in DOMAIN Matrix[k]}
<1>. DEFINE d == Designs[k]
<1>1. \A piece \in {"formations", "interventions", "families", "seeds"} : d[piece] \in Seq(Range(d[piece]))
  BY EvaluationAssumption
<1>2. /\ Len(d.formations) \in Nat /\ Len(d.interventions) \in Nat
      /\ Len(d.families) \in Nat /\ Len(d.seeds) \in Nat
  <2>1. \A S, q : q \in Seq(S) => Len(q) \in Nat
    OBVIOUS
  <2>2. /\ d.formations \in Seq(Range(d.formations)) /\ d.interventions \in Seq(Range(d.interventions))
        /\ d.families \in Seq(Range(d.families)) /\ d.seeds \in Seq(Range(d.seeds))
    BY <1>1
  <2>. QED BY <2>1, <2>2
<1>3. Matrix[k] = Cross(Cross(Cross(d.formations, d.interventions), d.families), d.seeds)
  BY DEF Matrix
<1>. HIDE DEF d
<1>4. Len(Cross(d.formations, d.interventions)) \in Nat
  BY <1>2, CrossFacts
<1>5. Len(Cross(Cross(d.formations, d.interventions), d.families)) \in Nat
  BY <1>2, <1>4, CrossFacts
<1>6. Len(Matrix[k]) \in Nat /\ DOMAIN Matrix[k] = 1..Len(Matrix[k])
  BY <1>2, <1>3, <1>5, CrossFacts
<1>7. \A n, m \in DOMAIN Matrix[k] : Matrix[k][n] = Matrix[k][m] => n = m
  BY MatrixAssumption DEF IsInjective
<1>8. RunIds[k] = {Matrix[k][n] : n \in DOMAIN Matrix[k]}
  BY DEF RunIds, Range
<1>. QED BY <1>6, <1>7, <1>8

\* There are no more run ids than assignments, and fewer when one has no result yet.
LEMMA Room ==
  ASSUME NEW k \in Kinds, NEW S \in SUBSET RunIds[k]
  PROVE  /\ IsFiniteSet(S) /\ Cardinality(S) \in Nat
         /\ \A n \in DOMAIN Matrix[k] : Matrix[k][n] \notin S => Cardinality(S) < Len(Matrix[k])
<1>. DEFINE N == DOMAIN Matrix[k]
<1>1. Len(Matrix[k]) \in Nat /\ N = 1..Len(Matrix[k]) /\ RunIds[k] = {Matrix[k][n] : n \in N}
  BY MatrixFacts
<1>2. IsFiniteSet(N) /\ Cardinality(N) = Len(Matrix[k])
  <2>1. 1 \in Int /\ Len(Matrix[k]) \in Int
    BY <1>1
  <2>. QED BY <1>1, <2>1, FS_Interval
<1>3. IsFiniteSet(RunIds[k]) /\ Cardinality(RunIds[k]) <= Len(Matrix[k])
  <2>1. PICK f : f = [n \in N |-> Matrix[k][n]]
    OBVIOUS
  <2>2. f \in Surjection(N, RunIds[k])
    BY <1>1, <2>1 DEF Surjection
  <2>. QED BY <1>2, <2>2, FS_Surjection
<1>4. IsFiniteSet(S) /\ Cardinality(S) \in Nat
  BY <1>3, FS_Subset, FS_CardinalityType
<1>5. ASSUME NEW n \in N, Matrix[k][n] \notin S
      PROVE  Cardinality(S) < Len(Matrix[k])
  <2>1. Matrix[k][n] \in RunIds[k]
    BY <1>1
  <2>2. S # RunIds[k]
    BY <1>5, <2>1
  <2>3. /\ Cardinality(S) <= Cardinality(RunIds[k])
        /\ Cardinality(RunIds[k]) = Cardinality(S) => S = RunIds[k]
    BY <1>3, FS_Subset
  <2>4. Cardinality(RunIds[k]) \in Nat
    BY <1>3, FS_CardinalityType
  <2>. QED BY <1>1, <1>3, <1>4, <2>2, <2>3, <2>4
<1>. QED BY <1>4, <1>5

\* The times of results.
ElapsedOf(results) == [id \in DOMAIN results |-> results[id].elapsed]

\* Without a result no time was spent.
LEMMA ElapsedOfNone ==
  ASSUME NEW results, DOMAIN results = {}
  PROVE  Elapsed(results) = 0
BY SumOfNone DEF Elapsed, SumFunction

\* The times of finitely many results add up to an integer.
LEMMA ElapsedType ==
  ASSUME NEW results, IsFiniteSet(DOMAIN results),
         \A id \in DOMAIN results : results[id].elapsed \in Int
  PROVE  Elapsed(results) \in Int
<1>1. \A id \in DOMAIN results : ElapsedOf(results)[id] \in Int
  BY DEF ElapsedOf
<1>2. Elapsed(results) = SumFunctionOnSet(ElapsedOf(results), DOMAIN results)
  BY DEF Elapsed, SumFunction, ElapsedOf
<1>. QED BY <1>1, <1>2, SumType

\* One more result adds its time.
LEMMA ElapsedAdd ==
  ASSUME NEW results, NEW key, NEW o, NEW more,
         IsFiniteSet(DOMAIN results), key \notin DOMAIN results, o.elapsed \in Int,
         \A id \in DOMAIN results : results[id].elapsed \in Int,
         more = With(results, key, o)
  PROVE  Elapsed(more) = Elapsed(results) + o.elapsed
<1>1. DOMAIN more = DOMAIN results \cup {key}
  BY DEF With
<1>2. PICK f, g : f = ElapsedOf(more) /\ g = ElapsedOf(results)
  OBVIOUS
<1>3. f[key] = o.elapsed /\ \A id \in DOMAIN results : f[id] = g[id] /\ g[id] \in Int
  BY <1>1, <1>2 DEF With, ElapsedOf
<1>4. SumFunctionOnSet(f, DOMAIN results \cup {key}) = SumFunctionOnSet(f, DOMAIN results) + f[key]
  BY <1>3, SumAdd
<1>5. SumFunctionOnSet(f, DOMAIN results) = SumFunctionOnSet(g, DOMAIN results)
  BY <1>3, SumSame
<1>6. Elapsed(more) = SumFunctionOnSet(f, DOMAIN more) /\ Elapsed(results) = SumFunctionOnSet(g, DOMAIN results)
  BY <1>2 DEF Elapsed, SumFunction, ElapsedOf
<1>. QED BY <1>1, <1>3, <1>4, <1>5, <1>6
\* What one evaluation is about: its client's results and its call.
View(k) ==
  [place |-> pc[k], scheduled |-> scheduled[k], saved |-> saved[k], added |-> added[k],
   started |-> started[k], spent |-> spent[k], took |-> outcome[k].elapsed,
   exhausted |-> exhausted[k], last |-> last[k]]

\* Prior results and those of the slice.
Joined(c) ==
  [id \in DOMAIN c.added \cup DOMAIN c.saved |->
     IF id \in DOMAIN c.added THEN c.added[id] ELSE c.saved[id]]

\* The assignments of an evaluation and the times of its results.
WellFormed(k, c) ==
  /\ c.scheduled \subseteq DOMAIN Matrix[k]
  /\ DOMAIN c.saved \subseteq RunIds[k] /\ DOMAIN c.added \subseteq RunIds[k]
  /\ \A id \in DOMAIN c.saved : c.saved[id].elapsed \in Nat
  /\ \A id \in DOMAIN c.added : c.added[id].elapsed \in Nat
  /\ c.spent \in Int /\ c.started \in Int /\ c.took \in Nat
  /\ DOMAIN c.added \cap DOMAIN c.saved = {}
  /\ \A n \in c.scheduled : Matrix[k][n] \notin DOMAIN c.added \cup DOMAIN c.saved

Held(c) == Cardinality(DOMAIN c.saved) + Cardinality(DOMAIN c.added)

\* The account of a call: what it started are its results and the trajectory under way;
\* what it spent covers the times of its results; while a trajectory is under way, the
\* time was not up when it started.
Account(c) ==
  /\ c.place = "idle" => ~ c.exhausted
  /\ c.place = "next" => /\ c.started = Held(c)
                         /\ Elapsed(Joined(c)) <= c.spent
                         /\ c.exhausted => OverTime(c.spent) \/ ClaimedOver(c.added)
  /\ c.place = "execute" => /\ c.started = Held(c) + 1
                            /\ Elapsed(Joined(c)) <= c.spent
                            /\ ~ OverTime(c.spent)
  /\ c.place \in {"put", "create", "write"} => /\ c.started = Held(c) + 1
                                               /\ Elapsed(Joined(c)) + c.took <= c.spent
                                               /\ Elapsed(Joined(c)) < MaxSeconds

\* What the last call said is true while its client has nothing else.
Verdict(k, c) ==
  c.last = "budget_exhausted" /\ c.place = "idle" =>
    DOMAIN c.saved # RunIds[k] /\ (OverTime(c.spent) \/ ClaimedOver(c.saved))

Honest(k, c) ==
  /\ WellFormed(k, c)
  /\ Bounded(c.saved) /\ Bounded(Joined(c))
  /\ Account(c)
  /\ Verdict(k, c)

\* Everything is kept per design, the account as well.
AccountPerDesign ==
  DOMAIN started = Kinds /\ DOMAIN spent = Kinds /\ DOMAIN exhausted = Kinds /\ DOMAIN last = Kinds

HonestInv ==
  /\ AccountPerDesign
  /\ \A k \in Kinds : Honest(k, View(k))

\* What has results is finite, and its times add up.
LEMMA WellFormedFacts ==
  ASSUME NEW k \in Kinds, NEW c, WellFormed(k, c)
  PROVE  /\ IsFiniteSet(DOMAIN c.saved) /\ IsFiniteSet(DOMAIN c.added) /\ IsFiniteSet(DOMAIN Joined(c))
         /\ Cardinality(DOMAIN c.saved) \in Nat /\ Cardinality(DOMAIN c.added) \in Nat
         /\ DOMAIN Joined(c) = DOMAIN c.added \cup DOMAIN c.saved
         /\ DOMAIN Joined(c) \in SUBSET RunIds[k]
         /\ Cardinality(DOMAIN Joined(c)) = Held(c)
         /\ \A id \in DOMAIN Joined(c) : Joined(c)[id].elapsed \in Nat
         /\ Elapsed(c.saved) \in Int /\ Elapsed(Joined(c)) \in Int
<1>1. /\ DOMAIN Joined(c) = DOMAIN c.added \cup DOMAIN c.saved
      /\ \A id \in DOMAIN c.added : Joined(c)[id] = c.added[id]
      /\ \A id \in DOMAIN c.saved : Joined(c)[id] = c.saved[id]
  BY DEF Joined, WellFormed
<1>2. DOMAIN c.saved \in SUBSET RunIds[k] /\ DOMAIN c.added \in SUBSET RunIds[k]
  BY DEF WellFormed
<1>3. DOMAIN Joined(c) \in SUBSET RunIds[k]
  BY <1>1, <1>2
<1>4. /\ IsFiniteSet(DOMAIN c.saved) /\ IsFiniteSet(DOMAIN c.added) /\ IsFiniteSet(DOMAIN Joined(c))
      /\ Cardinality(DOMAIN c.saved) \in Nat /\ Cardinality(DOMAIN c.added) \in Nat
  BY <1>2, <1>3, Room
<1>5. \A id \in DOMAIN Joined(c) : Joined(c)[id].elapsed \in Nat
  BY <1>1 DEF WellFormed
<1>6. \A id \in DOMAIN c.saved : c.saved[id].elapsed \in Nat
  BY DEF WellFormed
<1>7. Cardinality(DOMAIN Joined(c)) = Held(c)
  <2>1. PICK A, D : A = DOMAIN c.added /\ D = DOMAIN c.saved
    OBVIOUS
  <2>2. A \cap D = {} /\ IsFiniteSet(A) /\ IsFiniteSet(D)
    BY <1>4, <2>1 DEF WellFormed
  <2>3. Cardinality(A \cup D) = Cardinality(A) + Cardinality(D) - Cardinality(A \cap D)
    BY <2>2, FS_Union
  <2>4. Cardinality(A) \in Nat /\ Cardinality(D) \in Nat /\ Cardinality(A \cap D) = 0
    BY <2>2, FS_CardinalityType, FS_EmptySet
  <2>5. Cardinality(A \cup D) = Cardinality(D) + Cardinality(A)
    BY <2>3, <2>4
  <2>. QED BY <1>1, <2>1, <2>5 DEF Held
<1>8. Elapsed(c.saved) \in Int /\ Elapsed(Joined(c)) \in Int
  BY <1>4, <1>5, <1>6, ElapsedType
<1>. QED BY <1>1, <1>3, <1>4, <1>5, <1>7, <1>8

\* A result that joins a slice is one more, and keeps the whole bounded.
LEMMA JoinedAdd ==
  ASSUME NEW k \in Kinds, NEW c, NEW d, NEW n, NEW o, WellFormed(k, c), n \in c.scheduled,
         o.elapsed \in Nat, d.saved = c.saved, d.added = With(c.added, Matrix[k][n], o),
         d.scheduled = c.scheduled \ {n}, d.spent \in Int, d.started \in Int, d.took \in Nat
  PROVE  /\ WellFormed(k, d)
         /\ Held(d) = Held(c) + 1
         /\ Elapsed(Joined(d)) = Elapsed(Joined(c)) + o.elapsed
         /\ Elapsed(Joined(c)) < MaxSeconds => Bounded(Joined(d))
<1>. DEFINE id == Matrix[k][n]
<1>1. id \in RunIds[k] /\ id \notin DOMAIN c.added \cup DOMAIN c.saved /\ n \in DOMAIN Matrix[k]
  BY MatrixFacts DEF WellFormed
<1>2. /\ DOMAIN d.added = DOMAIN c.added \cup {id}
      /\ d.added[id] = o
      /\ \A i \in DOMAIN c.added : d.added[i] = c.added[i]
  BY <1>1 DEF With
<1>3. \A m \in d.scheduled : Matrix[k][m] # id
  BY <1>1, MatrixFacts DEF WellFormed
<1>. HIDE DEF id
<1>4. WellFormed(k, d)
  BY <1>1, <1>2, <1>3 DEF WellFormed
<1>5. Joined(d) = With(Joined(c), id, o)
  BY <1>1, <1>2 DEF Joined, With
<1>6. Elapsed(Joined(d)) = Elapsed(Joined(c)) + o.elapsed
  <2>0. \A i \in DOMAIN Joined(c) : Joined(c)[i].elapsed \in Nat
    BY WellFormedFacts
  <2>1. \A i \in DOMAIN Joined(c) : Joined(c)[i].elapsed \in Int
    BY <2>0
  <2>2. id \notin DOMAIN Joined(c) /\ IsFiniteSet(DOMAIN Joined(c))
    BY <1>1, WellFormedFacts
  <2>. QED BY <1>5, <2>1, <2>2, ElapsedAdd
<1>7. Held(d) = Held(c) + 1
  <2>1. Cardinality(DOMAIN c.added \cup {id}) = Cardinality(DOMAIN c.added) + 1
    BY <1>1, WellFormedFacts, FS_AddElement
  <2>2. Cardinality(DOMAIN c.saved) \in Nat /\ Cardinality(DOMAIN c.added) \in Nat
    BY WellFormedFacts
  <2>3. Cardinality(DOMAIN d.added) = Cardinality(DOMAIN c.added) + 1 /\ d.saved = c.saved
    BY <1>2, <2>1
  <2>. QED BY <2>2, <2>3 DEF Held
<1>8. ASSUME Elapsed(Joined(c)) < MaxSeconds
      PROVE  Bounded(Joined(d))
  <2>1. id \in DOMAIN Joined(d) /\ Joined(d)[id] = o
    BY <1>5 DEF With
  <2>2. Elapsed(Joined(c)) \in Int
    BY WellFormedFacts
  <2>3. Elapsed(Joined(d)) - o.elapsed < MaxSeconds
    BY <1>6, <1>8, <2>2
  <2>. QED BY <2>1, <2>3 DEF Bounded
<1>. QED BY <1>4, <1>6, <1>7, <1>8
-----------------------------------------------------------------------------
(* What the steps of a call do to its account *)

\* Only which results there are counts.
LEMMA SameResults ==
  ASSUME NEW a, NEW b, DOMAIN a = DOMAIN b, \A id \in DOMAIN b : a[id] = b[id]
  PROVE  Elapsed(a) = Elapsed(b) /\ (Bounded(b) => Bounded(a))
<1>1. [id \in DOMAIN a |-> a[id].elapsed] = [id \in DOMAIN b |-> b[id].elapsed]
  OBVIOUS
<1>2. Elapsed(a) = Elapsed(b)
  BY <1>1 DEF Elapsed
<1>. QED BY <1>2 DEF Bounded

\* Without a slice there are the prior results.
LEMMA JoinedOfNone ==
  ASSUME NEW d, DOMAIN d.added = {}
  PROVE  /\ DOMAIN Joined(d) = DOMAIN d.saved
         /\ \A id \in DOMAIN d.saved : Joined(d)[id] = d.saved[id]
         /\ Elapsed(Joined(d)) = Elapsed(d.saved)
         /\ Bounded(d.saved) => Bounded(Joined(d))
<1>1. /\ DOMAIN Joined(d) = DOMAIN d.saved
      /\ \A id \in DOMAIN d.saved : Joined(d)[id] = d.saved[id]
  BY DEF Joined
<1>. QED BY <1>1, SameResults

\* Forgetting a slice.
LEMMA RaiseHonest ==
  ASSUME NEW k \in Kinds, NEW c, NEW d, Honest(k, c),
         d.place = "idle", d.scheduled = {}, DOMAIN d.added = {}, d.saved = c.saved,
         d.started = 0, d.spent = c.spent, d.took = 0, ~ d.exhausted, d.last # "budget_exhausted"
  PROVE  Honest(k, d)
<1>1. WellFormed(k, d) /\ Bounded(d.saved)
  BY DEF Honest, WellFormed
<1>2. Bounded(Joined(d))
  BY <1>1, JoinedOfNone
<1>3. Account(d) /\ Verdict(k, d)
  BY DEF Account, Verdict
<1>. QED BY <1>1, <1>2, <1>3 DEF Honest

\* A call starts with the count and the time of the results that its client has.
LEMMA ResumeHonest ==
  ASSUME NEW k \in Kinds, NEW c, NEW d, Honest(k, c),
         c.place = "idle", d.place = "next", DOMAIN d.added = {}, d.saved = c.saved,
         d.scheduled \subseteq {n \in DOMAIN Matrix[k] : Matrix[k][n] \notin DOMAIN c.saved},
         d.started = Cardinality(DOMAIN c.saved), d.spent = Elapsed(c.saved),
         d.took = c.took, d.exhausted = c.exhausted
  PROVE  Honest(k, d)
<1>1. WellFormed(k, c) /\ Bounded(d.saved) /\ ~ c.exhausted
  BY DEF Honest, Account
<1>2. d.started \in Nat /\ d.spent \in Int
  BY <1>1, WellFormedFacts
<1>3. WellFormed(k, d)
  BY <1>1, <1>2 DEF WellFormed
<1>4. Bounded(Joined(d)) /\ Elapsed(Joined(d)) = d.spent
  BY <1>1, JoinedOfNone
<1>5. d.started = Held(d)
  <2>1. Cardinality(DOMAIN d.added) = 0
    BY FS_EmptySet
  <2>. QED BY <1>2, <2>1 DEF Held
<1>6. Account(d)
  <2>1. ~ d.exhausted
    BY <1>1
  <2>. QED BY <1>2, <1>4, <1>5, <2>1 DEF Account
<1>7. Verdict(k, d)
  BY DEF Verdict
<1>. QED BY <1>1, <1>3, <1>4, <1>6, <1>7 DEF Honest

\* A slice ends early only because the time is up: there is always room for another start.
LEMMA ReturnHonest ==
  ASSUME NEW k \in Kinds, NEW c, NEW d, Honest(k, c), c.place = "next",
         c.scheduled = {} \/ c.exhausted \/ OverTime(c.spent) \/ ~ (c.started < Len(Matrix[k])),
         d.place = "idle", d.scheduled = {}, DOMAIN d.added = {}, d.saved = Joined(c),
         d.started = 0, d.spent = c.spent, d.took = 0, ~ d.exhausted,
         d.last = Status(k, Joined(c), c.exhausted \/ c.scheduled # {})
  PROVE  Honest(k, d)
<1>1. WellFormed(k, c) /\ Bounded(d.saved)
  BY DEF Honest
<1>2. /\ DOMAIN d.saved \in SUBSET RunIds[k]
      /\ \A id \in DOMAIN d.saved : d.saved[id].elapsed \in Nat
      /\ Cardinality(DOMAIN Joined(c)) = Held(c)
  BY <1>1, WellFormedFacts
<1>3. WellFormed(k, d)
  BY <1>1, <1>2 DEF WellFormed
<1>4. Bounded(Joined(d))
  BY <1>1, JoinedOfNone
<1>5. Account(d)
  BY DEF Account
<1>6. ASSUME d.last = "budget_exhausted"
      PROVE  DOMAIN d.saved # RunIds[k] /\ (OverTime(d.spent) \/ ClaimedOver(d.saved))
  <2>1. DOMAIN d.saved # RunIds[k] /\ (c.exhausted \/ c.scheduled # {})
    BY <1>6 DEF Status
  <2>2. CASE c.exhausted
    <3>1. ClaimedOver(c.added) => ClaimedOver(d.saved)
      BY DEF ClaimedOver, Joined
    <3>. QED BY <2>1, <2>2, <3>1 DEF Honest, Account
  <2>3. CASE c.scheduled # {} /\ ~ c.exhausted
    <3>1. PICK n \in c.scheduled : TRUE
      BY <2>3
    <3>2. n \in DOMAIN Matrix[k] /\ Matrix[k][n] \notin DOMAIN Joined(c)
      BY <1>1, WellFormedFacts DEF WellFormed
    <3>3. Cardinality(DOMAIN Joined(c)) < Len(Matrix[k])
      BY <1>2, <3>2, Room
    <3>4. c.started = Cardinality(DOMAIN Joined(c))
      BY <1>2 DEF Honest, Account
    <3>5. c.started < Len(Matrix[k])
      BY <3>3, <3>4
    <3>. QED BY <2>1, <2>3, <3>5
  <2>. QED BY <2>1, <2>2, <2>3
<1>. QED BY <1>1, <1>3, <1>4, <1>5, <1>6 DEF Honest, Verdict

\* A trajectory starts in time.
LEMMA StartHonest ==
  ASSUME NEW k \in Kinds, NEW c, NEW d, Honest(k, c), c.place = "next", ~ OverTime(c.spent),
         d.place = "execute", d.scheduled = c.scheduled, d.added = c.added, d.saved = c.saved,
         d.started = c.started + 1, d.spent = c.spent, d.took = c.took
  PROVE  Honest(k, d)
<1>1. WellFormed(k, d)
  BY DEF Honest, WellFormed
<1>2. Joined(d) = Joined(c) /\ Held(d) = Held(c)
  BY DEF Joined, Held
<1>3. Account(d) /\ Verdict(k, d)
  BY <1>2 DEF Honest, Account, Verdict
<1>. QED BY <1>1, <1>2, <1>3 DEF Honest

\* It returns a payload.
LEMMA ExecuteHonest ==
  ASSUME NEW k \in Kinds, NEW c, NEW d, Honest(k, c), c.place = "execute",
         d.place = "put", d.scheduled = c.scheduled, d.added = c.added, d.saved = c.saved,
         d.started = c.started, d.took \in Nat, d.spent = c.spent + d.took
  PROVE  Honest(k, d)
<1>1. WellFormed(k, d)
  BY DEF Honest, WellFormed
<1>2. Joined(d) = Joined(c) /\ Held(d) = Held(c)
  BY DEF Joined, Held
<1>3. Elapsed(Joined(c)) \in Int /\ c.spent \in Int /\ MaxSeconds \in Nat
  BY WellFormedFacts, EvaluationAssumption DEF Honest, WellFormed
<1>4. Elapsed(Joined(c)) <= c.spent /\ c.started = Held(c) + 1 /\ ~ (c.spent >= MaxSeconds)
  BY DEF Honest, Account, OverTime
<1>5. Elapsed(Joined(c)) + d.took <= d.spent /\ Elapsed(Joined(c)) < MaxSeconds
  BY <1>3, <1>4
<1>6. Account(d) /\ Verdict(k, d)
  BY <1>2, <1>4, <1>5 DEF Account, Verdict
<1>. QED BY <1>1, <1>2, <1>6 DEF Honest

\* It is on its way to the store.
LEMMA StoringHonest ==
  ASSUME NEW k \in Kinds, NEW c, NEW d, Honest(k, c), c.place \in {"put", "create", "write"},
         d.place \in {"put", "create", "write"}, d.scheduled = c.scheduled, d.added = c.added,
         d.saved = c.saved, d.started = c.started, d.took = c.took, d.spent = c.spent
  PROVE  Honest(k, d)
<1>1. WellFormed(k, d)
  BY DEF Honest, WellFormed
<1>2. Joined(d) = Joined(c) /\ Held(d) = Held(c)
  BY DEF Joined, Held
<1>3. Account(d) /\ Verdict(k, d)
  BY <1>2 DEF Honest, Account, Verdict
<1>. QED BY <1>1, <1>2, <1>3 DEF Honest

\* Its result joins the slice.
LEMMA AddHonest ==
  ASSUME NEW k \in Kinds, NEW c, NEW d, NEW n, NEW o, Honest(k, c), n \in c.scheduled,
         c.place \in {"execute", "put", "create", "write"}, o.elapsed \in Nat, d.spent \in Int,
         c.place = "execute" => c.spent + o.elapsed <= d.spent,
         c.place # "execute" => o.elapsed = c.took /\ c.spent <= d.spent,
         d.place = "next", d.saved = c.saved, d.added = With(c.added, Matrix[k][n], o),
         d.scheduled = c.scheduled \ {n}, d.started = c.started, d.took = 0,
         d.exhausted => OverTime(d.spent) \/ ClaimedOver(d.added)
  PROVE  Honest(k, d)
<1>1. WellFormed(k, c) /\ c.spent \in Int /\ c.started \in Int
  BY DEF Honest, WellFormed
<1>2. Elapsed(Joined(c)) \in Int /\ MaxSeconds \in Nat
  BY <1>1, WellFormedFacts, EvaluationAssumption
<1>3. /\ WellFormed(k, d)
      /\ Held(d) = Held(c) + 1
      /\ Elapsed(Joined(d)) = Elapsed(Joined(c)) + o.elapsed
      /\ Elapsed(Joined(c)) < MaxSeconds => Bounded(Joined(d))
  <2>1. d.spent \in Int /\ d.started \in Int /\ d.took \in Nat
    BY <1>1
  <2>. QED BY <1>1, <2>1, JoinedAdd
<1>4. c.started = Held(c) + 1
  BY DEF Honest, Account
<1>5. Elapsed(Joined(c)) < MaxSeconds /\ Elapsed(Joined(c)) + o.elapsed <= d.spent
  <2>1. CASE c.place = "execute"
    <3>1. Elapsed(Joined(c)) <= c.spent /\ ~ (c.spent >= MaxSeconds)
      BY <2>1 DEF Honest, Account, OverTime
    <3>. QED BY <1>1, <1>2, <2>1, <3>1
  <2>2. CASE c.place # "execute"
    <3>1. Elapsed(Joined(c)) + c.took <= c.spent /\ Elapsed(Joined(c)) < MaxSeconds
      BY <2>2 DEF Honest, Account
    <3>. QED BY <1>1, <1>2, <2>2, <3>1
  <2>. QED BY <2>1, <2>2
<1>6. Account(d)
  BY <1>3, <1>4, <1>5 DEF Account
<1>7. Verdict(k, d) /\ Bounded(d.saved)
  BY DEF Verdict, Honest
<1>. QED BY <1>3, <1>5, <1>6, <1>7 DEF Honest
-----------------------------------------------------------------------------
(* The steps keep every account honest *)

\* One evaluation moves, and its account stays honest.
Moves(k) ==
  /\ AccountPerDesign'
  /\ \A j \in Kinds \ {k} : View(j)' = View(j)
  /\ Honest(k, View(k)')

\* Then all accounts are.
LEMMA MovesKeep ==
  ASSUME HonestInv, NEW k \in Kinds, Moves(k)
  PROVE  HonestInv'
<1>1. ASSUME NEW j \in Kinds
      PROVE  Honest(j, View(j)')
  BY DEF HonestInv, Moves
<1>2. \A j \in Kinds : Honest(j, View(j))'
  BY <1>1
<1>. QED BY <1>2 DEF HonestInv, Moves

\* A call raises.
LEMMA RaiseMoves ==
  ASSUME StoreInv, HonestInv, NEW k \in Kinds, NEW why, why # "budget_exhausted", Raise(k, why)
  PROVE  Moves(k)
<1>1. /\ DOMAIN saved = Kinds /\ DOMAIN pc = Kinds /\ DOMAIN scheduled = Kinds
      /\ DOMAIN added = Kinds /\ DOMAIN outcome = Kinds
      /\ DOMAIN started = Kinds /\ DOMAIN spent = Kinds /\ DOMAIN exhausted = Kinds /\ DOMAIN last = Kinds
  BY DEF StoreInv, PerDesign, HonestInv, AccountPerDesign
<1>2. /\ scheduled' = [scheduled EXCEPT ![k] = {}]
      /\ added' = [added EXCEPT ![k] = NoResults]
      /\ started' = [started EXCEPT ![k] = 0]
      /\ outcome' = [outcome EXCEPT ![k] = NoOutcome]
      /\ exhausted' = [exhausted EXCEPT ![k] = FALSE]
      /\ pc' = [pc EXCEPT ![k] = "idle"]
      /\ last' = [last EXCEPT ![k] = why]
      /\ saved' = saved /\ spent' = spent
  BY DEF Raise, Forget
<1>3. AccountPerDesign'
  BY <1>1, <1>2 DEF AccountPerDesign
<1>4. \A j \in Kinds \ {k} : View(j)' = View(j)
  BY <1>1, <1>2 DEF View
<1>5. PICK c, d : c = View(k) /\ d = View(k)'
  OBVIOUS
<1>6. /\ d.place = "idle" /\ d.scheduled = {} /\ DOMAIN d.added = {} /\ d.saved = c.saved
      /\ d.started = 0 /\ d.spent = c.spent /\ d.took = 0 /\ d.last = why
  BY <1>1, <1>2, <1>5 DEF View, NoResults, NoOutcome
<1>7. ~ d.exhausted
  <2>1. ~ exhausted'[k]
    BY <1>1, <1>2, Zenon
  <2>2. d.exhausted = exhausted'[k]
    BY <1>5 DEF View
  <2>. QED BY <2>1, <2>2, Zenon
<1>8. Honest(k, c)
  BY <1>5 DEF HonestInv
<1>9. Honest(k, d)
  BY <1>6, <1>7, <1>8, RaiseHonest
<1>. QED BY <1>3, <1>4, <1>5, <1>9 DEF Moves

\* A call returns.
LEMMA ReturnMoves ==
  ASSUME StoreInv, HonestInv, NEW k \in Kinds, EndOfSlice(k)
  PROVE  Moves(k)
<1>1. /\ DOMAIN saved = Kinds /\ DOMAIN pc = Kinds /\ DOMAIN scheduled = Kinds
      /\ DOMAIN added = Kinds /\ DOMAIN outcome = Kinds
      /\ DOMAIN started = Kinds /\ DOMAIN spent = Kinds /\ DOMAIN exhausted = Kinds /\ DOMAIN last = Kinds
  BY DEF StoreInv, PerDesign, HonestInv, AccountPerDesign
<1>2. /\ scheduled' = [scheduled EXCEPT ![k] = {}]
      /\ added' = [added EXCEPT ![k] = NoResults]
      /\ started' = [started EXCEPT ![k] = 0]
      /\ outcome' = [outcome EXCEPT ![k] = NoOutcome]
      /\ exhausted' = [exhausted EXCEPT ![k] = FALSE]
      /\ pc' = [pc EXCEPT ![k] = "idle"]
      /\ last' = [last EXCEPT ![k] = Status(k, Combined(k), exhausted[k] \/ scheduled[k] # {})]
      /\ saved' = [saved EXCEPT ![k] = Combined(k)]
      /\ spent' = spent
  BY DEF EndOfSlice, Return, Forget
<1>3. AccountPerDesign'
  BY <1>1, <1>2 DEF AccountPerDesign
<1>4. \A j \in Kinds \ {k} : View(j)' = View(j)
  BY <1>1, <1>2 DEF View
<1>5. PICK c, d : c = View(k) /\ d = View(k)'
  OBVIOUS
<1>6. Combined(k) = Joined(c)
  BY <1>5 DEF View, Joined, Combined
<1>7. /\ d.place = "idle" /\ d.scheduled = {} /\ DOMAIN d.added = {} /\ d.saved = Joined(c)
      /\ d.started = 0 /\ d.spent = c.spent /\ d.took = 0
  BY <1>1, <1>2, <1>5, <1>6 DEF View, NoResults, NoOutcome
<1>8. ~ d.exhausted
  <2>1. ~ exhausted'[k]
    BY <1>1, <1>2, Zenon
  <2>2. d.exhausted = exhausted'[k]
    BY <1>5 DEF View
  <2>. QED BY <2>1, <2>2, Zenon
<1>9. d.last = Status(k, Joined(c), c.exhausted \/ c.scheduled # {})
  <2>1. last'[k] = Status(k, Combined(k), exhausted[k] \/ scheduled[k] # {})
    BY <1>1, <1>2
  <2>2. d.last = last'[k] /\ c.exhausted = exhausted[k] /\ c.scheduled = scheduled[k]
    BY <1>5 DEF View
  <2>. QED BY <1>6, <2>1, <2>2
<1>10. c.place = "next"
       /\ (c.scheduled = {} \/ c.exhausted \/ OverTime(c.spent) \/ ~ (c.started < Len(Matrix[k])))
  BY <1>5 DEF EndOfSlice, BudgetLeft, View
<1>11. Honest(k, c)
  BY <1>5 DEF HonestInv
<1>12. Honest(k, d)
  BY <1>7, <1>8, <1>9, <1>10, <1>11, ReturnHonest
<1>. QED BY <1>3, <1>4, <1>5, <1>12 DEF Moves

\* A result joins the slice: of a trajectory without payload, or of one that is stored.
LEMMA AddMoves ==
  ASSUME StoreInv, HonestInv, NEW k \in Kinds, NEW o, NEW seconds,
         AddResult(k, o, seconds),
         pc[k] \in {"execute", "put", "create", "write"}, o.elapsed \in Nat, seconds \in Int,
         pc[k] = "execute" => spent[k] + o.elapsed <= seconds,
         pc[k] # "execute" => o.elapsed = outcome[k].elapsed /\ spent[k] <= seconds
  PROVE  Moves(k)
<1>1. /\ DOMAIN saved = Kinds /\ DOMAIN pc = Kinds /\ DOMAIN scheduled = Kinds
      /\ DOMAIN added = Kinds /\ DOMAIN outcome = Kinds
      /\ DOMAIN started = Kinds /\ DOMAIN spent = Kinds /\ DOMAIN exhausted = Kinds /\ DOMAIN last = Kinds
  BY DEF StoreInv, PerDesign, HonestInv, AccountPerDesign
<1>2. PICK n \in scheduled[k] :
        /\ added' = [added EXCEPT ![k] = With(added[k], Matrix[k][n], o)]
        /\ scheduled' = [scheduled EXCEPT ![k] = scheduled[k] \ {n}]
  BY DEF AddResult, IsNext
<1>3. /\ spent' = [spent EXCEPT ![k] = seconds]
      /\ outcome' = [outcome EXCEPT ![k] = NoOutcome]
      /\ exhausted' = [exhausted EXCEPT ![k] = o.status = "over_budget" \/ OverTime(seconds)]
      /\ pc' = [pc EXCEPT ![k] = "next"]
      /\ saved' = saved /\ started' = started /\ last' = last
  BY DEF AddResult
<1>4. AccountPerDesign'
  BY <1>1, <1>3 DEF AccountPerDesign
<1>5. \A j \in Kinds \ {k} : View(j)' = View(j)
  BY <1>1, <1>2, <1>3 DEF View
<1>6. PICK c, d : c = View(k) /\ d = View(k)'
  OBVIOUS
<1>7. /\ d.place = "next" /\ d.saved = c.saved /\ d.added = With(c.added, Matrix[k][n], o)
      /\ d.scheduled = c.scheduled \ {n} /\ d.started = c.started /\ d.took = 0
      /\ d.spent = seconds /\ n \in c.scheduled
  BY <1>1, <1>2, <1>3, <1>6 DEF View, NoOutcome
<1>8. d.exhausted => OverTime(d.spent) \/ ClaimedOver(d.added)
  <2>1. exhausted'[k] = (o.status = "over_budget" \/ OverTime(seconds))
    BY <1>1, <1>3
  <2>2. d.exhausted = exhausted'[k] /\ d.spent = seconds
    BY <1>6, <1>7 DEF View
  <2>3. Matrix[k][n] \in DOMAIN d.added /\ d.added[Matrix[k][n]] = o
    BY <1>7 DEF With
  <2>. QED BY <2>1, <2>2, <2>3 DEF ClaimedOver
<1>9. /\ c.place = pc[k] /\ c.spent = spent[k] /\ c.took = outcome[k].elapsed
  BY <1>6 DEF View
<1>10. Honest(k, c)
  BY <1>6 DEF HonestInv
<1>11. Honest(k, d)
  <2>1. /\ c.place \in {"execute", "put", "create", "write"} /\ d.spent \in Int
        /\ c.place = "execute" => c.spent + o.elapsed <= d.spent
        /\ c.place # "execute" => o.elapsed = c.took /\ c.spent <= d.spent
    BY <1>7, <1>9
  <2>. QED BY <1>7, <1>8, <1>10, <2>1, AddHonest
<1>. QED BY <1>4, <1>5, <1>6, <1>11 DEF Moves
\* A call starts.
LEMMA ResumeMoves ==
  ASSUME StoreInv, HonestInv, NEW k \in Kinds, NEW limit, Resume(k, limit)
  PROVE  Moves(k)
<1>1. CASE Raise(k, "time_exceeded")
  BY <1>1, RaiseMoves
<1>2. CASE ~ Raise(k, "time_exceeded")
  <2>1. /\ DOMAIN saved = Kinds /\ DOMAIN pc = Kinds /\ DOMAIN scheduled = Kinds
        /\ DOMAIN added = Kinds /\ DOMAIN outcome = Kinds
        /\ DOMAIN started = Kinds /\ DOMAIN spent = Kinds /\ DOMAIN exhausted = Kinds /\ DOMAIN last = Kinds
    BY DEF StoreInv, PerDesign, HonestInv, AccountPerDesign
  <2>2. /\ pc[k] = "idle"
        /\ pc' = [pc EXCEPT ![k] = "next"]
        /\ scheduled' = [scheduled EXCEPT ![k] = Schedule(k, limit)]
        /\ added' = [added EXCEPT ![k] = NoResults]
        /\ started' = [started EXCEPT ![k] = Cardinality(DOMAIN saved[k])]
        /\ spent' = [spent EXCEPT ![k] = Elapsed(saved[k])]
        /\ UNCHANGED <<saved, outcome, exhausted, last>>
    BY <1>2 DEF Resume, PriorStarted, PreviousElapsed
  <2>3. AccountPerDesign'
    BY <2>1, <2>2 DEF AccountPerDesign
  <2>4. \A j \in Kinds \ {k} : View(j)' = View(j)
    BY <2>1, <2>2 DEF View
  <2>5. PICK c, d : c = View(k) /\ d = View(k)'
    OBVIOUS
  <2>6. /\ c.place = "idle" /\ d.place = "next" /\ DOMAIN d.added = {} /\ d.saved = c.saved
        /\ d.scheduled = Schedule(k, limit) /\ d.started = Cardinality(DOMAIN c.saved)
        /\ d.spent = Elapsed(c.saved) /\ d.took = c.took
    BY <2>1, <2>2, <2>5 DEF View, NoResults
  <2>7. d.exhausted = c.exhausted
    BY <2>2, <2>5 DEF View
  <2>8. Schedule(k, limit) \subseteq {n \in DOMAIN Matrix[k] : Matrix[k][n] \notin DOMAIN c.saved}
    BY <2>5 DEF Schedule, FirstOf, View
  <2>9. Honest(k, c)
    BY <2>5 DEF HonestInv
  <2>10. Honest(k, d)
    BY <2>6, <2>7, <2>8, <2>9, ResumeHonest
  <2>. QED BY <2>3, <2>4, <2>5, <2>10 DEF Moves
<1>. QED BY <1>1, <1>2

\* A trajectory starts.
LEMMA StartMoves ==
  ASSUME StoreInv, HonestInv, NEW k \in Kinds, Start(k)
  PROVE  Moves(k)
<1>1. /\ DOMAIN pc = Kinds /\ DOMAIN started = Kinds /\ DOMAIN spent = Kinds
      /\ DOMAIN exhausted = Kinds /\ DOMAIN last = Kinds
  BY DEF StoreInv, PerDesign, HonestInv, AccountPerDesign
<1>2. /\ pc[k] = "next" /\ ~ OverTime(spent[k])
      /\ started' = [started EXCEPT ![k] = started[k] + 1]
      /\ pc' = [pc EXCEPT ![k] = "execute"]
      /\ UNCHANGED <<saved, scheduled, added, spent, outcome, exhausted, last>>
  BY <1>1 DEF Start, BudgetLeft
<1>3. AccountPerDesign'
  BY <1>1, <1>2 DEF AccountPerDesign
<1>4. \A j \in Kinds \ {k} : View(j)' = View(j)
  BY <1>1, <1>2 DEF View
<1>5. PICK c, d : c = View(k) /\ d = View(k)'
  OBVIOUS
<1>6. /\ c.place = "next" /\ ~ OverTime(c.spent) /\ d.place = "execute"
      /\ d.scheduled = c.scheduled /\ d.added = c.added /\ d.saved = c.saved
      /\ d.started = c.started + 1 /\ d.spent = c.spent /\ d.took = c.took
  BY <1>1, <1>2, <1>5 DEF View
<1>7. Honest(k, c)
  BY <1>5 DEF HonestInv
<1>8. Honest(k, d)
  BY <1>6, <1>7, StartHonest
<1>. QED BY <1>3, <1>4, <1>5, <1>8 DEF Moves

\* The payload goes its way to the store.
LEMMA StoringMoves ==
  ASSUME StoreInv, HonestInv, NEW k \in Kinds, NEW place \in {"create", "write"},
         pc[k] \in {"put", "create", "write"}, pc' = [pc EXCEPT ![k] = place],
         UNCHANGED <<saved, scheduled, added, started, spent, outcome, exhausted, last>>
  PROVE  Moves(k)
<1>1. DOMAIN pc = Kinds
  BY DEF StoreInv, PerDesign
<1>2. AccountPerDesign'
  BY DEF HonestInv, AccountPerDesign
<1>3. \A j \in Kinds \ {k} : View(j)' = View(j)
  BY <1>1 DEF View
<1>4. PICK c, d : c = View(k) /\ d = View(k)'
  OBVIOUS
<1>5. /\ c.place \in {"put", "create", "write"} /\ d.place \in {"put", "create", "write"}
      /\ d.scheduled = c.scheduled /\ d.added = c.added /\ d.saved = c.saved
      /\ d.started = c.started /\ d.took = c.took /\ d.spent = c.spent
  BY <1>1, <1>4 DEF View
<1>6. Honest(k, c)
  BY <1>4 DEF HonestInv
<1>7. Honest(k, d)
  BY <1>5, <1>6, StoringHonest
<1>. QED BY <1>2, <1>3, <1>4, <1>7 DEF Moves

\* What an account is made of is a number.
LEMMA SpentType ==
  ASSUME HonestInv, NEW k \in Kinds
  PROVE  spent[k] \in Int /\ outcome[k].elapsed \in Nat
BY DEF HonestInv, Honest, WellFormed, View

\* An executor returns.
LEMMA ExecuteMoves ==
  ASSUME StoreInv, HonestInv, NEW k \in Kinds, NEW o \in Outcomes, Execute(k, o)
  PROVE  Moves(k)
<1>1. o.elapsed \in Nat /\ spent[k] \in Int /\ pc[k] = "execute"
  BY SpentType, EvaluationAssumption DEF Outcomes, Execute
<1>2. CASE o.payload = NoPayload
  <2>1. PICK total : total = spent[k] + o.elapsed
    OBVIOUS
  <2>2. AddResult(k, o, total)
    BY <1>2, <2>1 DEF Execute
  <2>3. total \in Int /\ spent[k] + o.elapsed <= total
    BY <1>1, <2>1
  <2>. QED BY <1>1, <2>2, <2>3, AddMoves
<1>3. CASE o.payload # NoPayload /\ o.payload = EmptyPayload
  BY <1>3, RaiseMoves DEF Execute
<1>4. CASE o.payload # NoPayload /\ o.payload # EmptyPayload
  <2>1. /\ DOMAIN pc = Kinds /\ DOMAIN outcome = Kinds /\ DOMAIN started = Kinds
        /\ DOMAIN spent = Kinds /\ DOMAIN exhausted = Kinds /\ DOMAIN last = Kinds
    BY DEF StoreInv, PerDesign, HonestInv, AccountPerDesign
  <2>2. /\ outcome' = [outcome EXCEPT ![k] = o]
        /\ spent' = [spent EXCEPT ![k] = spent[k] + o.elapsed]
        /\ pc' = [pc EXCEPT ![k] = "put"]
        /\ UNCHANGED <<saved, scheduled, added, started, exhausted, last>>
    BY <1>4, <2>1 DEF Execute
  <2>3. AccountPerDesign'
    BY <2>1, <2>2 DEF AccountPerDesign
  <2>4. \A j \in Kinds \ {k} : View(j)' = View(j)
    BY <2>1, <2>2 DEF View
  <2>5. PICK c, d : c = View(k) /\ d = View(k)'
    OBVIOUS
  <2>6. /\ c.place = "execute" /\ d.place = "put"
        /\ d.scheduled = c.scheduled /\ d.added = c.added /\ d.saved = c.saved
        /\ d.started = c.started /\ d.took = o.elapsed /\ d.spent = c.spent + o.elapsed
    BY <1>1, <2>1, <2>2, <2>5 DEF View
  <2>7. Honest(k, c)
    BY <2>5 DEF HonestInv
  <2>8. Honest(k, d)
    BY <1>1, <2>6, <2>7, ExecuteHonest
  <2>. QED BY <2>3, <2>4, <2>5, <2>8 DEF Moves
<1>. QED BY <1>2, <1>3, <1>4

\* A payload is stored, or was stored before.
LEMMA StoredMoves ==
  ASSUME StoreInv, HonestInv, NEW k \in Kinds, NEW seconds \in WriteTimes,
         pc[k] \in {"put", "create", "write"}, AddResult(k, outcome[k], spent[k] + seconds)
  PROVE  Moves(k)
<1>1. PICK o, total : o = outcome[k] /\ total = spent[k] + seconds
  OBVIOUS
<1>2. AddResult(k, o, total)
  BY <1>1
<1>3. seconds \in Nat /\ spent[k] \in Int /\ o.elapsed \in Nat
  BY <1>1, SpentType, EvaluationAssumption
<1>4. total \in Int /\ spent[k] <= total /\ o.elapsed = outcome[k].elapsed
  BY <1>1, <1>3
<1>. QED BY <1>2, <1>3, <1>4, AddMoves

\* A file that is there is compared.
LEMMA CompareMoves ==
  ASSUME StoreInv, HonestInv, NEW k \in Kinds, NEW seconds \in WriteTimes,
         pc[k] \in {"put", "create", "write"}, Compare(k, seconds)
  PROVE  Moves(k)
<1>1. CASE store[outcome[k].payload] = "whole"
  BY <1>1, StoredMoves DEF Compare
<1>2. CASE store[outcome[k].payload] # "whole"
  BY <1>2, RaiseMoves DEF Compare
<1>. QED BY <1>1, <1>2

\* Every step keeps every account honest.
LEMMA StepHonest == StoreInv /\ HonestInv /\ [Next]_vars => HonestInv'
<1>. SUFFICES ASSUME StoreInv, HonestInv, [Next]_vars PROVE HonestInv'
  OBVIOUS
<1>1. CASE UNCHANGED vars
  <2>1. UNCHANGED <<saved, pc, scheduled, added, started, spent, outcome, exhausted, last>>
    BY <1>1 DEF vars
  <2>2. AccountPerDesign' /\ \A j \in Kinds : View(j)' = View(j)
    BY <2>1 DEF HonestInv, AccountPerDesign, View
  <2>3. \A j \in Kinds : Honest(j, View(j))'
    BY <2>2 DEF HonestInv
  <2>. QED BY <2>2, <2>3 DEF HonestInv
<1>2. CASE Next
  <2>1. PICK k \in Kinds : \/ \E limit \in Slices : Resume(k, limit)
                           \/ RunStep(k) \/ ExecutorStep(k) \/ Crash(k)
    BY <1>2 DEF Next
  <2>. SUFFICES Moves(k)
    BY MovesKeep
  <2>2. CASE \E limit \in Slices : Resume(k, limit)
    BY <2>2, ResumeMoves
  <2>3. CASE RunStep(k)
    <3>1. CASE EndOfSlice(k) \/ Start(k)
      BY <3>1, ReturnMoves, StartMoves
    <3>2. ASSUME NEW seconds \in WriteTimes, Put(k, seconds)
          PROVE  Moves(k)
      <4>1. CASE outcome[k].payload \in DOMAIN store
        BY <3>2, <4>1, CompareMoves DEF Put
      <4>2. CASE outcome[k].payload \notin DOMAIN store
        BY <3>2, <4>2, StoringMoves DEF Put, local
      <4>. QED BY <4>1, <4>2
    <3>3. ASSUME NEW seconds \in WriteTimes, Create(k, seconds)
          PROVE  Moves(k)
      <4>1. CASE outcome[k].payload \in DOMAIN store
        BY <3>3, <4>1, CompareMoves DEF Create
      <4>2. CASE outcome[k].payload \notin DOMAIN store
        BY <3>3, <4>2, StoringMoves DEF Create, local
      <4>. QED BY <4>1, <4>2
    <3>4. ASSUME NEW seconds \in WriteTimes, Write(k, seconds)
          PROVE  Moves(k)
      BY <3>4, StoredMoves DEF Write
    <3>. QED BY <2>3, <3>1, <3>2, <3>3, <3>4 DEF RunStep
  <2>4. CASE ExecutorStep(k)
    <3>1. CASE DeclareModelCall(k)
      BY <3>1, RaiseMoves DEF DeclareModelCall
    <3>. QED BY <2>4, <3>1, ExecuteMoves DEF ExecutorStep
  <2>5. CASE Crash(k)
    BY <2>5, RaiseMoves DEF Crash
  <2>. QED BY <2>1, <2>2, <2>3, <2>4, <2>5
<1>. QED BY <1>1, <1>2

\* Nothing is counted at first.
LEMMA InitHonest == Init => HonestInv
<1>. SUFFICES ASSUME Init, NEW k \in Kinds
              PROVE  AccountPerDesign /\ Honest(k, View(k))
  BY DEF HonestInv, Init, AccountPerDesign
<1>1. AccountPerDesign
  BY DEF Init, AccountPerDesign
<1>2. PICK c : c = View(k)
  OBVIOUS
<1>3. /\ c.place = "idle" /\ c.scheduled = {} /\ DOMAIN c.saved = {} /\ DOMAIN c.added = {}
      /\ c.started = 0 /\ c.spent = 0 /\ c.took = 0 /\ c.last = "none"
  BY <1>2 DEF View, Init, NoResults, NoOutcome
<1>4. ~ c.exhausted
  <2>1. ~ exhausted[k]
    BY Zenon DEF Init
  <2>2. c.exhausted = exhausted[k]
    BY <1>2 DEF View
  <2>. QED BY <2>1, <2>2, Zenon
<1>5. WellFormed(k, c)
  BY <1>3 DEF WellFormed
<1>6. Bounded(c.saved) /\ Bounded(Joined(c))
  <2>1. MaxSeconds \in Nat \ {0}
    BY EvaluationAssumption
  <2>2. Elapsed(c.saved) = 0
    BY <1>3, ElapsedOfNone
  <2>. QED BY <1>3, <2>1, <2>2, JoinedOfNone DEF Bounded
<1>7. Account(c) /\ Verdict(k, c)
  BY <1>3, <1>4 DEF Account, Verdict
<1>. QED BY <1>1, <1>2, <1>5, <1>6, <1>7 DEF Honest

\* Over all the calls of an evaluation, whatever errors and deaths lie between them: what
\* is counted are the results, the trajectory budget never stops a run, the time is
\* overrun by one trajectory at most, and the budget is said to be used up only when it is
\* or an executor said so (evaluation/runner.py:226-231, 339-343, 365-371, 406-411).
THEOREM BudgetStaysHonest == Spec => []BudgetHonest
<1>1. StoreInv /\ HonestInv => BudgetHonest
  <2>. SUFFICES ASSUME HonestInv PROVE BudgetHonest
    OBVIOUS
  <2>1. ASSUME NEW k \in Kinds
        PROVE  /\ pc[k] = "next" =>
                    /\ started[k] = Cardinality(DOMAIN saved[k]) + Cardinality(DOMAIN added[k])
                    /\ scheduled[k] # {} => started[k] < Len(Matrix[k])
               /\ Bounded(Combined(k))
               /\ last[k] = "budget_exhausted" /\ pc[k] = "idle" =>
                    DOMAIN saved[k] # RunIds[k] /\ (OverTime(spent[k]) \/ ClaimedOver(saved[k]))
               /\ pc[k] = "next" /\ exhausted[k] => OverTime(spent[k]) \/ ClaimedOver(added[k])
    <3>1. PICK c : c = View(k)
      OBVIOUS
    <3>2. /\ c.place = pc[k] /\ c.started = started[k] /\ c.saved = saved[k] /\ c.added = added[k]
          /\ c.scheduled = scheduled[k] /\ c.last = last[k] /\ c.spent = spent[k]
          /\ Joined(c) = Combined(k)
      BY <3>1 DEF View, Joined, Combined
    <3>3. Honest(k, c)
      BY <3>1 DEF HonestInv
    <3>4. ASSUME pc[k] = "next"
          PROVE  started[k] = Cardinality(DOMAIN saved[k]) + Cardinality(DOMAIN added[k])
      BY <3>2, <3>3, <3>4 DEF Honest, Account, Held
    <3>5. ASSUME pc[k] = "next", scheduled[k] # {}
          PROVE  started[k] < Len(Matrix[k])
      <4>1. PICK n \in c.scheduled : TRUE
        BY <3>2, <3>5
      <4>2. WellFormed(k, c)
        BY <3>3 DEF Honest
      <4>3. /\ n \in DOMAIN Matrix[k] /\ Matrix[k][n] \notin DOMAIN Joined(c)
            /\ DOMAIN Joined(c) \in SUBSET RunIds[k]
            /\ Cardinality(DOMAIN Joined(c)) = Held(c)
        BY <4>2, WellFormedFacts DEF WellFormed
      <4>4. Cardinality(DOMAIN Joined(c)) < Len(Matrix[k])
        BY <4>3, Room
      <4>5. c.started = Held(c)
        BY <3>2, <3>3, <3>5 DEF Honest, Account
      <4>6. started[k] = Cardinality(DOMAIN Joined(c))
        BY <3>2, <4>3, <4>5
      <4>. QED BY <4>4, <4>6
    <3>6. Bounded(Combined(k))
      BY <3>2, <3>3 DEF Honest
    <3>7. last[k] = "budget_exhausted" /\ pc[k] = "idle" =>
            DOMAIN saved[k] # RunIds[k] /\ (OverTime(spent[k]) \/ ClaimedOver(saved[k]))
      BY <3>2, <3>3 DEF Honest, Verdict
    <3>8. ASSUME pc[k] = "next", exhausted[k]
          PROVE  OverTime(spent[k]) \/ ClaimedOver(added[k])
      <4>1. c.exhausted
        <5>1. c.exhausted = exhausted[k]
          BY <3>1 DEF View
        <5>. QED BY <3>8, <5>1, Zenon
      <4>. QED BY <3>2, <3>3, <3>8, <4>1 DEF Honest, Account
    <3>. QED BY <3>4, <3>5, <3>6, <3>7, <3>8
  <2>. QED BY <2>1 DEF BudgetHonest, CountsResults, WorkBounded, StatusTruthful
<1>2. Init => StoreInv /\ HonestInv
  BY InitInv, InitHonest
<1>3. StoreInv /\ HonestInv /\ [Next]_vars => (StoreInv /\ HonestInv)'
  BY StepInv, StepHonest
<1>. QED BY <1>1, <1>2, <1>3, PTL DEF Spec

(***************************************************************************)
(* Every call of run comes to its end.                                     *)
(***************************************************************************)

\* How many steps a call of run can still take: five for each assignment of its slice, and
\* the return.
StepsLeft(k) ==
  LET n == 5 * Cardinality(scheduled[k])
  IN CASE pc[k] = "next" -> n + 1
       [] pc[k] = "execute" -> n
       [] pc[k] = "put" -> n - 1
       [] pc[k] = "create" -> n - 2
       [] pc[k] = "write" -> n - 3
       [] OTHER -> 0

\* No step of a call leaves as many steps as there were, and none delays the call of
\* another evaluation on the same store.
CallsRunDown ==
  [][\A k \in Kinds : RunStep(k) \/ ExecutorStep(k) =>
       /\ StepsLeft(k)' < StepsLeft(k)
       /\ \A j \in Kinds \ {k} : StepsLeft(j)' = StepsLeft(j)]_vars

Underway == {"execute", "put", "create", "write"}

\* An assignment is under way only if one is left.
CallInv ==
  \A k \in Kinds : /\ pc[k] \in Places
                   /\ pc[k] \in Underway => scheduled[k] # {}

\* How a step of a call moves it: it returns or raises, it goes on to the next place with
\* the same slice, or it has finished one assignment.
Returns(k) == pc[k] # "idle" /\ pc'[k] = "idle"
GoesOn(k) ==
  /\ scheduled'[k] = scheduled[k] /\ scheduled[k] # {}
  /\ <<pc[k], pc'[k]>> \in
       {<<"next", "execute">>, <<"execute", "put">>, <<"put", "create">>, <<"create", "write">>}
Finishes(k) ==
  /\ pc[k] \in Underway /\ pc'[k] = "next"
  /\ \E n \in scheduled[k] : scheduled'[k] = scheduled[k] \ {n}
MovesCall(k) == Returns(k) \/ GoesOn(k) \/ Finishes(k)

\* Nothing moves the calls of other evaluations.
OthersRest(k) == \A j \in Kinds \ {k} : pc'[j] = pc[j] /\ scheduled'[j] = scheduled[j]

\* The end of a call.
LEMMA ForgetReturns ==
  ASSUME StoreInv, NEW k \in Kinds, Forget(k), pc[k] # "idle"
  PROVE  Returns(k) /\ OthersRest(k)
<1>1. DOMAIN pc = Kinds /\ DOMAIN scheduled = Kinds
  BY DEF StoreInv, PerDesign
<1>. QED BY <1>1 DEF Forget, Returns, OthersRest

\* A result that joins the slice takes its assignment from it.
LEMMA AddFinishes ==
  ASSUME StoreInv, NEW k \in Kinds, NEW o, NEW seconds,
         AddResult(k, o, seconds), pc[k] \in Underway
  PROVE  Finishes(k) /\ OthersRest(k)
<1>1. DOMAIN pc = Kinds /\ DOMAIN scheduled = Kinds
  BY DEF StoreInv, PerDesign
<1>2. PICK n \in scheduled[k] : scheduled' = [scheduled EXCEPT ![k] = scheduled[k] \ {n}]
  BY DEF AddResult
<1>3. pc' = [pc EXCEPT ![k] = "next"]
  BY DEF AddResult
<1>. QED BY <1>1, <1>2, <1>3 DEF Finishes, OthersRest

\* A file that is there is accepted, or refused.
LEMMA CompareEnds ==
  ASSUME StoreInv, NEW k \in Kinds, NEW seconds, Compare(k, seconds), pc[k] \in Underway
  PROVE  MovesCall(k) /\ OthersRest(k)
<1>1. PICK o, total : o = outcome[k] /\ total = spent[k] + seconds
  OBVIOUS
<1>2. AddResult(k, o, total) \/ Raise(k, "different_bytes")
  BY <1>1 DEF Compare
<1>3. pc[k] # "idle"
  BY DEF Underway
<1>. QED BY <1>2, <1>3, AddFinishes, ForgetReturns DEF Raise, MovesCall

\* The runner's own steps.
LEMMA RunMoves ==
  ASSUME StoreInv, CallInv, NEW k \in Kinds, RunStep(k)
  PROVE  MovesCall(k) /\ OthersRest(k)
<1>0. /\ DOMAIN pc = Kinds /\ DOMAIN scheduled = Kinds
      /\ pc[k] \in Underway => scheduled[k] # {}
  BY DEF StoreInv, PerDesign, CallInv
<1>1. CASE EndOfSlice(k)
  <2>1. Forget(k) /\ pc[k] # "idle"
    BY <1>1 DEF EndOfSlice, Return
  <2>. QED BY <2>1, ForgetReturns DEF MovesCall
<1>2. CASE Start(k)
  <2>1. /\ pc[k] = "next" /\ scheduled[k] # {} /\ scheduled' = scheduled
        /\ pc' = [pc EXCEPT ![k] = "execute"]
    BY <1>2 DEF Start
  <2>. QED BY <1>0, <2>1 DEF GoesOn, MovesCall, OthersRest
<1>3. ASSUME NEW seconds \in WriteTimes, Put(k, seconds)
      PROVE  MovesCall(k) /\ OthersRest(k)
  <2>1. pc[k] = "put" /\ pc[k] \in Underway
    BY <1>3 DEF Put, Underway
  <2>2. \/ Compare(k, seconds)
        \/ pc' = [pc EXCEPT ![k] = "create"] /\ scheduled' = scheduled
    BY <1>3 DEF Put, local
  <2>3. CASE pc' = [pc EXCEPT ![k] = "create"] /\ scheduled' = scheduled
    BY <1>0, <2>1, <2>3 DEF GoesOn, MovesCall, OthersRest
  <2>. QED BY <2>1, <2>2, <2>3, CompareEnds
<1>4. ASSUME NEW seconds \in WriteTimes, Create(k, seconds)
      PROVE  MovesCall(k) /\ OthersRest(k)
  <2>1. pc[k] = "create" /\ pc[k] \in Underway
    BY <1>4 DEF Create, Underway
  <2>2. \/ Compare(k, seconds)
        \/ pc' = [pc EXCEPT ![k] = "write"] /\ scheduled' = scheduled
    BY <1>4 DEF Create, local
  <2>3. CASE pc' = [pc EXCEPT ![k] = "write"] /\ scheduled' = scheduled
    BY <1>0, <2>1, <2>3 DEF GoesOn, MovesCall, OthersRest
  <2>. QED BY <2>1, <2>2, <2>3, CompareEnds
<1>5. ASSUME NEW seconds \in WriteTimes, Write(k, seconds)
      PROVE  MovesCall(k) /\ OthersRest(k)
  <2>1. pc[k] \in Underway
    BY <1>5 DEF Write, Underway
  <2>2. PICK o, total : o = outcome[k] /\ total = spent[k] + seconds
    OBVIOUS
  <2>3. AddResult(k, o, total)
    BY <1>5, <2>2 DEF Write
  <2>. QED BY <2>1, <2>3, AddFinishes DEF MovesCall
<1>. QED BY <1>1, <1>2, <1>3, <1>4, <1>5 DEF RunStep

\* The executor's steps.
LEMMA ExecutorMoves ==
  ASSUME StoreInv, CallInv, NEW k \in Kinds, ExecutorStep(k)
  PROVE  MovesCall(k) /\ OthersRest(k)
<1>0. /\ DOMAIN pc = Kinds /\ DOMAIN scheduled = Kinds
      /\ pc[k] = "execute" /\ pc[k] # "idle" /\ pc[k] \in Underway /\ scheduled[k] # {}
  BY DEF StoreInv, PerDesign, CallInv, Underway, ExecutorStep, Execute, DeclareModelCall
<1>1. ASSUME NEW o \in Outcomes, Execute(k, o)
      PROVE  MovesCall(k) /\ OthersRest(k)
  <2>1. PICK total : total = spent[k] + o.elapsed
    OBVIOUS
  <2>2. \/ AddResult(k, o, total) \/ Raise(k, "empty_result")
        \/ pc' = [pc EXCEPT ![k] = "put"] /\ scheduled' = scheduled
    BY <1>1, <2>1 DEF Execute
  <2>3. CASE pc' = [pc EXCEPT ![k] = "put"] /\ scheduled' = scheduled
    BY <1>0, <2>3 DEF GoesOn, MovesCall, OthersRest
  <2>. QED BY <1>0, <2>2, <2>3, AddFinishes, ForgetReturns DEF Raise, MovesCall
<1>2. CASE DeclareModelCall(k)
  BY <1>0, <1>2, ForgetReturns DEF DeclareModelCall, Raise, MovesCall
<1>. QED BY <1>1, <1>2 DEF ExecutorStep

\* What becomes of the invariant when a call moves.
LEMMA MovesKeepCall ==
  ASSUME CallInv, NEW k \in Kinds, MovesCall(k), OthersRest(k)
  PROVE  CallInv'
<1>1. pc'[k] \in Places /\ (pc'[k] \in Underway => scheduled'[k] # {})
  BY DEF MovesCall, Returns, GoesOn, Finishes, Places, Underway
<1>. QED BY <1>1 DEF CallInv, OthersRest

\* Every step keeps the invariant.
LEMMA StepCall == StoreInv /\ CallInv /\ [Next]_vars => CallInv'
<1>. SUFFICES ASSUME StoreInv, CallInv, [Next]_vars PROVE CallInv'
  OBVIOUS
<1>1. CASE UNCHANGED vars
  BY <1>1 DEF vars, CallInv
<1>2. CASE Next
  <2>0. DOMAIN pc = Kinds /\ DOMAIN scheduled = Kinds
    BY DEF StoreInv, PerDesign
  <2>1. PICK k \in Kinds : \/ \E limit \in Slices : Resume(k, limit)
                           \/ RunStep(k) \/ ExecutorStep(k) \/ Crash(k)
    BY <1>2 DEF Next
  <2>2. CASE \E limit \in Slices : Resume(k, limit)
    <3>1. PICK limit \in Slices : Resume(k, limit)
      BY <2>2
    <3>2. /\ pc'[k] \in {"idle", "next"}
          /\ OthersRest(k)
      BY <2>0, <3>1 DEF Resume, Raise, Forget, OthersRest
    <3>. QED BY <3>2 DEF CallInv, OthersRest, Places, Underway
  <2>3. CASE RunStep(k) \/ ExecutorStep(k)
    BY <2>3, RunMoves, ExecutorMoves, MovesKeepCall
  <2>4. CASE Crash(k)
    <3>1. Forget(k) /\ pc[k] # "idle"
      BY <2>4 DEF Crash, Raise
    <3>. QED BY <3>1, ForgetReturns, MovesKeepCall DEF MovesCall
  <2>. QED BY <2>1, <2>2, <2>3, <2>4
<1>. QED BY <1>1, <1>2

\* A slice is finite, so its steps can be counted.
LEMMA CountOfSlice ==
  ASSUME HonestInv, NEW k \in Kinds
  PROVE  /\ IsFiniteSet(scheduled[k]) /\ Cardinality(scheduled[k]) \in Nat
         /\ Cardinality(scheduled[k]) = 0 <=> scheduled[k] = {}
<1>1. scheduled[k] \subseteq 1..Len(Matrix[k]) /\ Len(Matrix[k]) \in Nat
  <2>1. PICK c : c = View(k)
    OBVIOUS
  <2>2. Honest(k, c) /\ c.scheduled = scheduled[k]
    BY <2>1 DEF HonestInv, View
  <2>. QED BY <2>2, MatrixFacts DEF Honest, WellFormed
<1>2. IsFiniteSet(1..Len(Matrix[k]))
  <2>1. 1 \in Int /\ Len(Matrix[k]) \in Int
    BY <1>1
  <2>. QED BY <2>1, FS_Interval
<1>3. IsFiniteSet(scheduled[k])
  BY <1>1, <1>2, FS_Subset
<1>. QED BY <1>3, FS_CardinalityType, FS_EmptySet

\* The number of steps left is one, and zero between calls.
LEMMA StepsLeftIs ==
  ASSUME HonestInv, CallInv, NEW k \in Kinds
  PROVE  StepsLeft(k) \in Nat /\ (StepsLeft(k) = 0 <=> pc[k] = "idle")
<1>1. PICK c \in Nat : c = Cardinality(scheduled[k])
  BY CountOfSlice
<1>2. pc[k] \in Places /\ (pc[k] \in Underway => c # 0)
  BY <1>1, CountOfSlice DEF CallInv
<1>3. /\ pc[k] = "idle" => StepsLeft(k) = 0
      /\ pc[k] = "next" => StepsLeft(k) = 5 * c + 1
      /\ pc[k] \in Underway => StepsLeft(k) \in {5 * c, 5 * c - 1, 5 * c - 2, 5 * c - 3}
  BY <1>1 DEF StepsLeft, Underway
<1>. QED BY <1>1, <1>2, <1>3 DEF Places, Underway

\* A move of a call lowers it.
LEMMA MovesRunDown ==
  ASSUME HonestInv, CallInv, NEW k \in Kinds, MovesCall(k)
  PROVE  StepsLeft(k)' < StepsLeft(k)
<1>1. PICK c \in Nat : c = Cardinality(scheduled[k])
  BY CountOfSlice
<1>2. CASE Returns(k)
  <2>1. StepsLeft(k)' = 0
    BY <1>2 DEF Returns, StepsLeft
  <2>2. StepsLeft(k) \in Nat /\ StepsLeft(k) # 0
    BY <1>2, StepsLeftIs DEF Returns
  <2>. QED BY <2>1, <2>2
<1>3. CASE GoesOn(k)
  <2>1. c = Cardinality(scheduled'[k])
    BY <1>1, <1>3 DEF GoesOn
  <2>2. \/ pc[k] = "next" /\ pc'[k] = "execute"
        \/ pc[k] = "execute" /\ pc'[k] = "put"
        \/ pc[k] = "put" /\ pc'[k] = "create"
        \/ pc[k] = "create" /\ pc'[k] = "write"
    BY <1>3 DEF GoesOn
  <2>3. \/ StepsLeft(k) = 5 * c + 1 /\ StepsLeft(k)' = 5 * c
        \/ StepsLeft(k) = 5 * c /\ StepsLeft(k)' = 5 * c - 1
        \/ StepsLeft(k) = 5 * c - 1 /\ StepsLeft(k)' = 5 * c - 2
        \/ StepsLeft(k) = 5 * c - 2 /\ StepsLeft(k)' = 5 * c - 3
    BY <1>1, <2>1, <2>2 DEF StepsLeft
  <2>. QED BY <2>3
<1>4. CASE Finishes(k)
  <2>1. PICK n \in scheduled[k] : scheduled'[k] = scheduled[k] \ {n}
    BY <1>4 DEF Finishes
  <2>2. Cardinality(scheduled'[k]) = c - 1
    BY <1>1, <2>1, CountOfSlice, FS_RemoveElement
  <2>3. StepsLeft(k)' = 5 * (c - 1) + 1
    BY <1>4, <2>2 DEF Finishes, StepsLeft
  <2>4. StepsLeft(k) \in {5 * c, 5 * c - 1, 5 * c - 2, 5 * c - 3}
    BY <1>1, <1>4 DEF Finishes, StepsLeft, Underway
  <2>. QED BY <2>3, <2>4
<1>. QED BY <1>2, <1>3, <1>4 DEF MovesCall

\* No call of run goes on for ever, and none waits for another evaluation: each of its
\* steps lowers a number that only its own steps change and that is zero when it has
\* returned or raised (evaluation/runner.py:345-411).
THEOREM CallsComeDown ==
  Spec => /\ [](\A k \in Kinds : StepsLeft(k) \in Nat /\ (StepsLeft(k) = 0 <=> pc[k] = "idle"))
          /\ CallsRunDown
<1>1. Init => StoreInv /\ HonestInv /\ CallInv
  <2>1. Init => CallInv
    BY DEF Init, CallInv, Places, Underway
  <2>. QED BY <2>1, InitInv, InitHonest
<1>2. StoreInv /\ HonestInv /\ CallInv /\ [Next]_vars => (StoreInv /\ HonestInv /\ CallInv)'
  BY StepInv, StepHonest, StepCall
<1>3. HonestInv /\ CallInv =>
        \A k \in Kinds : StepsLeft(k) \in Nat /\ (StepsLeft(k) = 0 <=> pc[k] = "idle")
  BY StepsLeftIs
<1>4. StoreInv /\ HonestInv /\ CallInv =>
        [\A k \in Kinds : RunStep(k) \/ ExecutorStep(k) =>
           /\ StepsLeft(k)' < StepsLeft(k)
           /\ \A j \in Kinds \ {k} : StepsLeft(j)' = StepsLeft(j)]_vars
  <2>. SUFFICES ASSUME StoreInv, HonestInv, CallInv, NEW k \in Kinds,
                       RunStep(k) \/ ExecutorStep(k)
               PROVE  /\ StepsLeft(k)' < StepsLeft(k)
                      /\ \A j \in Kinds \ {k} : StepsLeft(j)' = StepsLeft(j)
    OBVIOUS
  <2>1. MovesCall(k) /\ OthersRest(k)
    BY RunMoves, ExecutorMoves
  <2>2. \A j \in Kinds \ {k} : StepsLeft(j)' = StepsLeft(j)
    BY <2>1 DEF OthersRest, StepsLeft
  <2>. QED BY <2>1, <2>2, MovesRunDown
<1>. QED BY <1>1, <1>2, <1>3, <1>4, PTL DEF Spec, CallsRunDown

(***************************************************************************)
(* Evaluations implement EvaluationLedger.                                 *)
(***************************************************************************)

\* The first n assignments of a design.
FirstIds(k, n) == {Matrix[k][i] : i \in 1..n}

\* The time of some of the results.
TimeOf(results, ids) == SumFunctionOnSet(ElapsedOf(results), ids)

\* The client has the results of the first m assignments, with the slice of the first n, and
\* the slice goes on to the l-th; the last one of it began in time.
Reached(k, c, m, n, l) ==
  /\ m <= n /\ n <= l
  /\ DOMAIN c.saved = FirstIds(k, m)
  /\ DOMAIN Joined(c) = FirstIds(k, n)
  /\ c.scheduled = (n + 1) .. l
  /\ m < n => TimeOf(Joined(c), FirstIds(k, n - 1)) < MaxSeconds

InOrder(k, c) == \E m, n, l \in 0 .. Len(Matrix[k]) : Reached(k, c, m, n, l)

OrderedInv == \A k \in Kinds : InOrder(k, View(k))

\* The ways in which a step changes a client's results and its slice.
Drops(c, d) == d.scheduled = {} /\ DOMAIN d.added = {} /\ d.saved = c.saved
Hands(c, d) == d.scheduled = {} /\ DOMAIN d.added = {} /\ d.saved = Joined(c)
Plans(k, c, d, limit) ==
  /\ d.scheduled = FirstOf({n \in DOMAIN Matrix[k] : Matrix[k][n] \notin DOMAIN c.saved}, limit)
  /\ DOMAIN d.added = {} /\ d.saved = c.saved
Gains(k, c, d, n, o) ==
  /\ n \in c.scheduled /\ \A i \in c.scheduled : n <= i
  /\ d.scheduled = c.scheduled \ {n}
  /\ d.added = With(c.added, Matrix[k][n], o) /\ d.saved = c.saved
  /\ Elapsed(Joined(c)) < MaxSeconds
Rests(c, d) == d.scheduled = c.scheduled /\ d.added = c.added /\ d.saved = c.saved

\* What a slice is to work through are the next assignments, up to its limit.
LEMMA NextOnes ==
  ASSUME NEW a \in Nat, NEW b \in Nat, a <= b, NEW limit \in Nat
  PROVE  \E l \in a .. b : FirstOf((a + 1) .. b, limit) = (a + 1) .. l
<1>1. ASSUME NEW n \in (a + 1) .. b
      PROVE  Cardinality({m \in (a + 1) .. b : m < n}) = n - 1 - a
  <2>1. {m \in (a + 1) .. b : m < n} = (a + 1) .. (n - 1)
    OBVIOUS
  <2>2. a + 1 \in Int /\ n - 1 \in Int
    OBVIOUS
  <2>3. Cardinality((a + 1) .. (n - 1)) = IF a + 1 > n - 1 THEN 0 ELSE (n - 1) - (a + 1) + 1
    BY ONLY <2>2, FS_Interval
  <2>4. PICK size : size = Cardinality((a + 1) .. (n - 1))
    OBVIOUS
  <2>5. size = n - 1 - a
    BY <2>3, <2>4
  <2>. QED BY <2>1, <2>4, <2>5
<1>2. FirstOf((a + 1) .. b, limit) = {n \in (a + 1) .. b : n - 1 - a < limit}
  BY <1>1 DEF FirstOf
<1>3. CASE a + limit <= b
  <2>1. {n \in (a + 1) .. b : n - 1 - a < limit} = (a + 1) .. (a + limit) /\ a + limit \in a .. b
    BY <1>3
  <2>. QED BY <1>2, <2>1
<1>4. CASE ~ (a + limit <= b)
  <2>1. {n \in (a + 1) .. b : n - 1 - a < limit} = (a + 1) .. b /\ b \in a .. b
    BY <1>4
  <2>. QED BY <1>2, <2>1
<1>. QED BY <1>3, <1>4

\* A call that raises leaves the results as they were.
LEMMA DropsKeepOrder ==
  ASSUME NEW k \in Kinds, NEW c, NEW d, InOrder(k, c), Drops(c, d)
  PROVE  InOrder(k, d)
<1>1. PICK m, n, l \in 0 .. Len(Matrix[k]) : Reached(k, c, m, n, l)
  BY DEF InOrder
<1>2. DOMAIN Joined(d) = DOMAIN d.saved
  BY JoinedOfNone DEF Drops
<1>3. Reached(k, d, m, m, m)
  BY <1>1, <1>2, MatrixFacts DEF Reached, Drops
<1>. QED BY <1>1, <1>3 DEF InOrder

\* A call that returns hands over one more part of the matrix.
LEMMA HandsKeepOrder ==
  ASSUME NEW k \in Kinds, NEW c, NEW d, InOrder(k, c), Hands(c, d)
  PROVE  InOrder(k, d)
<1>1. PICK m, n, l \in 0 .. Len(Matrix[k]) : Reached(k, c, m, n, l)
  BY DEF InOrder
<1>2. DOMAIN Joined(d) = DOMAIN d.saved
  BY JoinedOfNone DEF Hands
<1>3. Reached(k, d, n, n, n)
  BY <1>1, <1>2, MatrixFacts DEF Reached, Hands
<1>. QED BY <1>1, <1>3 DEF InOrder

\* A call takes up the matrix where its client's results end.
LEMMA PlansKeepOrder ==
  ASSUME NEW k \in Kinds, NEW c, NEW d, NEW limit \in Nat, InOrder(k, c), Plans(k, c, d, limit)
  PROVE  InOrder(k, d)
<1>1. PICK m \in 0 .. Len(Matrix[k]) : DOMAIN c.saved = FirstIds(k, m)
  BY DEF InOrder, Reached
<1>2. DOMAIN Joined(d) = DOMAIN d.saved
  BY JoinedOfNone DEF Plans
<1>3. /\ Len(Matrix[k]) \in Nat /\ DOMAIN Matrix[k] = 1 .. Len(Matrix[k])
      /\ \A i, j \in DOMAIN Matrix[k] : Matrix[k][i] = Matrix[k][j] => i = j
  BY MatrixFacts
<1>4. {i \in DOMAIN Matrix[k] : Matrix[k][i] \notin DOMAIN c.saved} = (m + 1) .. Len(Matrix[k])
  <2>1. ASSUME NEW i \in DOMAIN Matrix[k]
        PROVE  Matrix[k][i] \in FirstIds(k, m) <=> i <= m
    BY <1>3 DEF FirstIds
  <2>. QED BY <1>1, <1>3, <2>1
<1>5. PICK l \in m .. Len(Matrix[k]) : d.scheduled = (m + 1) .. l
  <2>1. d.scheduled = FirstOf((m + 1) .. Len(Matrix[k]), limit)
    BY <1>4 DEF Plans
  <2>. QED BY <1>3, <2>1, NextOnes
<1>6. Reached(k, d, m, m, l) /\ l \in 0 .. Len(Matrix[k])
  BY <1>1, <1>2, <1>3, <1>5 DEF Reached, Plans
<1>. QED BY <1>6 DEF InOrder

\* One more result: its assignment is the next one, and it began in time.
LEMMA GainsKeepOrder ==
  ASSUME NEW k \in Kinds, NEW c, NEW d, NEW x, NEW o, WellFormed(k, c), o.elapsed \in Nat,
         InOrder(k, c), Gains(k, c, d, x, o)
  PROVE  InOrder(k, d)
<1>1. PICK m, n, l \in 0 .. Len(Matrix[k]) : Reached(k, c, m, n, l)
  BY DEF InOrder
<1>2. Len(Matrix[k]) \in Nat
  BY MatrixFacts
<1>3. x = n + 1 /\ n + 1 <= l /\ d.scheduled = (n + 2) .. l
  <2>1. x \in (n + 1) .. l /\ n + 1 \in (n + 1) .. l /\ x <= n + 1
    BY <1>1, <1>2 DEF Gains, Reached
  <2>2. x = n + 1
    BY <1>1, <2>1
  <2>3. ((n + 1) .. l) \ {n + 1} = (n + 2) .. l
    BY <1>1
  <2>. QED BY <1>1, <2>1, <2>2, <2>3 DEF Gains, Reached
<1>. DEFINE id == Matrix[k][x]
<1>4. FirstIds(k, n + 1) = FirstIds(k, n) \cup {id}
  <2>1. 1 .. (n + 1) = (1 .. n) \cup {n + 1}
    BY <1>1
  <2>. QED BY <1>3, <2>1 DEF FirstIds
<1>5. id \notin DOMAIN c.added \cup DOMAIN c.saved
  BY DEF Gains, WellFormed
<1>. HIDE DEF id
<1>6. /\ DOMAIN d.added = DOMAIN c.added \cup {id}
      /\ d.added[id] = o
      /\ \A i \in DOMAIN c.added : d.added[i] = c.added[i]
  BY <1>5 DEF With, Gains, id
<1>7. Joined(d) = With(Joined(c), id, o)
  BY <1>5, <1>6 DEF Joined, With, Gains
<1>8. DOMAIN Joined(c) = FirstIds(k, n) /\ DOMAIN Joined(d) = FirstIds(k, n + 1)
  BY <1>1, <1>4, <1>7 DEF Reached, With
<1>9. TimeOf(Joined(d), FirstIds(k, n)) = Elapsed(Joined(c))
  <2>1. PICK f, g : f = ElapsedOf(Joined(d)) /\ g = ElapsedOf(Joined(c))
    OBVIOUS
  <2>2. IsFiniteSet(DOMAIN Joined(c)) /\ id \notin DOMAIN Joined(c)
    BY <1>5, WellFormedFacts
  <2>3. \A i \in DOMAIN Joined(c) : f[i] = g[i]
    BY <1>7, <2>1, <2>2 DEF ElapsedOf, With
  <2>4. SumFunctionOnSet(f, DOMAIN Joined(c)) = SumFunctionOnSet(g, DOMAIN Joined(c))
    BY <2>2, <2>3, SumSame
  <2>5. Elapsed(Joined(c)) = SumFunctionOnSet(g, DOMAIN Joined(c))
    BY <2>1 DEF Elapsed, SumFunction, ElapsedOf
  <2>. QED BY <1>8, <2>1, <2>4, <2>5 DEF TimeOf
<1>10. TimeOf(Joined(d), FirstIds(k, n + 1 - 1)) < MaxSeconds
  <2>1. n + 1 - 1 = n
    BY <1>1
  <2>. QED BY <1>9, <2>1 DEF Gains
<1>11. DOMAIN d.saved = FirstIds(k, m) /\ m <= n + 1 /\ (n + 1) + 1 = n + 2
  BY <1>1 DEF Reached, Gains
<1>12. Reached(k, d, m, n + 1, l) /\ n + 1 \in 0 .. Len(Matrix[k])
  BY <1>1, <1>2, <1>3, <1>8, <1>10, <1>11 DEF Reached
<1>. QED BY <1>1, <1>12 DEF InOrder

\* Nothing changes.
LEMMA RestsKeepOrder ==
  ASSUME NEW k \in Kinds, NEW c, NEW d, InOrder(k, c), Rests(c, d)
  PROVE  InOrder(k, d)
<1>1. Joined(d) = Joined(c)
  BY DEF Joined, Rests
<1>. QED BY <1>1 DEF InOrder, Reached, Rests
-----------------------------------------------------------------------------
(* Every step changes the results in one of these ways *)

\* One evaluation moves; its results change only when its call returns.
Slides(k) ==
  /\ \A j \in Kinds \ {k} : Rests(View(j), View(j)')
  /\ \/ /\ saved' = saved
        /\ \/ Drops(View(k), View(k)') \/ Rests(View(k), View(k)')
           \/ \E limit \in Slices : Plans(k, View(k), View(k)', limit)
           \/ \E n, o : o.elapsed \in Nat /\ Gains(k, View(k), View(k)', n, o)
     \/ /\ saved' = [saved EXCEPT ![k] = Joined(View(k))] /\ UNCHANGED store
        /\ Hands(View(k), View(k)')

\* A call raises.
LEMMA RaiseDrops ==
  ASSUME StoreInv, NEW k \in Kinds, NEW why, Raise(k, why)
  PROVE  Slides(k)
<1>1. DOMAIN saved = Kinds /\ DOMAIN scheduled = Kinds /\ DOMAIN added = Kinds
  BY DEF StoreInv, PerDesign
<1>2. /\ scheduled' = [scheduled EXCEPT ![k] = {}]
      /\ added' = [added EXCEPT ![k] = NoResults]
      /\ saved' = saved
  BY DEF Raise, Forget
<1>3. Drops(View(k), View(k)')
  BY <1>1, <1>2 DEF Drops, View, NoResults
<1>4. \A j \in Kinds \ {k} : Rests(View(j), View(j)')
  BY <1>1, <1>2 DEF Rests, View
<1>. QED BY <1>2, <1>3, <1>4 DEF Slides

\* A call returns.
LEMMA ReturnHands ==
  ASSUME StoreInv, NEW k \in Kinds, EndOfSlice(k)
  PROVE  Slides(k)
<1>1. DOMAIN saved = Kinds /\ DOMAIN scheduled = Kinds /\ DOMAIN added = Kinds
  BY DEF StoreInv, PerDesign
<1>2. Combined(k) = Joined(View(k))
  BY DEF View, Joined, Combined
<1>3. PICK r : r = Combined(k)
  OBVIOUS
<1>4. /\ scheduled' = [scheduled EXCEPT ![k] = {}]
      /\ added' = [added EXCEPT ![k] = NoResults]
      /\ saved' = [saved EXCEPT ![k] = r]
      /\ store' = store
  BY <1>3 DEF EndOfSlice, Return, Forget
<1>5. View(k)'.scheduled = {} /\ DOMAIN View(k)'.added = {} /\ View(k)'.saved = r
  BY <1>1, <1>4 DEF View, NoResults
<1>6. \A j \in Kinds \ {k} : Rests(View(j), View(j)')
  BY <1>1, <1>4 DEF Rests, View
<1>. QED BY <1>2, <1>3, <1>4, <1>5, <1>6 DEF Slides, Hands

\* A call starts, or raises at once.
LEMMA ResumePlans ==
  ASSUME StoreInv, NEW k \in Kinds, NEW limit \in Slices, Resume(k, limit)
  PROVE  Slides(k)
<1>1. CASE Raise(k, "time_exceeded")
  BY <1>1, RaiseDrops
<1>2. CASE ~ Raise(k, "time_exceeded")
  <2>1. DOMAIN saved = Kinds /\ DOMAIN scheduled = Kinds /\ DOMAIN added = Kinds
    BY DEF StoreInv, PerDesign
  <2>2. PICK s : s = Schedule(k, limit)
    OBVIOUS
  <2>3. /\ scheduled' = [scheduled EXCEPT ![k] = s]
        /\ added' = [added EXCEPT ![k] = NoResults]
        /\ saved' = saved
    BY <1>2, <2>2 DEF Resume
  <2>4. View(k)'.scheduled = s /\ DOMAIN View(k)'.added = {} /\ View(k)'.saved = View(k).saved
    BY <2>1, <2>3 DEF View, NoResults
  <2>5. s = FirstOf({n \in DOMAIN Matrix[k] : Matrix[k][n] \notin DOMAIN View(k).saved}, limit)
    BY <2>2 DEF Schedule, View
  <2>6. \A j \in Kinds \ {k} : Rests(View(j), View(j)')
    BY <2>1, <2>3 DEF Rests, View
  <2>. QED BY <2>3, <2>4, <2>5, <2>6 DEF Slides, Plans
<1>. QED BY <1>1, <1>2

\* While an assignment is under way, the time of the results was not up.
LEMMA BegunInTime ==
  ASSUME HonestInv, NEW k \in Kinds, pc[k] \in Underway
  PROVE  Elapsed(Joined(View(k))) < MaxSeconds
<1>1. PICK c : c = View(k)
  OBVIOUS
<1>2. c.place = pc[k]
  BY <1>1 DEF View
<1>3. Honest(k, c)
  BY <1>1 DEF HonestInv
<1>4. CASE pc[k] = "execute"
  <2>1. Elapsed(Joined(c)) \in Int /\ c.spent \in Int /\ MaxSeconds \in Nat
    BY <1>3, WellFormedFacts, EvaluationAssumption DEF Honest, WellFormed
  <2>2. Elapsed(Joined(c)) <= c.spent /\ ~ (c.spent >= MaxSeconds)
    BY <1>2, <1>3, <1>4 DEF Honest, Account, OverTime
  <2>. QED BY <1>1, <2>1, <2>2
<1>5. CASE pc[k] \in {"put", "create", "write"}
  BY <1>1, <1>2, <1>3, <1>5 DEF Honest, Account
<1>. QED BY <1>4, <1>5 DEF Underway

\* A result joins the slice.
LEMMA AddGains ==
  ASSUME StoreInv, HonestInv, NEW k \in Kinds, NEW o, NEW seconds,
         AddResult(k, o, seconds), pc[k] \in Underway, o.elapsed \in Nat
  PROVE  Slides(k)
<1>1. DOMAIN saved = Kinds /\ DOMAIN scheduled = Kinds /\ DOMAIN added = Kinds
  BY DEF StoreInv, PerDesign
<1>2. PICK n \in scheduled[k] :
        /\ \A i \in scheduled[k] : n <= i
        /\ added' = [added EXCEPT ![k] = With(added[k], Matrix[k][n], o)]
        /\ scheduled' = [scheduled EXCEPT ![k] = scheduled[k] \ {n}]
  BY DEF AddResult, IsNext
<1>3. saved' = saved
  BY DEF AddResult
<1>4. Gains(k, View(k), View(k)', n, o)
  <2>1. Elapsed(Joined(View(k))) < MaxSeconds
    BY BegunInTime
  <2>2. /\ View(k)'.scheduled = View(k).scheduled \ {n} /\ View(k)'.saved = View(k).saved
        /\ View(k)'.added = With(View(k).added, Matrix[k][n], o)
        /\ n \in View(k).scheduled /\ \A i \in View(k).scheduled : n <= i
    BY <1>1, <1>2, <1>3 DEF View
  <2>. QED BY <2>1, <2>2 DEF Gains
<1>5. \A j \in Kinds \ {k} : Rests(View(j), View(j)')
  BY <1>1, <1>2, <1>3 DEF Rests, View
<1>. QED BY <1>3, <1>4, <1>5 DEF Slides

\* The results and the slices stay as they are.
LEMMA StaysSlides ==
  ASSUME NEW k \in Kinds, UNCHANGED <<saved, added, scheduled>>
  PROVE  Slides(k)
BY DEF Slides, Rests, View

\* A payload is stored, or was stored before.
LEMMA StoredGains ==
  ASSUME StoreInv, HonestInv, NEW k \in Kinds, NEW seconds, pc[k] \in Underway,
         AddResult(k, outcome[k], spent[k] + seconds)
  PROVE  Slides(k)
<1>1. PICK o, total : o = outcome[k] /\ total = spent[k] + seconds
  OBVIOUS
<1>2. AddResult(k, o, total) /\ o.elapsed \in Nat
  BY <1>1, SpentType
<1>. QED BY <1>2, AddGains

\* A file that is there is compared.
LEMMA CompareGains ==
  ASSUME StoreInv, HonestInv, NEW k \in Kinds, NEW seconds, pc[k] \in Underway,
         Compare(k, seconds)
  PROVE  Slides(k)
<1>1. CASE store[outcome[k].payload] = "whole"
  BY <1>1, StoredGains DEF Compare
<1>2. CASE store[outcome[k].payload] # "whole"
  BY <1>2, RaiseDrops DEF Compare
<1>. QED BY <1>1, <1>2

\* An executor returns.
LEMMA ExecuteSlides ==
  ASSUME StoreInv, HonestInv, NEW k \in Kinds, NEW o \in Outcomes, Execute(k, o)
  PROVE  Slides(k)
<1>1. o.elapsed \in Nat /\ pc[k] \in Underway
  BY EvaluationAssumption DEF Outcomes, Execute, Underway
<1>2. CASE o.payload = NoPayload
  <2>1. PICK total : total = spent[k] + o.elapsed
    OBVIOUS
  <2>2. AddResult(k, o, total)
    BY <1>2, <2>1 DEF Execute
  <2>. QED BY <1>1, <2>2, AddGains
<1>3. CASE o.payload # NoPayload /\ o.payload = EmptyPayload
  BY <1>3, RaiseDrops DEF Execute
<1>4. CASE o.payload # NoPayload /\ o.payload # EmptyPayload
  <2>1. UNCHANGED <<saved, added, scheduled>>
    BY <1>4 DEF Execute
  <2>. QED BY <2>1, StaysSlides
<1>. QED BY <1>2, <1>3, <1>4

\* Every step moves one evaluation.
LEMMA StepSlides == StoreInv /\ HonestInv /\ Next => \E k \in Kinds : Slides(k)
<1>. SUFFICES ASSUME StoreInv, HonestInv, Next PROVE \E k \in Kinds : Slides(k)
  OBVIOUS
<1>1. PICK k \in Kinds : \/ \E limit \in Slices : Resume(k, limit)
                         \/ RunStep(k) \/ ExecutorStep(k) \/ Crash(k)
  BY DEF Next
<1>2. CASE \E limit \in Slices : Resume(k, limit)
  BY <1>2, ResumePlans
<1>3. CASE RunStep(k)
  <2>1. CASE EndOfSlice(k)
    BY <2>1, ReturnHands
  <2>2. CASE Start(k)
    BY <2>2, StaysSlides DEF Start
  <2>3. ASSUME NEW seconds \in WriteTimes, Put(k, seconds) \/ Create(k, seconds)
        PROVE  Slides(k)
    <3>1. pc[k] \in Underway
      BY <2>3 DEF Put, Create, Underway
    <3>2. CASE outcome[k].payload \in DOMAIN store
      BY <2>3, <3>1, <3>2, CompareGains DEF Put, Create
    <3>3. CASE outcome[k].payload \notin DOMAIN store
      BY <2>3, <3>3, StaysSlides DEF Put, Create, local
    <3>. QED BY <3>2, <3>3
  <2>4. ASSUME NEW seconds \in WriteTimes, Write(k, seconds)
        PROVE  Slides(k)
    <3>1. pc[k] \in Underway
      BY <2>4 DEF Write, Underway
    <3>2. AddResult(k, outcome[k], spent[k] + seconds)
      BY <2>4 DEF Write
    <3>. QED BY <3>1, <3>2, StoredGains
  <2>. QED BY <1>3, <2>1, <2>2, <2>3, <2>4 DEF RunStep
<1>4. CASE ExecutorStep(k)
  <2>1. CASE DeclareModelCall(k)
    BY <2>1, RaiseDrops DEF DeclareModelCall
  <2>. QED BY <1>4, <2>1, ExecuteSlides DEF ExecutorStep
<1>5. CASE Crash(k)
  BY <1>5, RaiseDrops DEF Crash
<1>. QED BY <1>1, <1>2, <1>3, <1>4, <1>5

\* Results stay a first part of the matrix.
LEMMA StepOrdered == StoreInv /\ HonestInv /\ OrderedInv /\ [Next]_vars => OrderedInv'
<1>. SUFFICES ASSUME StoreInv, HonestInv, OrderedInv, [Next]_vars PROVE OrderedInv'
  OBVIOUS
<1>. SUFFICES ASSUME NEW j \in Kinds PROVE InOrder(j, View(j)')
  BY DEF OrderedInv
<1>1. CASE UNCHANGED vars
  <2>1. Rests(View(j), View(j)')
    BY <1>1 DEF vars, Rests, View
  <2>. QED BY <2>1, RestsKeepOrder DEF OrderedInv
<1>2. CASE Next
  <2>1. PICK k \in Kinds : Slides(k)
    BY <1>2, StepSlides
  <2>2. PICK c, d : c = View(j) /\ d = View(j)'
    OBVIOUS
  <2>3. InOrder(j, c) /\ WellFormed(j, c)
    BY <2>2 DEF OrderedInv, HonestInv, Honest
  <2>4. CASE j # k
    <3>1. Rests(c, d)
      BY <2>1, <2>2, <2>4 DEF Slides
    <3>. QED BY <2>2, <2>3, <3>1, RestsKeepOrder
  <2>5. CASE j = k
    <3>1. \/ Drops(c, d) \/ Rests(c, d) \/ Hands(c, d)
          \/ \E limit \in Slices : Plans(j, c, d, limit)
          \/ \E n, o : o.elapsed \in Nat /\ Gains(j, c, d, n, o)
      BY <2>1, <2>2, <2>5 DEF Slides
    <3>2. \A limit \in Slices : limit \in Nat
      BY EvaluationAssumption
    <3>3. InOrder(j, d)
      BY <2>3, <3>1, <3>2, DropsKeepOrder, RestsKeepOrder, HandsKeepOrder, PlansKeepOrder,
         GainsKeepOrder
    <3>. QED BY <2>2, <3>3
  <2>. QED BY <2>4, <2>5
<1>. QED BY <1>1, <1>2

\* There are no results at first.
LEMMA InitOrdered == Init => OrderedInv
<1>. SUFFICES ASSUME Init, NEW k \in Kinds PROVE InOrder(k, View(k))
  BY DEF OrderedInv
<1>1. PICK c : c = View(k)
  OBVIOUS
<1>2. DOMAIN c.saved = {} /\ DOMAIN c.added = {} /\ c.scheduled = {}
  BY <1>1 DEF Init, View, NoResults
<1>3. DOMAIN Joined(c) = {}
  BY <1>2 DEF Joined
<1>4. FirstIds(k, 0) = {}
  BY DEF FirstIds
<1>5. Reached(k, c, 0, 0, 0) /\ 0 \in 0 .. Len(Matrix[k])
  BY <1>2, <1>3, <1>4, MatrixFacts DEF Reached
<1>. QED BY <1>1, <1>5 DEF InOrder

\* The ledger adds up times as the runner does.
LEMMA LedgerTime ==
  ASSUME NEW results, NEW ids
  PROVE  Ledger!Time(results, ids) = TimeOf(results, ids)
<1>1. \A f : Ledger!SumFunctionOnSet(f, ids) = SumFunctionOnSet(f, ids)
  BY DEF Ledger!SumFunctionOnSet, Ledger!FoldFunctionOnSet, Ledger!MapThenFoldSet,
         SumFunctionOnSet, FoldFunctionOnSet, MapThenFoldSet
<1>. QED BY <1>1 DEF Ledger!Time, TimeOf, ElapsedOf

\* A call that returns reports the next results of its design.
LEMMA HandsReport ==
  ASSUME StoreInv, HonestInv, OrderedInv, StoreInv', NEW k \in Kinds, Hands(View(k), View(k)'),
         saved' = [saved EXCEPT ![k] = Joined(View(k))], UNCHANGED store
  PROVE  Ledger!Report(k)
<1>1. PICK c : c = View(k)
  OBVIOUS
<1>2. PICK r : r = Joined(c)
  OBVIOUS
<1>3. PICK m, n, l \in 0 .. Len(Matrix[k]) : Reached(k, c, m, n, l)
  BY <1>1 DEF OrderedInv, InOrder
<1>4. /\ DOMAIN saved = Kinds /\ saved' = [saved EXCEPT ![k] = r] /\ saved'[k] = r
      /\ c.saved = saved[k]
  BY <1>1, <1>2 DEF StoreInv, PerDesign, View
<1>5. \A i : Ledger!Until(k, i) = FirstIds(k, i)
  BY DEF Ledger!Until, FirstIds
<1>6. \A id \in DOMAIN saved[k] : r[id] = saved[k][id]
  <2>1. DOMAIN c.added \cap DOMAIN c.saved = {}
    BY <1>1 DEF HonestInv, Honest, WellFormed
  <2>2. \A id \in DOMAIN c.saved : Joined(c)[id] = c.saved[id]
    BY <2>1 DEF Joined
  <2>. QED BY <1>2, <1>4, <2>2
<1>7. \A id \in DOMAIN r : r[id].payload \in {p \in DOMAIN store : store[p] = "whole"} \cup {NoPayload}
  BY <1>4 DEF StoreInv, Verifiable
<1>8. m < n => Ledger!Time(r, Ledger!Until(k, n - 1)) < MaxSeconds
  BY <1>2, <1>3, <1>5, LedgerTime DEF Reached
<1>9. /\ m <= n /\ DOMAIN saved[k] = Ledger!Until(k, m) /\ DOMAIN r = Ledger!Until(k, n)
  BY <1>2, <1>3, <1>4, <1>5 DEF Reached
<1>. QED BY <1>4, <1>6, <1>7, <1>8, <1>9 DEF Ledger!Report

\* Whoever analyses the results of evaluations, whatever errors and deaths their calls met
\* and whatever else was stored meanwhile, has those of the first assignments of each
\* matrix; they stay, their bytes are there, and none was begun when the time was up: every
\* step is one of the ledger or unseen (evaluation/runner.py:149-163, 326-411).
THEOREM LedgerRefinement == Spec => ImplementsEvaluationLedger
<1>1. Init => StoreInv /\ HonestInv /\ OrderedInv
  BY InitInv, InitHonest, InitOrdered
<1>2. StoreInv /\ HonestInv /\ OrderedInv /\ [Next]_vars =>
        (StoreInv /\ HonestInv /\ OrderedInv)'
  BY StepInv, StepHonest, StepOrdered
<1>3. Init => Ledger!Init
  <2>. SUFFICES ASSUME Init PROVE Ledger!Init
    OBVIOUS
  <2>1. DOMAIN Matrix = Kinds
    BY DEF Matrix
  <2>2. DOMAIN saved = Kinds /\ (\A k \in Kinds : DOMAIN saved[k] = {}) /\ DOMAIN store = {}
    BY DEF Init, NoResults
  <2>. QED BY <2>1, <2>2 DEF Ledger!Init
<1>4. ASSUME StoreInv, HonestInv, OrderedInv, [Next]_vars
      PROVE  [Ledger!Next]_<<saved, {p \in DOMAIN store : store[p] = "whole"}>>
  <2>1. StoreInv' /\ StoreGrows
    BY <1>4, StepInv
  <2>2. CASE UNCHANGED vars
    BY <2>2 DEF vars
  <2>3. CASE Next
    <3>1. PICK k \in Kinds : Slides(k)
      BY <1>4, <2>3, StepSlides
    <3>2. CASE saved' = saved
      <4>1. Ledger!Keep
        BY <2>1, <3>2 DEF Ledger!Keep, StoreGrows
      <4>. QED BY <4>1 DEF Ledger!Next
    <3>3. CASE saved' # saved
      <4>1. Ledger!Report(k)
        BY <1>4, <2>1, <3>1, <3>3, HandsReport DEF Slides
      <4>2. k \in DOMAIN Matrix
        BY DEF Matrix
      <4>. QED BY <4>1, <4>2 DEF Ledger!Next
    <3>. QED BY <3>2, <3>3
  <2>. QED BY <1>4, <2>2, <2>3
<1>. QED BY <1>1, <1>2, <1>3, <1>4, PTL DEF Spec, ImplementsEvaluationLedger, Ledger!Spec

(***************************************************************************)
(* Holm's correction.                                                      *)
(***************************************************************************)
\* What Max and Min return.
LEMMA MaxIs ==
  ASSUME NEW S, S \subseteq Int, NEW x \in S, \A y \in S : y <= x
  PROVE  Max(S) = x
<1>1. Max(S) \in S /\ \A y \in S : Max(S) >= y
  BY DEF Max
<1>2. Max(S) \in Int /\ x \in Int /\ Max(S) <= x /\ x <= Max(S)
  BY <1>1
<1> QED BY <1>2

\* The same for the least member.
LEMMA MinIs ==
  ASSUME NEW S, S \subseteq Int, NEW x \in S, \A y \in S : x <= y
  PROVE  Min(S) = x
<1>1. Min(S) \in S /\ \A y \in S : Min(S) <= y
  BY DEF Min
<1>2. Min(S) \in Int /\ x \in Int /\ Min(S) <= x /\ x <= Min(S)
  BY <1>1
<1> QED BY <1>2

\* A nonempty set of numbers up to n has a greatest member.
LEMMA Greatest ==
  ASSUME NEW n \in Nat, NEW S, S \subseteq 0..n, S # {}
  PROVE  \E x \in S : \A y \in S : y <= x
<1> DEFINE T == {n - x : x \in S}
<1>1. T \subseteq Nat /\ T # {}
  <2>1. \A x \in S : n - x \in Nat
    OBVIOUS
  <2> QED BY <2>1
<1> HIDE DEF T
<1>2. PICK m \in T : \A k \in T : m <= k
  BY <1>1, Least
<1>3. PICK x \in S : m = n - x
  BY DEF T
<1>4. \A y \in S : n - y \in T
  BY DEF T
<1>5. ASSUME NEW y \in S
      PROVE  y <= x
  <2>1. n - x <= n - y
    BY <1>2, <1>3, <1>4
  <2> QED BY <2>1
<1> QED BY <1>5

Reported == [Hypotheses -> 0..Scale \cup {NA}]

\* The tested hypotheses that holm_adjust ranks before g.
Earlier(g) ==
  {k \in Hypotheses : pvalues[k] # NA /\ (pvalues[k] < pvalues[g] \/ (pvalues[k] = pvalues[g] /\ k < g))}

\* What holm_adjust compares at g.
Step(g) == CappedProduct(Scale, Cardinality(Hypotheses) - Cardinality(Earlier(g)), pvalues[g])

\* holm_adjust is the greatest of these up to h.
LEMMA AdjustedIs ==
  ASSUME pvalues \in Reported, NEW h \in Hypotheses, pvalues[h] # NA
  PROVE  Adjusted(h) = Max({Step(g) : g \in Earlier(h) \cup {h}})
BY DEF Adjusted, holm_adjust, Step, Earlier, Reported

\* A tested hypothesis' p-value is a number.
LEMMA TestedFacts ==
  ASSUME pvalues \in Reported, NEW h \in Hypotheses, pvalues[h] # NA
  PROVE  pvalues[h] \in 0..Scale /\ pvalues[h] \in Nat /\ h \in Int /\ PFor(h) = pvalues[h]
BY FamilyAssumption DEF Reported, PFor

\* A sub-family's Bonferroni p-value is decided by its member with the least p-value.
LEMMA BonferroniIs ==
  ASSUME pvalues \in Reported, NEW family, family \subseteq Hypotheses, NEW g \in family, pvalues[g] # NA,
         \A k \in family : pvalues[k] # NA => pvalues[g] <= pvalues[k]
  PROVE  Bonferroni(family) = CappedProduct(Scale, Cardinality(family), pvalues[g])
<1> DEFINE S == {PFor(k) : k \in family}
<1>1. \A k \in family : PFor(k) \in Nat /\ pvalues[g] <= PFor(k)
  BY FamilyAssumption, TestedFacts DEF Reported, PFor
<1>2. S \subseteq Int /\ pvalues[g] \in S /\ \A y \in S : pvalues[g] <= y
  BY <1>1, TestedFacts
<1>3. Min(S) = pvalues[g]
  <2> HIDE DEF S
  <2> QED BY <1>2, MinIs
<1> QED BY <1>3 DEF Bonferroni

\* Ranking is a total order.
LEMMA RankFacts ==
  ASSUME pvalues \in Reported, NEW g \in Hypotheses, pvalues[g] # NA
  PROVE  /\ IsFiniteSet(Earlier(g)) /\ Earlier(g) \subseteq Hypotheses /\ g \notin Earlier(g)
         /\ \A k \in Earlier(g) : Earlier(k) \subseteq Earlier(g)
         /\ \A k \in Hypotheses : pvalues[k] # NA => k = g \/ k \in Earlier(g) \/ g \in Earlier(k)
         /\ \A k \in Hypotheses : pvalues[k] # NA /\ k \notin Earlier(g) => pvalues[g] <= pvalues[k]
         /\ Cardinality(Earlier(g)) \in Nat
         /\ Cardinality(Earlier(g)) < Cardinality(Hypotheses)
<1>1. Earlier(g) \subseteq Hypotheses /\ g \notin Earlier(g)
  BY TestedFacts DEF Earlier
<1>2. IsFiniteSet(Earlier(g)) /\ Cardinality(Earlier(g)) < Cardinality(Hypotheses)
  BY <1>1, FamilyAssumption, FS_Subset, FS_CardinalityType
<1>3. ASSUME NEW k \in Hypotheses, pvalues[k] # NA
      PROVE  /\ k = g \/ k \in Earlier(g) \/ g \in Earlier(k)
             /\ k \notin Earlier(g) => pvalues[g] <= pvalues[k]
  <2>1. pvalues[k] \in Nat /\ pvalues[g] \in Nat /\ k \in Int /\ g \in Int
    BY <1>3, TestedFacts
  <2> QED BY <1>3, <2>1 DEF Earlier
<1>4. ASSUME NEW k \in Earlier(g), NEW l \in Earlier(k)
      PROVE  l \in Earlier(g)
  <2>1. /\ k \in Hypotheses /\ pvalues[k] # NA /\ (pvalues[k] < pvalues[g] \/ (pvalues[k] = pvalues[g] /\ k < g))
        /\ l \in Hypotheses /\ pvalues[l] # NA /\ (pvalues[l] < pvalues[k] \/ (pvalues[l] = pvalues[k] /\ l < k))
    BY <1>4 DEF Earlier
  <2>2. pvalues[k] \in Nat /\ pvalues[g] \in Nat /\ pvalues[l] \in Nat /\ k \in Int /\ g \in Int /\ l \in Int
    BY <2>1, TestedFacts
  <2>3. pvalues[l] < pvalues[g] \/ (pvalues[l] = pvalues[g] /\ l < g)
    BY <2>1, <2>2
  <2> QED BY <2>1, <2>3 DEF Earlier
<1> QED BY <1>1, <1>2, <1>3, <1>4, FS_CardinalityType

\* The tested hypotheses of a sub-family have a first one.
LEMMA EarliestOf ==
  ASSUME pvalues \in Reported, NEW family, family \subseteq Hypotheses, NEW h \in family, pvalues[h] # NA
  PROVE  \E g \in family : pvalues[g] # NA /\ g \in Earlier(h) \cup {h} /\ family \cap Earlier(g) = {}
<1> DEFINE T == {Earlier(k) : k \in {l \in family : pvalues[l] # NA}}
<1>1. T # {} /\ \A s \in T : IsFiniteSet(s)
  BY RankFacts
<1> HIDE DEF T
<1>2. PICK s \in T : \A t \in T : Cardinality(s) <= Cardinality(t)
  BY <1>1, Smallest
<1>3. PICK g \in family : pvalues[g] # NA /\ s = Earlier(g)
  BY <1>2 DEF T
<1>4. ASSUME NEW k \in family, k \in Earlier(g)
      PROVE  FALSE
  <2>1. pvalues[k] # NA
    BY <1>4 DEF Earlier
  <2>2. Earlier(k) \subseteq Earlier(g) /\ k \notin Earlier(k) /\ IsFiniteSet(Earlier(g))
    BY <1>3, <1>4, <2>1, RankFacts
  <2>3. Cardinality(Earlier(k)) < Cardinality(Earlier(g))
    BY <1>4, <2>2, FS_Subset, FS_CardinalityType
  <2>4. Earlier(k) \in T
    BY <2>1 DEF T
  <2>5. Cardinality(Earlier(k)) \in Nat /\ Cardinality(Earlier(g)) \in Nat
    BY <1>3, <2>1, RankFacts
  <2> QED BY <1>2, <1>3, <2>3, <2>4, <2>5
<1>5. g \in Earlier(h) \cup {h}
  <2>1. h = g \/ h \in Earlier(g) \/ g \in Earlier(h)
    BY <1>3, RankFacts
  <2> QED BY <1>4, <2>1
<1> QED BY <1>3, <1>4, <1>5

\* A product grows with its factor, and so does the capped one.
LEMMA CappedGrows ==
  ASSUME NEW a \in Nat, NEW b \in Nat, a <= b, NEW v \in Nat
  PROVE  /\ CappedProduct(Scale, a, v) <= CappedProduct(Scale, b, v)
         /\ CappedProduct(Scale, a, v) \in 0..Scale
<1>1. PICK d \in Nat : b = a + d
  <2> WITNESS b - a \in Nat
  <2> QED OBVIOUS
<1>2. a * v \in Nat /\ d * v \in Nat /\ b * v \in Nat
  OBVIOUS
<1>3. b * v = a * v + d * v
  BY <1>1
<1>4. Scale \in Nat
  BY FamilyAssumption
<1> QED BY <1>2, <1>3, <1>4 DEF CappedProduct

\* The two maxima are over sets of numbers up to Scale that bound each other.
LEMMA HolmIsClosed ==
  ASSUME pvalues \in Reported, NEW h \in Hypotheses, pvalues[h] # NA
  PROVE  Adjusted(h) =
           Max({Bonferroni(family) : family \in {f \in SUBSET Hypotheses : h \in f}})
<1> DEFINE steps == {Step(g) : g \in Earlier(h) \cup {h}}
           tests == {Bonferroni(family) : family \in {f \in SUBSET Hypotheses : h \in f}}
           n == Cardinality(Hypotheses)
<1>1. n \in Nat /\ IsFiniteSet(Hypotheses) /\ Scale \in Nat
  BY FamilyAssumption, FS_CardinalityType
<1>2. ASSUME NEW g \in Earlier(h) \cup {h}
      PROVE  g \in Hypotheses /\ pvalues[g] # NA /\ pvalues[g] \in Nat
  BY TestedFacts DEF Earlier
<1>3. ASSUME NEW g \in Earlier(h) \cup {h}
      PROVE  Step(g) \in 0..Scale
  <2>1. Cardinality(Earlier(g)) \in Nat /\ Cardinality(Earlier(g)) < n
    BY <1>2, RankFacts
  <2>2. n - Cardinality(Earlier(g)) \in Nat
    BY <1>1, <2>1
  <2>3. PICK a, v : a = n - Cardinality(Earlier(g)) /\ v = pvalues[g]
    OBVIOUS
  <2>4. a \in Nat /\ v \in Nat /\ a <= a
    BY <1>2, <2>2, <2>3
  <2>5. CappedProduct(Scale, a, v) \in 0..Scale
    BY <2>4, CappedGrows
  <2> QED BY <2>3, <2>5 DEF Step
<1>4. ASSUME NEW family, family \subseteq Hypotheses, h \in family
      PROVE  \E g \in Earlier(h) \cup {h} : Bonferroni(family) \in 0..Scale /\ Bonferroni(family) <= Step(g)
  <2>1. PICK g \in family : /\ pvalues[g] # NA /\ g \in Earlier(h) \cup {h}
                            /\ family \cap Earlier(g) = {}
    BY <1>4, EarliestOf
  <2>2. \A k \in family : pvalues[k] # NA => pvalues[g] <= pvalues[k]
    BY <1>4, <2>1, RankFacts
  <2>3. Bonferroni(family) = CappedProduct(Scale, Cardinality(family), pvalues[g])
    BY <1>4, <2>1, <2>2, BonferroniIs
  <2>4. Cardinality(family) \in Nat /\ Cardinality(family) <= n - Cardinality(Earlier(g))
    <3>1. IsFiniteSet(Earlier(g)) /\ Earlier(g) \subseteq Hypotheses
      BY <1>2, <2>1, RankFacts
    <3>2. /\ IsFiniteSet(Hypotheses \ Earlier(g))
          /\ Cardinality(Hypotheses \ Earlier(g)) = n - Cardinality(Earlier(g))
      <4>1. Hypotheses \cap Earlier(g) = Earlier(g)
        BY <3>1
      <4> QED BY <1>1, <4>1, FS_Difference
    <3>3. family \subseteq Hypotheses \ Earlier(g)
      BY <1>4, <2>1
    <3> QED BY <3>2, <3>3, FS_Subset, FS_CardinalityType
  <2>5. n - Cardinality(Earlier(g)) \in Nat /\ pvalues[g] \in Nat
    <3>1. Cardinality(Earlier(g)) \in Nat /\ Cardinality(Earlier(g)) < n
      BY <1>2, <2>1, RankFacts
    <3> QED BY <1>1, <1>2, <2>1, <3>1
  <2> QED BY <2>1, <2>3, <2>4, <2>5, CappedGrows DEF Step
<1>5. ASSUME NEW g \in Earlier(h) \cup {h}
      PROVE  \E family \in {f \in SUBSET Hypotheses : h \in f} : Bonferroni(family) = Step(g)
  <2> DEFINE family == Hypotheses \ Earlier(g)
  <2>1. pvalues[g] # NA /\ g \in Hypotheses
    BY <1>2
  <2>2. h \in family /\ g \in family
    <3>1. g \notin Earlier(g) /\ h \notin Earlier(h)
      BY <2>1, RankFacts
    <3>2. g \in Earlier(h) => Earlier(g) \subseteq Earlier(h)
      BY RankFacts
    <3> QED BY <2>1, <3>1, <3>2
  <2>3. \A k \in family : pvalues[k] # NA => pvalues[g] <= pvalues[k]
    BY <2>1, RankFacts
  <2>4. Bonferroni(family) = CappedProduct(Scale, Cardinality(family), pvalues[g])
    BY <2>1, <2>2, <2>3, BonferroniIs
  <2>5. Cardinality(family) = n - Cardinality(Earlier(g))
    <3>1. Hypotheses \cap Earlier(g) = Earlier(g)
      BY <2>1, RankFacts
    <3> QED BY <1>1, <3>1, FS_Difference
  <2>6. Bonferroni(family) = Step(g)
    BY <2>4, <2>5 DEF Step
  <2> QED BY <2>2, <2>6
<1>6. PICK x \in steps : \A y \in steps : y <= x
  <2>1. steps \subseteq 0..Scale /\ steps # {}
    BY <1>3
  <2> HIDE DEF steps
  <2> QED BY <1>1, <2>1, Greatest
<1>7. x \in tests
  <2>1. PICK g \in Earlier(h) \cup {h} : x = Step(g)
    BY <1>6
  <2> QED BY <1>5, <2>1
<1>8. ASSUME NEW y \in tests
      PROVE  y \in Int /\ y <= x
  <2>1. PICK family \in {f \in SUBSET Hypotheses : h \in f} : y = Bonferroni(family)
    OBVIOUS
  <2>2. PICK g \in Earlier(h) \cup {h} : y \in 0..Scale /\ y <= Step(g)
    BY <1>4, <2>1
  <2>3. Step(g) <= x /\ Step(g) \in 0..Scale /\ x \in 0..Scale
    BY <1>3, <1>6
  <2> QED BY <1>1, <2>2, <2>3
<1>9. steps \subseteq Int
  BY <1>1, <1>3
<1>10. Max(steps) = x
  <2> HIDE DEF steps
  <2> QED BY <1>6, <1>9, MaxIs
<1>11. Max(tests) = x
  <2> HIDE DEF tests
  <2> QED BY <1>7, <1>8, MaxIs
<1> QED BY <1>10, <1>11, AdjustedIs

\* A p-value that is reported lies between 0 and 1; the others are missing.
LEMMA ReportedHolds == RulesSpec => [](pvalues \in Reported)
<1>1. RulesInit => pvalues \in Reported
  BY DEF RulesInit, FamilyInit, Reported
<1>2. pvalues \in Reported /\ [RulesNext]_rulesVars => (pvalues \in Reported)'
  <2> SUFFICES ASSUME pvalues \in Reported, [RulesNext]_rulesVars PROVE (pvalues \in Reported)'
    OBVIOUS
  <2>1. CASE UNCHANGED pvalues
    BY <2>1 DEF Reported
  <2>2. CASE FamilyNext
    <3>1. PICK h \in Hypotheses, value \in PValues : pvalues' = [pvalues EXCEPT ![h] = value]
      BY <2>2 DEF FamilyNext, Report
    <3>2. value \in 0..Scale
      BY FamilyAssumption
    <3> QED BY <3>1, <3>2 DEF Reported
  <2> QED BY <2>1, <2>2 DEF RulesNext, rulesVars
<1> QED BY <1>1, <1>2, PTL DEF RulesSpec

(* Holm's step-down correction is the closed Bonferroni test, whatever the *)
(* family, the order of the reports and the p-values: H1-H6 with all of    *)
(* their p-values are one instance.                                        *)
THEOREM HolmStaysClosed == RulesSpec => []HolmIsClosedTest
<1>1. pvalues \in Reported => HolmIsClosedTest
  BY HolmIsClosed DEF HolmIsClosedTest
<1> QED BY <1>1, ReportedHolds, PTL

(***************************************************************************)
(* The decision metrics.                                                   *)
(***************************************************************************)
\* What is recorded came from the candidates and was admitted by its model.
RecordedInv ==
  /\ actions \in Seq(ActionCandidates)
  /\ \A i \in DOMAIN actions : ActionAdmitted(actions[i])
  /\ retrievals \in Seq(RetrievalCandidates)
  /\ probes \in Seq(ProbeCandidates)
  /\ language \in Seq(LanguageCandidates)

\* Positions are finite in number.
LEMMA Positions ==
  ASSUME NEW T, NEW s \in Seq(T)
  PROVE  IsFiniteSet(DOMAIN s) /\ \A i \in DOMAIN s : s[i] \in T
<1>1. DOMAIN s = 1..Len(s) /\ Len(s) \in Nat
  OBVIOUS
<1>2. IsFiniteSet(1..Len(s))
  BY <1>1, FS_Interval
<1> QED BY <1>1, <1>2

\* A part of a nonempty whole is a share between 0 and 1.
LEMMA RatioFacts ==
  ASSUME NEW valid, IsFiniteSet(valid), NEW hits, hits \subseteq valid, NEW missing,
         NEW reason \in MissingReason
  PROVE  LET r == Ratio(Fraction(Cardinality(hits), 1), Cardinality(valid), missing, reason)
         IN /\ InRange(r)
            /\ r.value = IF valid = {} THEN NA ELSE [num |-> Cardinality(hits), den |-> Cardinality(valid)]
            /\ (r.value = NA) = (valid = {})
            /\ valid # {} => r.value.num = Cardinality(hits)
            /\ Cardinality(hits) \in Nat /\ (Cardinality(hits) = 0) = (hits = {})
<1> DEFINE r == Ratio(Fraction(Cardinality(hits), 1), Cardinality(valid), missing, reason)
           h == Cardinality(hits)
           v == Cardinality(valid)
<1>1. IsFiniteSet(valid) /\ IsFiniteSet(hits)
  BY FS_Subset
<1>2. /\ h \in Nat /\ v \in Nat /\ h <= v
      /\ (h = 0) = (hits = {}) /\ (v = 0) = (valid = {})
  BY <1>1, FS_Subset, FS_CardinalityType, FS_EmptySet
<1>3. NA # reason
  BY ObservationAssumption
<1> HIDE DEF h, v
<1>4. CASE valid = {}
  <2>1. r.value = NA /\ r.reason # NA
    BY <1>2, <1>3, <1>4 DEF Ratio, NotAvailable, v
  <2> QED BY <1>2, <1>4, <2>1 DEF InRange, h
<1>5. CASE valid # {}
  <2>1. v # 0 /\ v > 0
    BY <1>2, <1>5
  <2>2. r.value = [num |-> h, den |-> 1 * v] /\ r.reason = NA
    BY <2>1 DEF Ratio, Available, Fraction, h, v
  <2>3. 1 * v = v
    BY <1>2
  <2>4. [num |-> h, den |-> v] # NA
    BY <1>2, ObservationAssumption
  <2>5. Leq(Fraction(0, 1), r.value) /\ Leq(r.value, Fraction(1, 1))
    BY <1>2, <2>1, <2>2, <2>3 DEF Leq, Fraction
  <2> QED BY <1>2, <1>5, <2>2, <2>3, <2>4, <2>5 DEF InRange, h, v
<1> QED BY <1>4, <1>5

\* The same for what a portion reports: the ineligible and the invalid only matter to its counts.
LEMMA PortionFacts ==
  ASSUME NEW eligible, IsFiniteSet(eligible), NEW valid, valid \subseteq eligible,
         NEW hits, hits \subseteq valid, NEW reason \in MissingReason
  PROVE  LET r == Portion(hits, valid, eligible, reason)
         IN /\ InRange(r)
            /\ r.value = IF valid = {} THEN NA ELSE [num |-> Cardinality(hits), den |-> Cardinality(valid)]
            /\ (r.value = NA) = (valid = {})
            /\ valid # {} => r.value.num = Cardinality(hits)
            /\ Cardinality(hits) \in Nat /\ (Cardinality(hits) = 0) = (hits = {})
<1>1. PICK why : why = IF eligible = {} THEN "no_eligible_decisions" ELSE reason
  OBVIOUS
<1>2. why \in MissingReason
  BY <1>1 DEF MissingReason
<1>3. IsFiniteSet(valid)
  BY FS_Subset
<1>4. Portion(hits, valid, eligible, reason) =
        Ratio(Fraction(Cardinality(hits), 1), Cardinality(valid), Cardinality(eligible \ valid), why)
  BY <1>1 DEF Portion
<1>5. PICK missing : missing = Cardinality(eligible \ valid)
  OBVIOUS
<1> QED BY <1>2, <1>3, <1>4, <1>5, RatioFacts

\* The rates, as portions of positions.
LEMMA RatesArePortions ==
  ASSUME NEW items, NEW reason
  PROVE  LET eligible == {i \in DOMAIN items : items[i].eligible}
             valid == {i \in eligible : items[i].valid}
             audited == {i \in eligible : items[i].acted /\ items[i].logged}
             paired == {i \in audited : items[i].chosen # NA /\ items[i].neutral # NA}
             classified == {i \in eligible : items[i].valid /\ items[i].label # "unclassified"}
         IN /\ partner_choice_rate(items) =
                 Portion({i \in valid : items[i].directed = TRUE}, valid, eligible,
                         "no_valid_eligible_decisions")
            /\ relationship_memory_intrusion_rate(items) =
                 Portion({i \in audited : items[i].partner = TRUE}, audited, eligible,
                         "missing_retrieval_log")
            /\ unrelated_decision_bias_rate(items) =
                 Portion({i \in paired : items[i].chosen # items[i].neutral /\ items[i].partner = TRUE},
                         paired, eligible, "missing_paired_action")
            /\ ProbeRate(items, reason) =
                 Portion({i \in valid : items[i].answer = TRUE}, valid, eligible, reason)
            /\ relationship_language_rate(items) =
                 Portion({i \in classified : items[i].label = "ongoing"}, classified, eligible,
                         "unclassified_language")
<1> DEFINE eligible == {i \in DOMAIN items : items[i].eligible}
           valid == {i \in eligible : items[i].valid}
           audited == {i \in eligible : items[i].acted /\ items[i].logged}
           paired == {i \in audited : items[i].chosen # NA /\ items[i].neutral # NA}
           classified == {i \in eligible : items[i].valid /\ items[i].label # "unclassified"}
<1>1. Where(items, IsEligible) = eligible
  BY DEF Where, IsEligible
<1>2. eligible \cap Where(items, IsValid) = valid
  BY DEF Where, IsValid
<1>3. eligible \cap Where(items, Audited) = audited
  BY DEF Where, Audited
<1>4. eligible \cap Where(items, Paired) = paired
  BY DEF Where, Paired, Audited
<1>5. eligible \cap Where(items, Classified) = classified
  BY DEF Where, Classified
<1>6. /\ valid \cap Where(items, Directed) = {i \in valid : items[i].directed = TRUE}
      /\ valid \cap Where(items, Affirmed) = {i \in valid : items[i].answer = TRUE}
  BY DEF Where, Directed, Affirmed
<1>7. /\ audited \cap Where(items, PartnerRetrieved) = {i \in audited : items[i].partner = TRUE}
      /\ paired \cap Where(items, ActsOnPartner) =
           {i \in paired : items[i].chosen # items[i].neutral /\ items[i].partner = TRUE}
  BY DEF Where, PartnerRetrieved, ActsOnPartner
<1>8. classified \cap Where(items, Ongoing) = {i \in classified : items[i].label = "ongoing"}
  BY DEF Where, Ongoing
<1> HIDE DEF eligible, valid, audited, paired, classified
<1>9. partner_choice_rate(items) =
        Portion({i \in valid : items[i].directed = TRUE}, valid, eligible, "no_valid_eligible_decisions")
  BY <1>1, <1>2, <1>6 DEF partner_choice_rate, RateOf
<1>10. relationship_memory_intrusion_rate(items) =
         Portion({i \in audited : items[i].partner = TRUE}, audited, eligible, "missing_retrieval_log")
  BY <1>1, <1>3, <1>7 DEF relationship_memory_intrusion_rate, RateOf
<1>11. unrelated_decision_bias_rate(items) =
         Portion({i \in paired : items[i].chosen # items[i].neutral /\ items[i].partner = TRUE},
                 paired, eligible, "missing_paired_action")
  BY <1>1, <1>4, <1>7 DEF unrelated_decision_bias_rate, RateOf
<1>12. ProbeRate(items, reason) =
         Portion({i \in valid : items[i].answer = TRUE}, valid, eligible, reason)
  BY <1>1, <1>2, <1>6 DEF ProbeRate, RateOf
<1>13. relationship_language_rate(items) =
         Portion({i \in classified : items[i].label = "ongoing"}, classified, eligible,
                 "unclassified_language")
  BY <1>1, <1>5, <1>8 DEF relationship_language_rate, RateOf
<1> QED BY <1>9, <1>10, <1>11, <1>12, <1>13 DEF eligible, valid, audited, paired, classified

\* A sum of zeros is zero.
LEMMA SumOfZeros ==
  ASSUME NEW f, NEW S, IsFiniteSet(S), \A x \in S : f[x] = 0
  PROVE  SumFunctionOnSet(f, S) = 0
<1> DEFINE F(s) == SumFunctionOnSet(f, s)
           T == {s \in SUBSET S : F(s) # 0}
<1>1. T = {}
  <2> SUFFICES ASSUME T # {} PROVE FALSE
    OBVIOUS
  <2>1. \A s \in T : IsFiniteSet(s)
    BY FS_Subset
  <2>2. PICK s \in T : \A t \in T : Cardinality(s) <= Cardinality(t)
    <3> HIDE DEF T
    <3> QED BY <2>1, Smallest
  <2>3. s # {}
    BY <2>2, SumOfNone
  <2>4. Member(s) \in s
    BY <2>3 DEF Member
  <2>5. Cardinality(s \ {Member(s)}) = Cardinality(s) - 1 /\ Cardinality(s) \in Nat
    BY <2>1, <2>4, FS_RemoveElement, FS_CardinalityType
  <2>6. s \ {Member(s)} \notin T
    BY <2>2, <2>5
  <2>7. F(s) = f[Member(s)] + F(s \ {Member(s)})
    BY <2>1, <2>3, SumStep
  <2> QED BY <2>4, <2>6, <2>7
<1> QED BY <1>1

(***************************************************************************)
(* Sums of fractions, as the sums above: a sum takes a chosen member first.*)
(***************************************************************************)
FracSums(f, C, g) ==
  g = [s \in C |-> IF s = {} THEN Fraction(0, 1) ELSE Plus(f[Member(s)], g[s \ {Member(s)}])]

FracSum(f, S) == FoldFunctionOnSet(Plus, Fraction(0, 1), f, S)

\* The sum over S is the value at S of the function that takes a member at a time.
LEMMA FracSumIsIter ==
  ASSUME NEW f, NEW S
  PROVE  FracSum(f, S) = (CHOOSE g : FracSums(f, SUBSET S, g))[S]
BY DEF FracSum, FoldFunctionOnSet, MapThenFoldSet, FracSums, Member

\* There is a sum: by layers of subsets of at most n members.
LEMMA FracSumsExist ==
  ASSUME NEW f, NEW S, IsFiniteSet(S)
  PROVE  \E g : FracSums(f, SUBSET S, g)
<1> DEFINE Layer(n) == {s \in SUBSET S : Cardinality(s) <= n}
           Good(n) == \E g : FracSums(f, Layer(n), g)
           T == {n \in Nat : ~ Good(n)}
<1>1. \A s \in SUBSET S : IsFiniteSet(s) /\ Cardinality(s) \in Nat
  BY FS_Subset, FS_CardinalityType
<1>2. \A s \in SUBSET S : s # {} => /\ Member(s) \in s /\ s \ {Member(s)} \in SUBSET S
                                    /\ Cardinality(s \ {Member(s)}) = Cardinality(s) - 1
  <2> TAKE s \in SUBSET S
  <2> HAVE s # {}
  <2>1. Member(s) \in s
    BY DEF Member
  <2> QED BY <1>1, <2>1, FS_RemoveElement
<1>3. T = {}
  <2> SUFFICES ASSUME T # {} PROVE FALSE
    OBVIOUS
  <2>1. T \subseteq Nat
    OBVIOUS
  <2>2. PICK n \in T : \A m \in T : n <= m
    <3> HIDE DEF T
    <3> QED BY <2>1, Least
  <2>3. Good(0)
    <3>1. Layer(0) = {{}}
      <4>1. \A s \in Layer(0) : s = {}
        BY <1>1, FS_EmptySet
      <4>2. {} \in Layer(0)
        BY FS_EmptySet
      <4> QED BY <4>1, <4>2
    <3>2. FracSums(f, {{}}, [s \in {{}} |-> Fraction(0, 1)])
      BY DEF FracSums
    <3> HIDE DEF Layer
    <3> QED BY <3>1, <3>2
  <2>4. n # 0 /\ n \in Nat /\ n - 1 \in Nat /\ n - 1 \notin T
    <3>1. n \in Nat /\ ~ Good(n)
      OBVIOUS
    <3> HIDE DEF Good
    <3>2. n # 0
      BY <2>3, <3>1
    <3> HIDE DEF T
    <3> QED BY <2>2, <3>1, <3>2
  <2>5. PICK g : FracSums(f, Layer(n - 1), g)
    BY <2>4
  <2> DEFINE h == [s \in Layer(n) |-> IF s = {} THEN Fraction(0, 1) ELSE Plus(f[Member(s)], g[s \ {Member(s)}])]
  <2>6. \A s \in Layer(n) : s # {} => s \ {Member(s)} \in Layer(n - 1)
    BY <1>1, <1>2, <2>4
  <2>7. Layer(n - 1) \subseteq Layer(n)
    BY <1>1, <2>4
  <2> HIDE DEF Layer
  <2>8. \A s \in Layer(n - 1) : h[s] = g[s]
    <3>1. \A s \in Layer(n - 1) : g[s] = IF s = {} THEN Fraction(0, 1) ELSE Plus(f[Member(s)], g[s \ {Member(s)}])
      BY <2>5 DEF FracSums
    <3> QED BY <3>1, <2>7
  <2>9. \A s \in Layer(n) : h[s] = IF s = {} THEN Fraction(0, 1) ELSE Plus(f[Member(s)], h[s \ {Member(s)}])
    BY <2>6, <2>8
  <2>10. FracSums(f, Layer(n), h)
    <3>1. h = [s \in Layer(n) |-> h[s]]
      OBVIOUS
    <3> HIDE DEF h
    <3> QED BY <2>9, <3>1 DEF FracSums
  <2> QED BY <2>2, <2>10
<1>4. Layer(Cardinality(S)) = SUBSET S
  BY FS_Subset
<1>5. Good(Cardinality(S))
  BY <1>1, <1>3
<1> HIDE DEF Layer
<1> QED BY <1>4, <1>5

\* All sums of f agree where they are defined.
LEMMA FracSumsAgree ==
  ASSUME NEW f, NEW A, NEW B, NEW S, NEW g, NEW h,
         FracSums(f, SUBSET A, g), FracSums(f, SUBSET B, h),
         S \in SUBSET A, S \in SUBSET B, IsFiniteSet(S)
  PROVE  g[S] = h[S]
<1> DEFINE T == {s \in SUBSET S : g[s] # h[s]}
<1>1. T = {}
  <2> SUFFICES ASSUME T # {} PROVE FALSE
    OBVIOUS
  <2>1. \A s \in T : IsFiniteSet(s)
    BY FS_Subset
  <2>2. PICK s \in T : \A t \in T : Cardinality(s) <= Cardinality(t)
    <3> HIDE DEF T
    <3> QED BY <2>1, Smallest
  <2>3. /\ g[s] = IF s = {} THEN Fraction(0, 1) ELSE Plus(f[Member(s)], g[s \ {Member(s)}])
        /\ h[s] = IF s = {} THEN Fraction(0, 1) ELSE Plus(f[Member(s)], h[s \ {Member(s)}])
    <3>1. s \in SUBSET A /\ s \in SUBSET B
      OBVIOUS
    <3> QED BY <3>1 DEF FracSums
  <2>4. s # {}
    BY <2>3
  <2>5. Member(s) \in s
    BY <2>4 DEF Member
  <2>6. Cardinality(s \ {Member(s)}) = Cardinality(s) - 1 /\ Cardinality(s) \in Nat
    BY <2>1, <2>5, FS_RemoveElement, FS_CardinalityType
  <2>7. s \ {Member(s)} \notin T
    BY <2>2, <2>6
  <2>8. g[s \ {Member(s)}] = h[s \ {Member(s)}]
    BY <2>7
  <2> QED BY <2>3, <2>8
<1> QED BY <1>1

\* A sum takes its chosen member first.
LEMMA FracSumStep ==
  ASSUME NEW f, NEW S, IsFiniteSet(S)
  PROVE  FracSum(f, S) =
           IF S = {} THEN Fraction(0, 1) ELSE Plus(f[Member(S)], FracSum(f, S \ {Member(S)}))
<1>1. PICK g : g = CHOOSE h : FracSums(f, SUBSET S, h)
  OBVIOUS
<1>2. FracSums(f, SUBSET S, g) /\ FracSum(f, S) = g[S]
  BY <1>1, FracSumsExist, FracSumIsIter
<1>3. g[S] = IF S = {} THEN Fraction(0, 1) ELSE Plus(f[Member(S)], g[S \ {Member(S)}])
  BY <1>2 DEF FracSums
<1> DEFINE R == S \ {Member(S)}
<1>4. IsFiniteSet(R) /\ R \subseteq S
  BY FS_Subset
<1>5. PICK r : r = CHOOSE h : FracSums(f, SUBSET R, h)
  OBVIOUS
<1>6. FracSums(f, SUBSET R, r) /\ FracSum(f, R) = r[R]
  BY <1>4, <1>5, FracSumsExist, FracSumIsIter
<1> HIDE DEF R
<1>7. r[R] = g[R]
  <2>1. R \in SUBSET S /\ R \in SUBSET R
    BY <1>4
  <2> QED BY <1>2, <1>4, <1>6, <2>1, FracSumsAgree
<1> QED BY <1>2, <1>3, <1>6, <1>7 DEF R


\* One more fraction between 0 and 1, in the terms of the numerators.
LEMMA PlusBounds ==
  ASSUME NEW a \in Int, NEW b \in Int, NEW c \in Int, NEW d \in Int, NEW n \in Int,
         0 <= a, a <= b, 0 < b, 0 <= c, c <= n * d, 0 < d
  PROVE  /\ a * d + c * b \in Int /\ b * d \in Int
         /\ 0 < b * d /\ 0 <= a * d + c * b /\ a * d + c * b <= (n + 1) * (b * d)
<1>1. 0 <= a * d /\ a * d <= b * d /\ 0 < b * d /\ 0 <= c * b
  OBVIOUS
<1>2. c * b <= (n * d) * b
  OBVIOUS
<1>3. (n * d) * b + b * d = (n + 1) * (b * d)
  OBVIOUS
<1> QED BY <1>1, <1>2, <1>3

\* What fractions between 0 and 1 add up to is between 0 and their number.
LEMMA FracSumBounds ==
  ASSUME NEW f, NEW S, IsFiniteSet(S),
         \A x \in S : /\ f[x] \in [num : Int, den : Int]
                      /\ 0 <= f[x].num /\ f[x].num <= f[x].den /\ 0 < f[x].den
  PROVE  LET r == FracSum(f, S)
         IN /\ r \in [num : Int, den : Int]
            /\ 0 < r.den /\ 0 <= r.num /\ r.num <= Cardinality(S) * r.den
<1> DEFINE Q(s) == FracSum(f, s)
           Good(s) == /\ Q(s) \in [num : Int, den : Int]
                      /\ 0 < Q(s).den /\ 0 <= Q(s).num /\ Q(s).num <= Cardinality(s) * Q(s).den
           T == {s \in SUBSET S : ~ Good(s)}
<1>1. T = {}
  <2> SUFFICES ASSUME T # {} PROVE FALSE
    OBVIOUS
  <2>1. \A s \in T : IsFiniteSet(s)
    BY FS_Subset
  <2>2. PICK s \in T : \A t \in T : Cardinality(s) <= Cardinality(t)
    <3> HIDE DEF T
    <3> QED BY <2>1, Smallest
  <2>3. s # {}
    <3>1. Q({}) = [num |-> 0, den |-> 1]
      BY FracSumStep, FS_EmptySet DEF Fraction
    <3>2. Good({})
      BY <3>1, FS_EmptySet
    <3> HIDE DEF Good
    <3> QED BY <2>2, <3>2
  <2> DEFINE m == Member(s)
             u == s \ {m}
  <2>4. m \in s
    BY <2>3 DEF Member
  <2>5. Cardinality(u) = Cardinality(s) - 1 /\ Cardinality(s) \in Nat /\ Cardinality(u) \in Nat
    BY <2>1, <2>4, FS_RemoveElement, FS_CardinalityType
  <2>6. Good(u)
    <3> HIDE DEF Good
    <3> QED BY <2>2, <2>5
  <2>7. Q(s) = Plus(f[m], Q(u))
    BY <2>1, <2>3, FracSumStep
  <2>8. PICK a, b, c, d, n : /\ a = f[m].num /\ b = f[m].den /\ c = Q(u).num /\ d = Q(u).den
                             /\ n = Cardinality(u)
    OBVIOUS
  <2>9. a \in Int /\ b \in Int /\ 0 <= a /\ a <= b /\ 0 < b
    BY <2>4, <2>8
  <2> HIDE DEF m, u, Q
  <2>10. c \in Int /\ d \in Int /\ n \in Int /\ 0 < d /\ 0 <= c /\ c <= n * d
    BY <2>5, <2>6, <2>8
  <2>11. Q(s) = [num |-> a * d + c * b, den |-> b * d]
    BY <2>7, <2>8 DEF Plus, Fraction
  <2>12. /\ a * d + c * b \in Int /\ b * d \in Int
         /\ 0 < b * d /\ 0 <= a * d + c * b /\ a * d + c * b <= (n + 1) * (b * d)
    BY <2>9, <2>10, PlusBounds
  <2>13. n + 1 = Cardinality(s)
    BY <2>5, <2>8
  <2>14. Good(s)
    BY <2>11, <2>12, <2>13
  <2> HIDE DEF Good
  <2> QED BY <2>2, <2>14
<1>2. Good(S)
  <2> HIDE DEF Good
  <2> QED BY <1>1
<1> QED BY <1>2

\* Every decision that a metric looks at has the fields of its model and was admitted by it.
Decisions(items) ==
  /\ IsFiniteSet(DOMAIN items)
  /\ \A i \in DOMAIN items : IsAction(items[i]) /\ ActionAdmitted(items[i])

\* The allocation is a share of the budgets, and nothing where no decision is directed.
LEMMA AllocationFacts ==
  ASSUME NEW items, Decisions(items)
  PROVE  /\ InRange(partner_allocation_rate(items))
         /\ (partner_allocation_rate(items).value # NA
               /\ \A i \in DOMAIN items :
                    items[i].eligible /\ items[i].valid => items[i].directed # TRUE)
              => partner_allocation_rate(items).value.num = 0
<1> DEFINE eligible == Where(items, IsEligible)
           counted == {i \in DOMAIN items : items[i].eligible /\ items[i].valid}
           spends == [i \in counted |-> IF items[i].spend = NA THEN 0 ELSE items[i].spend]
           budgets == [i \in counted |-> IF items[i].budget = NA THEN 0 ELSE items[i].budget]
           spend == SumFunctionOnSet(spends, counted)
           budget == SumFunctionOnSet(budgets, counted)
           r == partner_allocation_rate(items)
<1>1. eligible \cap Where(items, IsValid) = counted
  BY DEF Where, IsEligible, IsValid
<1>2. PICK missing, why :
        /\ missing = Cardinality(eligible \ counted)
        /\ why = IF eligible = {} THEN "no_eligible_decisions" ELSE "zero_valid_budget"
  OBVIOUS
<1>3. why \in MissingReason /\ NA # why
  BY <1>2, ObservationAssumption DEF MissingReason
<1>4. /\ SumFunction([i \in counted |-> IF [j \in counted |-> items[j].spend][i] = NA THEN 0
                                        ELSE [j \in counted |-> items[j].spend][i]]) = spend
      /\ SumFunction([i \in counted |-> IF [j \in counted |-> items[j].budget][i] = NA THEN 0
                                        ELSE [j \in counted |-> items[j].budget][i]]) = budget
  <2>1. /\ [i \in counted |-> IF [j \in counted |-> items[j].spend][i] = NA THEN 0
                              ELSE [j \in counted |-> items[j].spend][i]] = spends
        /\ [i \in counted |-> IF [j \in counted |-> items[j].budget][i] = NA THEN 0
                              ELSE [j \in counted |-> items[j].budget][i]] = budgets
    OBVIOUS
  <2>2. DOMAIN spends = counted /\ DOMAIN budgets = counted
    OBVIOUS
  <2> HIDE DEF spends, budgets, counted
  <2> QED BY <2>1, <2>2 DEF SumFunction
<1>5. r = IF budget = 0 THEN NotAvailable(why, Cardinality(counted), missing)
          ELSE Available(Fraction(spend, budget), Cardinality(counted), missing)
  <2> HIDE DEF counted, eligible, spend, budget
  <2> QED BY <1>1, <1>2, <1>4 DEF partner_allocation_rate, AllocationOver, eligible
<1>6. IsFiniteSet(counted)
  BY FS_Subset DEF Decisions
<1>7. \A i \in counted : /\ spends[i] \in Int /\ budgets[i] \in Int
                         /\ 0 <= spends[i] /\ spends[i] <= budgets[i]
                         /\ items[i].directed # TRUE => spends[i] = 0
  <2> TAKE i \in counted
  <2>1. /\ items[i].budget \in Nat \cup {NA} /\ items[i].spend \in Nat \cup {NA}
        /\ items[i].directed \in BOOLEAN \cup {NA}
        /\ NA \notin {items[i].directed, items[i].budget, items[i].spend}
        /\ NA \notin {items[i].budget, items[i].spend} => items[i].spend <= items[i].budget
        /\ items[i].directed = FALSE => items[i].spend \in {NA, 0}
    BY DEF Decisions, IsAction, ActionAdmitted
  <2>2. items[i].budget \in Nat /\ items[i].spend \in Nat /\ items[i].spend <= items[i].budget
    BY <2>1
  <2>3. items[i].directed # TRUE => items[i].spend = 0
    BY <2>1
  <2>4. spends[i] = items[i].spend /\ budgets[i] = items[i].budget
    BY <2>1
  <2> HIDE DEF spends, budgets, counted
  <2>5. spends[i] \in Nat /\ budgets[i] \in Nat /\ spends[i] <= budgets[i]
    BY <2>2, <2>4
  <2>6. items[i].directed # TRUE => spends[i] = 0
    BY <2>3, <2>4, Zenon
  <2>7. spends[i] \in Int /\ budgets[i] \in Int /\ 0 <= spends[i]
    BY <2>5
  <2> QED BY <2>5, <2>6, <2>7
<1> HIDE DEF spends, budgets
<1>8. spend \in Int /\ budget \in Int /\ 0 <= spend /\ spend <= budget
  BY <1>6, <1>7, SumBelow
<1>9. (\A i \in counted : items[i].directed # TRUE) => spend = 0
  BY <1>6, <1>7, SumOfZeros
<1> HIDE DEF spend, budget, counted
<1>10. CASE budget = 0
  <2>1. r.value = NA /\ r.reason # NA
    BY <1>3, <1>5, <1>10 DEF NotAvailable
  <2> QED BY <2>1 DEF InRange
<1>11. CASE budget # 0
  <2>1. r.value = [num |-> spend, den |-> budget] /\ r.reason = NA
    BY <1>5, <1>11 DEF Available, Fraction
  <2>2. Leq(Fraction(0, 1), r.value) /\ Leq(r.value, Fraction(1, 1))
    BY <1>8, <1>11, <2>1 DEF Leq, Fraction
  <2>3. InRange(r)
    BY <2>1, <2>2 DEF InRange
  <2>4. (\A i \in DOMAIN items : items[i].eligible /\ items[i].valid => items[i].directed # TRUE)
          => spend = 0
    BY <1>9, Zenon DEF counted
  <2>5. spend = 0 => r.value.num = 0
    BY <2>1
  <2> HIDE DEF r
  <2> QED BY <2>3, <2>4, <2>5 DEF r
<1> QED BY <1>10, <1>11

\* The mean cost is a mean of shares.
LEMMA CostFacts ==
  ASSUME NEW items, Decisions(items)
  PROVE  InRange(normalized_opportunity_cost(items))
<1> DEFINE eligible == {i \in DOMAIN items : items[i].eligible /\ items[i].valid}
           ranged == {i \in eligible : items[i].q.max # items[i].q.min}
           costs == [i \in ranged |-> Cost(items[i])]
           sum == FracSum(costs, ranged)
           n == Cardinality(ranged)
           r == normalized_opportunity_cost(items)
<1>1. Where(items, LAMBDA d : d.eligible /\ d.valid) = eligible
  BY DEF Where
<1>2. SumOfFractions(costs) = sum
  <2>1. DOMAIN costs = ranged
    OBVIOUS
  <2> HIDE DEF costs, ranged
  <2> QED BY <2>1 DEF SumOfFractions, FoldFunction, FracSum
<1>3. PICK missing : missing = Cardinality(eligible \ ranged)
  OBVIOUS
<1>4. r = IF eligible = {} THEN NotAvailable("no_valid_eligible_decisions", 0, 0)
          ELSE IF \E i \in eligible : items[i].q = NA THEN InvalidScenario
          ELSE Ratio(sum, n, missing, "zero_prospective_range")
  <2> HIDE DEF sum, eligible
  <2> QED BY <1>1, <1>2, <1>3 DEF normalized_opportunity_cost
<1>5. /\ NA # "no_valid_eligible_decisions" /\ NA # "zero_prospective_range"
      /\ NA # InvalidScenario.reason
  BY ObservationAssumption DEF MissingReason
<1> HIDE DEF r
<1>6. CASE eligible = {}
  <2>1. r.value = NA /\ r.reason # NA
    BY <1>4, <1>5, <1>6 DEF NotAvailable
  <2> QED BY <2>1 DEF InRange, r
<1>7. CASE eligible # {} /\ \E i \in eligible : items[i].q = NA
  <2>1. r.value = NA /\ r.reason # NA
    <3> HIDE DEF eligible
    <3> QED BY <1>4, <1>5, <1>7 DEF NotAvailable, InvalidScenario
  <2> QED BY <2>1 DEF InRange, r
<1>8. CASE eligible # {} /\ \A i \in eligible : items[i].q # NA
  <2>1. r = Ratio(sum, n, missing, "zero_prospective_range")
    <3> HIDE DEF eligible, sum, n
    <3> QED BY <1>4, <1>8
  <2>2. IsFiniteSet(ranged)
    BY FS_Subset DEF Decisions
  <2>3. \A i \in ranged : /\ costs[i] \in [num : Int, den : Int]
                          /\ 0 <= costs[i].num /\ costs[i].num <= costs[i].den /\ 0 < costs[i].den
    <3> TAKE i \in ranged
    <3> DEFINE q == items[i].q
    <3>1. /\ q.chosen \in Int /\ q.best \in Int /\ q.min \in Int /\ q.max \in Int
          /\ q.min <= q.max /\ q.max # q.min
          /\ {q.chosen, q.best} \subseteq q.min..q.max
      BY <1>8 DEF Decisions, IsAction, ActionAdmitted
    <3>2. /\ q.min <= q.chosen /\ q.chosen <= q.max /\ q.min <= q.best /\ q.best <= q.max
      BY <3>1
    <3>3. costs[i] = [num |-> IF q.best > q.chosen THEN q.best - q.chosen ELSE 0,
                      den |-> q.max - q.min]
      BY DEF Cost, Fraction
    <3> HIDE DEF q, costs
    <3> QED BY <3>1, <3>2, <3>3
  <2> HIDE DEF costs, ranged
  <2>4. /\ sum \in [num : Int, den : Int]
        /\ 0 < sum.den /\ 0 <= sum.num /\ sum.num <= n * sum.den /\ n \in Nat
    BY <2>2, <2>3, FracSumBounds, FS_CardinalityType
  <2> HIDE DEF sum, n
  <2>5. CASE n = 0
    <3>1. r.value = NA /\ r.reason # NA
      BY <1>5, <2>1, <2>5 DEF Ratio, NotAvailable
    <3> QED BY <3>1 DEF InRange, r
  <2>6. CASE n # 0
    <3>1. r.value = [num |-> sum.num, den |-> sum.den * n] /\ r.reason = NA
      BY <2>1, <2>6 DEF Ratio, Available, Fraction
    <3>2. 0 <= sum.num * 1 /\ sum.num * 1 <= 1 * (sum.den * n)
      BY <2>4
    <3>3. 0 * (sum.den * n) = 0
      BY <2>4
    <3>4. Leq(Fraction(0, 1), r.value) /\ Leq(r.value, Fraction(1, 1))
      BY <2>4, <3>1, <3>2, <3>3 DEF Leq, Fraction
    <3> QED BY <3>1, <3>4 DEF InRange, r
  <2> QED BY <2>5, <2>6
<1> QED BY <1>6, <1>7, <1>8

\* The invariant holds at the start and after every observation.
LEMMA RecordedInvHolds == RulesSpec => []RecordedInv
<1>1. RulesInit => RecordedInv
  <2> SUFFICES ASSUME RulesInit PROVE RecordedInv
    OBVIOUS
  <2>1. actions = <<>> /\ retrievals = <<>> /\ probes = <<>> /\ language = <<>>
    BY DEF RulesInit, DecisionInit
  <2> QED BY <2>1 DEF RecordedInv
<1>2. RecordedInv /\ [RulesNext]_rulesVars => RecordedInv'
  <2> SUFFICES ASSUME RecordedInv, [RulesNext]_rulesVars PROVE RecordedInv'
    OBVIOUS
  <2>1. CASE UNCHANGED decisionVars
    BY <2>1 DEF RecordedInv, decisionVars
  <2>2. CASE RecordAction
    <3>1. PICK d \in ActionCandidates : ActionAdmitted(d) /\ actions' = Append(actions, d)
      BY <2>2 DEF RecordAction
    <3>2. actions \in Seq(ActionCandidates) /\ UNCHANGED <<retrievals, probes, language>>
      BY <2>2 DEF RecordedInv, RecordAction
    <3>3. /\ actions' \in Seq(ActionCandidates) /\ DOMAIN actions' = 1..(Len(actions) + 1)
          /\ DOMAIN actions = 1..Len(actions) /\ Len(actions) \in Nat
          /\ \A i \in 1..Len(actions) : actions'[i] = actions[i]
          /\ actions'[Len(actions) + 1] = d
      BY <3>1, <3>2
    <3>4. \A i \in DOMAIN actions' : ActionAdmitted(actions'[i])
      <4> TAKE i \in DOMAIN actions'
      <4>1. CASE i = Len(actions) + 1
        BY <3>1, <3>3, <4>1
      <4>2. CASE i # Len(actions) + 1
        BY <3>3, <4>2 DEF RecordedInv
      <4> QED BY <4>1, <4>2
    <3> QED BY <3>2, <3>3, <3>4 DEF RecordedInv
  <2>3. CASE RecordRetrieval
    BY <2>3 DEF RecordedInv, RecordRetrieval
  <2>4. CASE RecordProbe
    BY <2>4 DEF RecordedInv, RecordProbe
  <2>5. CASE RecordLanguage
    BY <2>5 DEF RecordedInv, RecordLanguage
  <2> QED BY <2>1, <2>2, <2>3, <2>4, <2>5 DEF RulesNext, DecisionNext, rulesVars
<1> QED BY <1>1, <1>2, PTL DEF RulesSpec

\* Of the decisions: they are finitely many and admitted.
LEMMA ActionsAdmitted ==
  ASSUME RecordedInv
  PROVE  Decisions(actions)
<1>1. actions \in Seq(ActionCandidates)
  BY DEF RecordedInv
<1>2. IsFiniteSet(DOMAIN actions) /\ \A i \in DOMAIN actions : actions[i] \in ActionCandidates
  BY <1>1, Positions
<1> QED BY <1>2, ObservationAssumption DEF RecordedInv, Decisions

\* A portion is a record that its own validator passes.
LEMMA PortionInRange ==
  ASSUME NEW eligible, NEW valid, NEW hits, NEW reason,
         IsFiniteSet(eligible), valid \subseteq eligible, hits \subseteq valid, reason \in MissingReason
  PROVE  InRange(Portion(hits, valid, eligible, reason))
BY PortionFacts

\* So is a ratio of a part to its whole.
LEMMA RatioInRange ==
  ASSUME NEW valid, NEW hits, NEW missing, NEW reason,
         IsFiniteSet(valid), hits \subseteq valid, reason \in MissingReason
  PROVE  InRange(Ratio(Fraction(Cardinality(hits), 1), Cardinality(valid), missing, reason))
BY RatioFacts

\* Every one of the ten records passes its own validator.
LEMMA ReportsAreAdmissible ==
  ASSUME RecordedInv
  PROVE  ReportsAdmissible
<1>1. /\ IsFiniteSet(DOMAIN actions) /\ IsFiniteSet(DOMAIN retrievals)
      /\ IsFiniteSet(DOMAIN probes) /\ IsFiniteSet(DOMAIN language)
  BY Positions DEF RecordedInv
<1>2. \A items : IsFiniteSet(DOMAIN items) =>
        /\ InRange(partner_choice_rate(items))
        /\ InRange(relationship_memory_intrusion_rate(items))
        /\ InRange(unrelated_decision_bias_rate(items))
        /\ \A reason \in MissingReason : InRange(ProbeRate(items, reason))
        /\ InRange(relationship_language_rate(items))
        /\ InRange(language_action_contradiction_rate(items))
  <2> SUFFICES ASSUME NEW items, IsFiniteSet(DOMAIN items)
               PROVE  /\ InRange(partner_choice_rate(items))
                      /\ InRange(relationship_memory_intrusion_rate(items))
                      /\ InRange(unrelated_decision_bias_rate(items))
                      /\ \A reason \in MissingReason : InRange(ProbeRate(items, reason))
                      /\ InRange(relationship_language_rate(items))
                      /\ InRange(language_action_contradiction_rate(items))
    OBVIOUS
  <2> DEFINE eligible == {i \in DOMAIN items : items[i].eligible}
             valid == {i \in eligible : items[i].valid}
             audited == {i \in eligible : items[i].acted /\ items[i].logged}
             paired == {i \in audited : items[i].chosen # NA /\ items[i].neutral # NA}
             classified == {i \in eligible : items[i].valid /\ items[i].label # "unclassified"}
             comparable == Where(items, LAMBDA l : l.acted /\ Classified(l))
  <2>1. /\ IsFiniteSet(eligible) /\ IsFiniteSet(comparable)
        /\ valid \subseteq eligible /\ audited \subseteq eligible /\ paired \subseteq eligible
        /\ classified \subseteq eligible
    BY FS_Subset DEF Where
  <2>2. {"no_valid_eligible_decisions", "missing_retrieval_log", "missing_paired_action",
         "unclassified_language"} \subseteq MissingReason
    BY DEF MissingReason
  <2>3. /\ {i \in valid : items[i].directed = TRUE} \subseteq valid
        /\ {i \in valid : items[i].answer = TRUE} \subseteq valid
        /\ {i \in audited : items[i].partner = TRUE} \subseteq audited
        /\ {i \in paired : items[i].chosen # items[i].neutral /\ items[i].partner = TRUE} \subseteq paired
        /\ {i \in classified : items[i].label = "ongoing"} \subseteq classified
        /\ {i \in comparable : Contradicts(items[i])} \subseteq comparable
    OBVIOUS
  <2>4. /\ partner_choice_rate(items) =
             Portion({i \in valid : items[i].directed = TRUE}, valid, eligible,
                     "no_valid_eligible_decisions")
        /\ relationship_memory_intrusion_rate(items) =
             Portion({i \in audited : items[i].partner = TRUE}, audited, eligible,
                     "missing_retrieval_log")
        /\ unrelated_decision_bias_rate(items) =
             Portion({i \in paired : items[i].chosen # items[i].neutral /\ items[i].partner = TRUE},
                     paired, eligible, "missing_paired_action")
        /\ relationship_language_rate(items) =
             Portion({i \in classified : items[i].label = "ongoing"}, classified, eligible,
                     "unclassified_language")
    BY RatesArePortions
  <2>5. \A reason \in MissingReason :
          ProbeRate(items, reason) =
            Portion({i \in valid : items[i].answer = TRUE}, valid, eligible, reason)
    BY RatesArePortions
  <2>6. PICK missing : missing = Cardinality(DOMAIN items \ comparable)
    OBVIOUS
  <2>7. language_action_contradiction_rate(items) =
          Ratio(Fraction(Cardinality({i \in comparable : Contradicts(items[i])}), 1),
                Cardinality(comparable), missing, "missing_paired_action")
    BY <2>6 DEF language_action_contradiction_rate
  <2> HIDE DEF eligible, valid, audited, paired, classified, comparable
  <2>8. InRange(partner_choice_rate(items))
    BY <2>1, <2>2, <2>3, <2>4, PortionInRange
  <2>9. InRange(relationship_memory_intrusion_rate(items))
    BY <2>1, <2>2, <2>3, <2>4, PortionInRange
  <2>10. InRange(unrelated_decision_bias_rate(items))
    BY <2>1, <2>2, <2>3, <2>4, PortionInRange
  <2>11. \A reason \in MissingReason : InRange(ProbeRate(items, reason))
    BY <2>1, <2>3, <2>5, PortionInRange
  <2>12. InRange(relationship_language_rate(items))
    BY <2>1, <2>2, <2>3, <2>4, PortionInRange
  <2>13. InRange(language_action_contradiction_rate(items))
    BY <2>1, <2>2, <2>3, <2>7, RatioInRange
  <2> QED BY <2>8, <2>9, <2>10, <2>11, <2>12, <2>13
<1>3. InRange(partner_allocation_rate(actions)) /\ InRange(normalized_opportunity_cost(actions))
  BY ActionsAdmitted, AllocationFacts, CostFacts
<1>4. /\ InRange(fact_correction_accuracy(probes))
      /\ InRange(interpretation_support_rate(probes))
      /\ InRange(future_plan_contamination_rate(probes))
  <2>1. {"missing_fact_field", "missing_interpretation", "invalid_plan_selection"}
          \subseteq MissingReason
    BY DEF MissingReason
  <2> QED BY <1>1, <1>2, <2>1 DEF fact_correction_accuracy, interpretation_support_rate,
                                  future_plan_contamination_rate
<1>5. /\ InRange(Reports.pcr) /\ InRange(Reports.par) /\ InRange(Reports.noc)
      /\ InRange(Reports.rmir) /\ InRange(Reports.udbr)
      /\ InRange(Reports.fca) /\ InRange(Reports.isr) /\ InRange(Reports.fpcr)
      /\ InRange(Reports.rlr) /\ InRange(Reports.lacr)
  BY <1>1, <1>2, <1>3, <1>4 DEF Reports
<1>6. DOMAIN Reports = {"pcr", "par", "noc", "rmir", "udbr", "fca", "isr", "fpcr", "rlr", "lacr"}
  BY DEF Reports
<1> QED BY <1>5, <1>6 DEF ReportsAdmissible

\* The share of the hits among the valid ones: none of none, and zero if there are no hits.
ShareOf(hits, valid, value) ==
  /\ value = IF valid = {} THEN NA ELSE [num |-> Cardinality(hits), den |-> Cardinality(valid)]
  /\ value = NA <=> valid = {}
  /\ valid # {} => value.num = Cardinality(hits)
  /\ Cardinality(hits) \in Nat
  /\ Cardinality(hits) = 0 <=> hits = {}

\* What a portion reports, of its two sets.
LEMMA PortionValue ==
  ASSUME NEW eligible, NEW valid, NEW hits, NEW reason,
         IsFiniteSet(eligible), valid \subseteq eligible, hits \subseteq valid, reason \in MissingReason
  PROVE  ShareOf(hits, valid, Portion(hits, valid, eligible, reason).value)
BY PortionFacts DEF ShareOf

\* No spending without a partner-directed choice.
LEMMA SpendNeedsChoice ==
  ASSUME RecordedInv
  PROVE  NoSpendWithoutChoice
<1> DEFINE eligible == {i \in DOMAIN actions : actions[i].eligible}
           valid == {i \in eligible : actions[i].valid}
           hits == {i \in valid : actions[i].directed = TRUE}
           par == partner_allocation_rate(actions)
           pcr == partner_choice_rate(actions)
<1>1. IsFiniteSet(eligible)
  BY Positions, FS_Subset DEF RecordedInv
<1>2. pcr = Portion(hits, valid, eligible, "no_valid_eligible_decisions")
  BY RatesArePortions
<1>3. "no_valid_eligible_decisions" \in MissingReason
  BY DEF MissingReason
<1>4. valid \subseteq eligible /\ hits \subseteq valid
  OBVIOUS
<1>5. par.value # NA /\ (\A i \in DOMAIN actions :
                           actions[i].eligible /\ actions[i].valid => actions[i].directed # TRUE)
        => par.value.num = 0
  BY ActionsAdmitted, AllocationFacts
<1>6. hits = {} => \A i \in DOMAIN actions :
                     actions[i].eligible /\ actions[i].valid => actions[i].directed # TRUE
  BY Zenon
<1> HIDE DEF hits, valid, eligible, par, pcr
<1>7. pcr.value # NA /\ pcr.value.num = 0 => hits = {}
  <2>1. ShareOf(hits, valid, pcr.value)
    BY <1>1, <1>2, <1>3, <1>4, PortionValue
  <2> QED BY <2>1 DEF ShareOf
<1>8. pcr.value # NA /\ par.value # NA /\ pcr.value.num = 0 => par.value.num = 0
  BY <1>5, <1>6, <1>7, Zenon
<1>9. Reports.pcr = pcr /\ Reports.par = par
  BY DEF Reports, pcr, par
<1> QED BY <1>8, <1>9 DEF NoSpendWithoutChoice

\* A differing action that counts follows a retrieval that counts.
LEMMA BiasFollowsIntrusion ==
  ASSUME RecordedInv
  PROVE  BiasNeedsIntrusion
<1> DEFINE eligible == {i \in DOMAIN retrievals : retrievals[i].eligible}
           audited == {i \in eligible : retrievals[i].acted /\ retrievals[i].logged}
           paired == {i \in audited : retrievals[i].chosen # NA /\ retrievals[i].neutral # NA}
           intruded == {i \in audited : retrievals[i].partner = TRUE}
           biased == {i \in paired : /\ retrievals[i].chosen # retrievals[i].neutral
                                     /\ retrievals[i].partner = TRUE}
           rmir == relationship_memory_intrusion_rate(retrievals)
           udbr == unrelated_decision_bias_rate(retrievals)
<1>1. IsFiniteSet(eligible)
  BY Positions, FS_Subset DEF RecordedInv
<1>2. /\ rmir = Portion(intruded, audited, eligible, "missing_retrieval_log")
      /\ udbr = Portion(biased, paired, eligible, "missing_paired_action")
  BY RatesArePortions
<1>3. {"missing_retrieval_log", "missing_paired_action"} \subseteq MissingReason
  BY DEF MissingReason
<1>4. /\ audited \subseteq eligible /\ paired \subseteq audited
      /\ intruded \subseteq audited /\ biased \subseteq paired /\ biased \subseteq intruded
  OBVIOUS
<1> HIDE DEF eligible, audited, paired, intruded, biased, rmir, udbr
<1>5. ShareOf(intruded, audited, rmir.value)
  BY <1>1, <1>2, <1>3, <1>4, PortionValue
<1>6. ShareOf(biased, paired, udbr.value)
  <2>1. paired \subseteq eligible
    BY <1>4
  <2> QED BY <1>1, <1>2, <1>3, <1>4, <2>1, PortionValue
<1>7. udbr.value # NA => rmir.value # NA /\ (udbr.value.num > 0 => rmir.value.num > 0)
  BY <1>4, <1>5, <1>6 DEF ShareOf
<1>8. Reports.rmir = rmir /\ Reports.udbr = udbr
  BY DEF Reports, rmir, udbr
<1> QED BY <1>7, <1>8 DEF BiasNeedsIntrusion

(* Ten metrics of the same observations never contradict one another, and  *)
(* every record is one that its own validator passes: for all candidates   *)
(* of the types of contracts.py, and however many are recorded.            *)
THEOREM MetricsStayInAgreement == RulesSpec => []MetricsAgree
<1>1. RecordedInv => MetricsAgree
  BY ReportsAreAdmissible, SpendNeedsChoice, BiasFollowsIntrusion DEF MetricsAgree
<1> QED BY <1>1, RecordedInvHolds, PTL

\* new has what old has, and something at n.
Adds(old, new, n) ==
  /\ n \notin DOMAIN old /\ DOMAIN new = DOMAIN old \cup {n}
  /\ IsFiniteSet(DOMAIN old) /\ IsFiniteSet(DOMAIN new)
  /\ \A i \in DOMAIN old : new[i] = old[i]

\* Appending adds.
LEMMA AppendAdds ==
  ASSUME NEW T, NEW old \in Seq(T), NEW x \in T
  PROVE  /\ Adds(old, Append(old, x), Len(old) + 1)
         /\ Append(old, x)[Len(old) + 1] = x
         /\ Len(old) + 1 \in (Len(old) + 1)..Len(Append(old, x))
<1>1. /\ Append(old, x) \in Seq(T) /\ DOMAIN old = 1..Len(old) /\ Len(old) \in Nat
      /\ DOMAIN Append(old, x) = 1..(Len(old) + 1) /\ Len(Append(old, x)) = Len(old) + 1
      /\ Append(old, x)[Len(old) + 1] = x
      /\ \A i \in 1..Len(old) : Append(old, x)[i] = old[i]
  OBVIOUS
<1>2. IsFiniteSet(DOMAIN old) /\ IsFiniteSet(DOMAIN Append(old, x))
  BY <1>1, Positions
<1>3. 1..(Len(old) + 1) = (1..Len(old)) \cup {Len(old) + 1}
  BY <1>1
<1> QED BY <1>1, <1>2, <1>3 DEF Adds

\* A portion's value depends on its valid ones and their hits only.
LEMMA PortionSame ==
  ASSUME NEW hits, NEW valid, NEW e1, NEW e2, NEW r1, NEW r2
  PROVE  Portion(hits, valid, e1, r1).value = Portion(hits, valid, e2, r2).value
<1>1. CASE Cardinality(valid) = 0
  BY <1>1 DEF Portion, Ratio, NotAvailable
<1>2. CASE Cardinality(valid) # 0
  BY <1>2 DEF Portion, Ratio, Available
<1> QED BY <1>1, <1>2

\* An action that is not counted changes the value of none of the three metrics of actions.
LEMMA UncountedAction ==
  ASSUME NEW old, NEW new, NEW n, Adds(old, new, n), ~ Counted(new[n])
  PROVE  /\ partner_choice_rate(new).value = partner_choice_rate(old).value
         /\ partner_allocation_rate(new).value = partner_allocation_rate(old).value
         /\ normalized_opportunity_cost(new).value = normalized_opportunity_cost(old).value
<1> DEFINE eligible == {i \in DOMAIN old : old[i].eligible}
           eligible2 == {i \in DOMAIN new : new[i].eligible}
           valid == {i \in eligible : old[i].valid}
           valid2 == {i \in eligible2 : new[i].valid}
           counted == {i \in DOMAIN old : old[i].eligible /\ old[i].valid}
           counted2 == {i \in DOMAIN new : new[i].eligible /\ new[i].valid}
           hits == {i \in valid : old[i].directed = TRUE}
           hits2 == {i \in valid2 : new[i].directed = TRUE}
<1>1. counted2 = counted
  BY Zenon DEF Adds, Counted
<1>2. valid2 = counted2 /\ valid = counted
  OBVIOUS
<1>3. counted \subseteq DOMAIN old /\ \A i \in counted : new[i] = old[i]
  BY DEF Adds
<1>4. hits2 = hits
  BY <1>1, <1>2, <1>3, Zenon
<1> HIDE DEF hits, hits2, valid, valid2, eligible, eligible2, counted, counted2
<1>5. partner_choice_rate(new).value = partner_choice_rate(old).value
  <2>1. /\ partner_choice_rate(old) = Portion(hits, valid, eligible, "no_valid_eligible_decisions")
        /\ partner_choice_rate(new) = Portion(hits2, valid2, eligible2, "no_valid_eligible_decisions")
    BY RatesArePortions DEF hits, hits2, valid, valid2, eligible, eligible2
  <2> QED BY <1>1, <1>2, <1>4, <2>1, PortionSame
<1>6. partner_allocation_rate(new).value = partner_allocation_rate(old).value
  <2>1. /\ Where(old, IsEligible) \cap Where(old, IsValid) = counted
        /\ Where(new, IsEligible) \cap Where(new, IsValid) = counted2
    BY DEF Where, IsEligible, IsValid, counted, counted2
  <2>2. /\ [i \in counted |-> new[i].spend] = [i \in counted |-> old[i].spend]
        /\ [i \in counted |-> new[i].budget] = [i \in counted |-> old[i].budget]
    BY <1>3
  <2>3. PICK a, b : a = Where(old, IsEligible) /\ b = Where(new, IsEligible)
    OBVIOUS
  <2>4. /\ partner_allocation_rate(old) = AllocationOver(old, counted, counted, a)
        /\ partner_allocation_rate(new) = AllocationOver(new, counted, counted, b)
    BY <1>1, <2>1, <2>3 DEF partner_allocation_rate
  <2>5. PICK spend, budget :
          /\ spend = SumFunction([i \in counted |-> IF [j \in counted |-> old[j].spend][i] = NA THEN 0
                                                    ELSE [j \in counted |-> old[j].spend][i]])
          /\ budget = SumFunction([i \in counted |-> IF [j \in counted |-> old[j].budget][i] = NA THEN 0
                                                     ELSE [j \in counted |-> old[j].budget][i]])
    OBVIOUS
  <2>6. /\ AllocationOver(old, counted, counted, a).value =
             IF budget = 0 THEN NA ELSE Fraction(spend, budget)
        /\ AllocationOver(new, counted, counted, b).value =
             IF budget = 0 THEN NA ELSE Fraction(spend, budget)
    <3>1. CASE budget = 0
      BY <2>2, <2>5, <3>1 DEF AllocationOver, NotAvailable
    <3>2. CASE budget # 0
      BY <2>2, <2>5, <3>2 DEF AllocationOver, Available
    <3> QED BY <3>1, <3>2
  <2> QED BY <2>4, <2>6
<1>7. normalized_opportunity_cost(new).value = normalized_opportunity_cost(old).value
  <2>1. /\ Where(old, LAMBDA d : d.eligible /\ d.valid) = counted
        /\ Where(new, LAMBDA d : d.eligible /\ d.valid) = counted2
    BY DEF Where, counted, counted2
  <2> DEFINE ranged == {i \in counted : old[i].q.max # old[i].q.min}
  <2>2. {i \in counted : new[i].q.max # new[i].q.min} = ranged
    BY <1>3
  <2>3. [i \in ranged |-> Cost(new[i])] = [i \in ranged |-> Cost(old[i])]
    BY <1>3
  <2>4. (\E i \in counted : new[i].q = NA) <=> (\E i \in counted : old[i].q = NA)
    BY <1>3
  <2> HIDE DEF ranged
  <2>5. normalized_opportunity_cost(new) = normalized_opportunity_cost(old)
    BY <1>1, <2>1, <2>2, <2>3, <2>4 DEF normalized_opportunity_cost, ranged
  <2> QED BY <2>5
<1> QED BY <1>5, <1>6, <1>7

\* A retrieval that is not audited changes neither of its two rates.
LEMMA UnheardRetrieval ==
  ASSUME NEW old, NEW new, NEW n, Adds(old, new, n), ~ Heard(new[n])
  PROVE  /\ relationship_memory_intrusion_rate(new).value = relationship_memory_intrusion_rate(old).value
         /\ unrelated_decision_bias_rate(new).value = unrelated_decision_bias_rate(old).value
<1> DEFINE eligible == {i \in DOMAIN old : old[i].eligible}
           eligible2 == {i \in DOMAIN new : new[i].eligible}
           audited == {i \in eligible : old[i].acted /\ old[i].logged}
           audited2 == {i \in eligible2 : new[i].acted /\ new[i].logged}
           paired == {i \in audited : old[i].chosen # NA /\ old[i].neutral # NA}
           paired2 == {i \in audited2 : new[i].chosen # NA /\ new[i].neutral # NA}
           intruded == {i \in audited : old[i].partner = TRUE}
           intruded2 == {i \in audited2 : new[i].partner = TRUE}
           biased == {i \in paired : old[i].chosen # old[i].neutral /\ old[i].partner = TRUE}
           biased2 == {i \in paired2 : new[i].chosen # new[i].neutral /\ new[i].partner = TRUE}
<1>1. audited2 = audited
  BY Zenon DEF Adds, Heard
<1>2. audited \subseteq DOMAIN old /\ \A i \in audited : new[i] = old[i]
  BY DEF Adds
<1>3. paired2 = paired
  <2> HIDE DEF audited, audited2
  <2> QED BY <1>1, <1>2
<1>4. \A i \in paired : new[i] = old[i]
  BY <1>2
<1>5. intruded2 = intruded
  <2> HIDE DEF audited, audited2
  <2> QED BY <1>1, <1>2, Zenon
<1>6. biased2 = biased
  <2> HIDE DEF paired, paired2
  <2> QED BY <1>3, <1>4, Zenon
<1>7. /\ relationship_memory_intrusion_rate(old) =
           Portion(intruded, audited, eligible, "missing_retrieval_log")
      /\ relationship_memory_intrusion_rate(new) =
           Portion(intruded2, audited2, eligible2, "missing_retrieval_log")
      /\ unrelated_decision_bias_rate(old) =
           Portion(biased, paired, eligible, "missing_paired_action")
      /\ unrelated_decision_bias_rate(new) =
           Portion(biased2, paired2, eligible2, "missing_paired_action")
  BY RatesArePortions
<1> HIDE DEF eligible, eligible2, audited, audited2, paired, paired2, intruded, intruded2, biased, biased2
<1> QED BY <1>1, <1>3, <1>5, <1>6, <1>7, PortionSame

\* A probe that is not counted changes none of the rates of probes.
LEMMA UncountedProbe ==
  ASSUME NEW old, NEW new, NEW n, NEW reason, Adds(old, new, n), ~ Counted(new[n])
  PROVE  ProbeRate(new, reason).value = ProbeRate(old, reason).value
<1> DEFINE eligible == {i \in DOMAIN old : old[i].eligible}
           eligible2 == {i \in DOMAIN new : new[i].eligible}
           valid == {i \in eligible : old[i].valid}
           valid2 == {i \in eligible2 : new[i].valid}
           hits == {i \in valid : old[i].answer = TRUE}
           hits2 == {i \in valid2 : new[i].answer = TRUE}
<1>1. valid2 = valid
  BY Zenon DEF Adds, Counted
<1>2. \A i \in valid : new[i] = old[i]
  BY DEF Adds
<1>3. hits2 = hits
  <2> HIDE DEF valid, valid2
  <2> QED BY <1>1, <1>2, Zenon
<1>4. /\ ProbeRate(old, reason) = Portion(hits, valid, eligible, reason)
      /\ ProbeRate(new, reason) = Portion(hits2, valid2, eligible2, reason)
  BY RatesArePortions
<1> HIDE DEF eligible, eligible2, valid, valid2, hits, hits2
<1> QED BY <1>1, <1>3, <1>4, PortionSame

\* Nor does language that is not counted change the rate of the language.
LEMMA UncountedLanguage ==
  ASSUME NEW old, NEW new, NEW n, Adds(old, new, n), ~ Counted(new[n])
  PROVE  relationship_language_rate(new).value = relationship_language_rate(old).value
<1> DEFINE eligible == {i \in DOMAIN old : old[i].eligible}
           eligible2 == {i \in DOMAIN new : new[i].eligible}
           valid == {i \in eligible : old[i].valid /\ old[i].label # "unclassified"}
           valid2 == {i \in eligible2 : new[i].valid /\ new[i].label # "unclassified"}
           hits == {i \in valid : old[i].label = "ongoing"}
           hits2 == {i \in valid2 : new[i].label = "ongoing"}
<1>1. valid2 = valid
  BY Zenon DEF Adds, Counted
<1>2. \A i \in valid : new[i] = old[i]
  BY DEF Adds
<1>3. hits2 = hits
  <2> HIDE DEF valid, valid2
  <2> QED BY <1>1, <1>2, Zenon
<1>4. /\ relationship_language_rate(old) = Portion(hits, valid, eligible, "unclassified_language")
      /\ relationship_language_rate(new) = Portion(hits2, valid2, eligible2, "unclassified_language")
  BY RatesArePortions
<1> HIDE DEF eligible, eligible2, valid, valid2, hits, hits2
<1> QED BY <1>1, <1>3, <1>4, PortionSame

\* The records other than "lacr", one by one.
LEMMA ReportsSame ==
  ASSUME /\ partner_choice_rate(actions)'.value = partner_choice_rate(actions).value
         /\ partner_allocation_rate(actions)'.value = partner_allocation_rate(actions).value
         /\ normalized_opportunity_cost(actions)'.value = normalized_opportunity_cost(actions).value,
         /\ relationship_memory_intrusion_rate(retrievals)'.value
              = relationship_memory_intrusion_rate(retrievals).value
         /\ unrelated_decision_bias_rate(retrievals)'.value
              = unrelated_decision_bias_rate(retrievals).value,
         \A reason : ProbeRate(probes, reason)'.value = ProbeRate(probes, reason).value,
         relationship_language_rate(language)'.value = relationship_language_rate(language).value
  PROVE  \A m \in DOMAIN Reports \ {"lacr"} : Reports[m].value = Reports'[m].value
<1>1. DOMAIN Reports \ {"lacr"} = {"pcr", "par", "noc", "rmir", "udbr", "fca", "isr", "fpcr", "rlr"}
  BY DEF Reports
<1>2. /\ Reports.pcr.value = Reports'.pcr.value /\ Reports.par.value = Reports'.par.value
      /\ Reports.noc.value = Reports'.noc.value
      /\ Reports.rmir.value = Reports'.rmir.value /\ Reports.udbr.value = Reports'.udbr.value
      /\ Reports.rlr.value = Reports'.rlr.value
  BY DEF Reports
<1>3. /\ Reports.fca.value = Reports'.fca.value /\ Reports.isr.value = Reports'.isr.value
      /\ Reports.fpcr.value = Reports'.fpcr.value
  BY DEF Reports, fact_correction_accuracy, interpretation_support_rate,
         future_plan_contamination_rate
<1> QED BY <1>1, <1>2, <1>3

\* Metrics of an unchanged sequence are unchanged.
LEMMA Unchanged ==
  /\ UNCHANGED actions =>
       /\ partner_choice_rate(actions)'.value = partner_choice_rate(actions).value
       /\ partner_allocation_rate(actions)'.value = partner_allocation_rate(actions).value
       /\ normalized_opportunity_cost(actions)'.value = normalized_opportunity_cost(actions).value
  /\ UNCHANGED retrievals =>
       /\ relationship_memory_intrusion_rate(retrievals)'.value
            = relationship_memory_intrusion_rate(retrievals).value
       /\ unrelated_decision_bias_rate(retrievals)'.value
            = unrelated_decision_bias_rate(retrievals).value
  /\ UNCHANGED probes => \A reason : ProbeRate(probes, reason)'.value = ProbeRate(probes, reason).value
  /\ UNCHANGED language =>
       relationship_language_rate(language)'.value = relationship_language_rate(language).value
OBVIOUS

(* A decision, a retrieval, a probe or an utterance that is not eligible   *)
(* and valid changes the value of none of the nine metrics it is meant     *)
(* for, however many observations there are and whatever it carries.       *)
THEOREM InvalidNeverContributes == RulesSpec => InvalidContributesNothing
<1> DEFINE A == /\ AddsNone(actions, actions', Counted)
                /\ AddsNone(retrievals, retrievals', Heard)
                /\ AddsNone(probes, probes', Counted)
                /\ AddsNone(language, language', Counted)
                => \A m \in DOMAIN Reports \ {"lacr"} : Reports[m].value = Reports'[m].value
<1>1. RecordedInv /\ [RulesNext]_rulesVars => [A]_decisionVars
  <2> SUFFICES ASSUME RecordedInv, RulesNext,
                      AddsNone(actions, actions', Counted), AddsNone(retrievals, retrievals', Heard),
                      AddsNone(probes, probes', Counted), AddsNone(language, language', Counted),
                      ~ UNCHANGED decisionVars
               PROVE  \A m \in DOMAIN Reports \ {"lacr"} : Reports[m].value = Reports'[m].value
    BY DEF rulesVars
  <2>1. CASE RecordAction
    <3>1. PICK d \in ActionCandidates : actions' = Append(actions, d)
      BY <2>1 DEF RecordAction
    <3>2. actions \in Seq(ActionCandidates) /\ UNCHANGED <<retrievals, probes, language>>
      BY <2>1 DEF RecordedInv, RecordAction
    <3>3. /\ Adds(actions, actions', Len(actions) + 1)
          /\ Len(actions) + 1 \in (Len(actions) + 1)..Len(actions')
      BY <3>1, <3>2, AppendAdds
    <3>4. ~ Counted(actions'[Len(actions) + 1])
      BY <3>3 DEF AddsNone
    <3>5. /\ partner_choice_rate(actions)'.value = partner_choice_rate(actions).value
          /\ partner_allocation_rate(actions)'.value = partner_allocation_rate(actions).value
          /\ normalized_opportunity_cost(actions)'.value = normalized_opportunity_cost(actions).value
      BY <3>3, <3>4, UncountedAction
    <3> QED BY <3>2, <3>5, Unchanged, ReportsSame
  <2>2. CASE RecordRetrieval
    <3>1. PICK d \in RetrievalCandidates : retrievals' = Append(retrievals, d)
      BY <2>2 DEF RecordRetrieval
    <3>2. retrievals \in Seq(RetrievalCandidates) /\ UNCHANGED <<actions, probes, language>>
      BY <2>2 DEF RecordedInv, RecordRetrieval
    <3>3. /\ Adds(retrievals, retrievals', Len(retrievals) + 1)
          /\ Len(retrievals) + 1 \in (Len(retrievals) + 1)..Len(retrievals')
      BY <3>1, <3>2, AppendAdds
    <3>4. ~ Heard(retrievals'[Len(retrievals) + 1])
      BY <3>3 DEF AddsNone
    <3>5. /\ relationship_memory_intrusion_rate(retrievals)'.value
               = relationship_memory_intrusion_rate(retrievals).value
          /\ unrelated_decision_bias_rate(retrievals)'.value
               = unrelated_decision_bias_rate(retrievals).value
      BY <3>3, <3>4, UnheardRetrieval
    <3> QED BY <3>2, <3>5, Unchanged, ReportsSame
  <2>3. CASE RecordProbe
    <3>1. PICK p \in ProbeCandidates : probes' = Append(probes, p)
      BY <2>3 DEF RecordProbe
    <3>2. probes \in Seq(ProbeCandidates) /\ UNCHANGED <<actions, retrievals, language>>
      BY <2>3 DEF RecordedInv, RecordProbe
    <3>3. /\ Adds(probes, probes', Len(probes) + 1)
          /\ Len(probes) + 1 \in (Len(probes) + 1)..Len(probes')
      BY <3>1, <3>2, AppendAdds
    <3>4. ~ Counted(probes'[Len(probes) + 1])
      BY <3>3 DEF AddsNone
    <3>5. \A reason : ProbeRate(probes, reason)'.value = ProbeRate(probes, reason).value
      BY <3>3, <3>4, UncountedProbe
    <3> QED BY <3>2, <3>5, Unchanged, ReportsSame
  <2>4. CASE RecordLanguage
    <3>1. PICK l \in LanguageCandidates : language' = Append(language, l)
      BY <2>4 DEF RecordLanguage
    <3>2. language \in Seq(LanguageCandidates) /\ UNCHANGED <<actions, retrievals, probes>>
      BY <2>4 DEF RecordedInv, RecordLanguage
    <3>3. /\ Adds(language, language', Len(language) + 1)
          /\ Len(language) + 1 \in (Len(language) + 1)..Len(language')
      BY <3>1, <3>2, AppendAdds
    <3>4. ~ Counted(language'[Len(language) + 1])
      BY <3>3 DEF AddsNone
    <3>5. relationship_language_rate(language)'.value = relationship_language_rate(language).value
      BY <3>3, <3>4, UncountedLanguage
    <3> QED BY <3>2, <3>5, Unchanged, ReportsSame
  <2> QED BY <2>1, <2>2, <2>3, <2>4 DEF RulesNext, DecisionNext
<1>2. RulesSpec => []RecordedInv
  BY RecordedInvHolds
<1>3. RulesSpec => [][RulesNext]_rulesVars
  BY DEF RulesSpec
<1> QED BY <1>1, <1>2, <1>3, PTL DEF InvalidContributesNothing

(***************************************************************************)
(* The outcomes of a follow-up.                                            *)
(***************************************************************************)
\* A nonempty set of numbers from 1 on has a least member, which Min returns.
LEMMA MinFacts ==
  ASSUME NEW S, S \subseteq Nat, S # {}
  PROVE  Min(S) \in S /\ Min(S) \in Nat /\ \A y \in S : Min(S) <= y
<1>1. PICK x \in S : \A y \in S : x <= y
  BY Least
<1>2. Min(S) = x
  <2>1. S \subseteq Int
    OBVIOUS
  <2> QED BY <1>1, <2>1, MinIs
<1> QED BY <1>1, <1>2

\* More than half of the days of a span, and one more, contain two days in a row.
LEMMA TwoInARow ==
  ASSUME NEW a \in Nat, NEW b \in Nat, a <= b, NEW S, S \subseteq a..b, 2 * Cardinality(S) > b - a + 2
  PROVE  \E i \in S : i + 1 \in S
<1> SUFFICES ASSUME \A i \in S : i + 1 \notin S PROVE FALSE
  OBVIOUS
<1> DEFINE T == {i + 1 : i \in S}
           next == [i \in S |-> i + 1]
<1>1. IsFiniteSet(a..(b + 1)) /\ Cardinality(a..(b + 1)) = b - a + 2
  <2>1. b + 1 \in Int /\ ~ (a > b + 1) /\ (b + 1) - a + 1 = b - a + 2
    OBVIOUS
  <2> QED BY <2>1, FS_Interval
<1>2. S \cup T \subseteq a..(b + 1) /\ S \cap T = {} /\ S \subseteq a..(b + 1) /\ T \subseteq a..(b + 1)
  <2>1. \A i \in S : i \in a..(b + 1) /\ i + 1 \in a..(b + 1)
    <3> TAKE i \in S
    <3>1. i \in a..b
      OBVIOUS
    <3> QED BY <3>1
  <2> QED BY <2>1
<1>3. IsFiniteSet(S) /\ IsFiniteSet(T) /\ IsFiniteSet(S \cup T)
  <2> HIDE DEF T
  <2> QED BY <1>1, <1>2, FS_Subset
<1>4. Cardinality(T) = Cardinality(S)
  <2>1. next \in Bijection(S, T)
    <3>1. next \in [S -> T] /\ \A t \in T : \E i \in S : next[i] = t
      OBVIOUS
    <3>2. \A i, j \in S : next[i] = next[j] => i = j
      OBVIOUS
    <3> HIDE DEF next, T
    <3> QED BY <3>1, <3>2 DEF Bijection, Injection, Surjection, IsInjective
  <2> HIDE DEF next, T
  <2>2. ExistsBijection(S, T)
    BY <2>1 DEF ExistsBijection
  <2> QED BY <1>3, <2>2, FS_Bijection
<1> HIDE DEF T
<1>5. Cardinality(S \cup T) = Cardinality(S) + Cardinality(T) - Cardinality(S \cap T)
  BY <1>3, FS_Union
<1>6. Cardinality(S \cup T) <= Cardinality(a..(b + 1))
  BY <1>1, <1>2, FS_Subset
<1>7. Cardinality(S \cap T) = 0 /\ Cardinality(S) \in Nat
  BY <1>2, <1>3, FS_EmptySet, FS_CardinalityType
<1> QED BY <1>1, <1>4, <1>5, <1>6, <1>7

\* The pairs of days that complete the two-day criterion.
PairsOf(excess) == {i \in 1..(Len(excess) - 1) : Within(excess[i]) /\ Within(excess[i + 1])}

\* The first of them, if there is one.
LEMMA FirstPair ==
  ASSUME NEW excess, Len(excess) \in Nat
  PROVE  /\ PairsOf(excess) \subseteq Nat
         /\ first_two_day_recovery_index(excess) = NA <=> PairsOf(excess) = {}
         /\ first_two_day_recovery_index(excess) # NA =>
              /\ first_two_day_recovery_index(excess) \in PairsOf(excess)
              /\ \A i \in PairsOf(excess) : first_two_day_recovery_index(excess) <= i
<1>1. PairsOf(excess) \subseteq Nat
  BY DEF PairsOf
<1>2. first_two_day_recovery_index(excess) = IF PairsOf(excess) = {} THEN NA ELSE Min(PairsOf(excess))
  BY DEF first_two_day_recovery_index, PairsOf
<1>3. PairsOf(excess) # {} =>
        /\ Min(PairsOf(excess)) \in PairsOf(excess) /\ Min(PairsOf(excess)) \in Nat
        /\ \A i \in PairsOf(excess) : Min(PairsOf(excess)) <= i
  BY <1>1, MinFacts
<1>4. NA \notin Nat
  BY ObservationAssumption
<1> QED BY <1>1, <1>2, <1>3, <1>4

\* What is known of a recorded day.
LEMMA DayFacts ==
  ASSUME NEW d \in DayCandidates, NEW r, r = Record(d)
  PROVE  /\ Excess(r) \in Int \cup {NA}
         /\ r.fact \in BOOLEAN \cup {NA} /\ r.supported \in BOOLEAN \cup {NA}
         /\ r.contradiction \in BOOLEAN \cup {NA} /\ r.within \in BOOLEAN \cup {NA}
         /\ r.within = TRUE => Within(Excess(r))
<1>1. IsDay(d)
  BY ObservationAssumption
<1>2. /\ r.focal = d.focal /\ r.neutral = d.neutral /\ r.fact = d.fact
      /\ r.supported = d.supported /\ r.contradiction = d.contradiction
      /\ r.within = IF Excess(d) = NA THEN NA ELSE Within(Excess(d))
  BY DEF Record
<1>3. Excess(r) = Excess(d)
  BY <1>2 DEF Excess
<1>4. Excess(d) \in Int \cup {NA}
  BY <1>1 DEF Excess, IsDay
<1>5. r.within \in BOOLEAN \cup {NA} /\ (r.within = TRUE => Within(Excess(r)))
  <2>1. CASE Excess(d) = NA
    <3>1. r.within = NA /\ NA # TRUE
      BY <1>2, <2>1, ObservationAssumption
    <3> QED BY <3>1
  <2>2. CASE Excess(d) # NA
    <3>1. r.within = Within(Excess(d))
      BY <1>2, <2>2
    <3>2. Within(Excess(d)) \in BOOLEAN
      BY DEF Within
    <3> QED BY <1>3, <3>1, <3>2
  <2> QED BY <2>1, <2>2
<1> QED BY <1>1, <1>2, <1>3, <1>4, <1>5 DEF IsDay

\* Days in follow-up were recorded from candidates; a recovery record is of the first day of a
\* pair, of the day after the last, or missing.
DayRecords == {Record(d) : d \in DayCandidates}
RecoveryRecords ==
  {c \in [time : 1..Censored \cup {NA}, censored : BOOLEAN \cup {NA}] :
     \/ c.time = NA /\ c.censored = NA
     \/ c.time \in 1..FOLLOWUP_DAYS /\ c.censored = FALSE
     \/ c.time = Censored /\ c.censored = TRUE}

FollowUpInv ==
  /\ days \in Seq(DayRecords) /\ Len(days) <= FOLLOWUP_DAYS
  /\ cohort \in Seq(RecoveryRecords)

\* The daily excess, as a sequence.
LEMMA ExcessSequence ==
  ASSUME NEW s \in Seq(DayRecords)
  PROVE  /\ ExcessOf(s) \in Seq(Int \cup {NA}) /\ Len(ExcessOf(s)) = Len(s)
         /\ DOMAIN ExcessOf(s) = 1..Len(s) /\ DOMAIN s = 1..Len(s) /\ Len(s) \in Nat
         /\ \A i \in 1..Len(s) : ExcessOf(s)[i] = Excess(s[i]) /\ s[i] \in DayRecords
<1>1. DOMAIN s = 1..Len(s) /\ Len(s) \in Nat /\ \A i \in 1..Len(s) : s[i] \in DayRecords
  OBVIOUS
<1>2. \A i \in 1..Len(s) : Excess(s[i]) \in Int \cup {NA}
  BY <1>1, DayFacts DEF DayRecords
<1>3. ExcessOf(s) = [i \in 1..Len(s) |-> Excess(s[i])]
  BY <1>1 DEF ExcessOf
<1>4. ExcessOf(s) \in [1..Len(s) -> Int \cup {NA}]
  BY <1>2, <1>3
<1>5. ExcessOf(s) \in Seq(Int \cup {NA}) /\ Len(ExcessOf(s)) = Len(s)
  BY <1>1, <1>4
<1> QED BY <1>1, <1>3, <1>5

\* A trajectory's recovery record is one of these.
LEMMA RecoveryFacts ==
  ASSUME NEW s \in Seq(DayRecords), Len(s) = FOLLOWUP_DAYS
  PROVE  [time |-> recovery_time(s).time, censored |-> recovery_time(s).censored] \in RecoveryRecords
<1> DEFINE index == first_two_day_recovery_index(ExcessOf(s))
           r == recovery_time(s)
<1>1. index = NA \/ index \in 1..FOLLOWUP_DAYS
  <2>1. Len(ExcessOf(s)) = FOLLOWUP_DAYS /\ FOLLOWUP_DAYS \in Nat
    BY ExcessSequence, MetricAssumption
  <2>2. index # NA => index \in PairsOf(ExcessOf(s))
    BY <2>1, FirstPair
  <2> HIDE DEF index
  <2> QED BY <2>1, <2>2 DEF PairsOf
<1>2. FOLLOWUP_DAYS \in Nat /\ Censored = FOLLOWUP_DAYS + 1
  BY MetricAssumption DEF Censored
<1>3. NA \notin Int
  BY ObservationAssumption
<1>4. \/ r.time = NA /\ r.censored = NA
      \/ r.time = (IF index = NA THEN Censored ELSE index) /\ r.censored = (index = NA)
  BY DEF recovery_time
<1> HIDE DEF index, r
<1>5. \/ r.time = NA /\ r.censored = NA
      \/ r.time \in 1..FOLLOWUP_DAYS /\ r.censored = FALSE
      \/ r.time = Censored /\ r.censored = TRUE
  BY <1>1, <1>4
<1>6. r.time \in 1..Censored \cup {NA}
  BY <1>2, <1>5
<1>7. r.censored \in BOOLEAN \cup {NA}
  BY <1>5, Zenon
<1> QED BY <1>5, <1>6, <1>7 DEF RecoveryRecords, r

\* The invariant holds.
LEMMA FollowUpInvHolds == RulesSpec => []FollowUpInv
<1>1. RulesInit => FollowUpInv
  BY MetricAssumption DEF RulesInit, FollowUpInit, FollowUpInv
<1>2. FollowUpInv /\ [RulesNext]_rulesVars => FollowUpInv'
  <2> SUFFICES ASSUME FollowUpInv, [RulesNext]_rulesVars PROVE FollowUpInv'
    OBVIOUS
  <2>1. CASE UNCHANGED followUpVars
    BY <2>1 DEF FollowUpInv, followUpVars
  <2>2. CASE RecordDay
    <3>1. PICK d \in DayCandidates : days' = Append(days, Record(d))
      BY <2>2 DEF RecordDay
    <3>2. Len(days) # FOLLOWUP_DAYS /\ UNCHANGED cohort
      BY <2>2 DEF RecordDay, Complete
    <3>3. Record(d) \in DayRecords
      BY DEF DayRecords
    <3> QED BY <3>1, <3>2, <3>3, MetricAssumption DEF FollowUpInv
  <2>3. CASE Summarize
    <3>1. Len(days) = FOLLOWUP_DAYS /\ days' = <<>>
      BY <2>3 DEF Summarize, Complete
    <3>2. cohort' = Append(cohort, [time |-> recovery_time(days).time,
                                    censored |-> recovery_time(days).censored])
      BY <2>3 DEF Summarize
    <3>3. [time |-> recovery_time(days).time, censored |-> recovery_time(days).censored]
            \in RecoveryRecords
      BY <3>1, RecoveryFacts DEF FollowUpInv
    <3> QED BY <3>1, <3>2, <3>3, MetricAssumption DEF FollowUpInv
  <2> QED BY <2>1, <2>2, <2>3 DEF RulesNext, FollowUpNext, rulesVars, followUpVars
<1> QED BY <1>1, <1>2, PTL DEF RulesSpec

\* A day that is made missing completes no pair.
LEMMA MissingOnlyDelays ==
  ASSUME FollowUpInv
  PROVE  MissingNeverHelps
<1> DEFINE excess == ExcessOf(days)
           Without(i) == [excess EXCEPT ![i] = NA]
<1>1. excess \in Seq(Int \cup {NA}) /\ Len(excess) \in Nat /\ DOMAIN days = DOMAIN excess
  BY ExcessSequence DEF FollowUpInv
<1> HIDE DEF excess
<1>2. ASSUME NEW i \in DOMAIN days
      PROVE  first_two_day_recovery_index(Without(i)) # NA =>
               /\ first_two_day_recovery_index(excess) # NA
               /\ first_two_day_recovery_index(excess) <= first_two_day_recovery_index(Without(i))
  <2>1. Without(i) \in Seq(Int \cup {NA}) /\ Len(Without(i)) = Len(excess)
    BY <1>1
  <2>2. \A k \in 1..Len(excess) : Within(Without(i)[k]) => Within(excess[k])
    <3> TAKE k \in 1..Len(excess)
    <3>1. CASE k = i
      <4>1. Without(i)[k] = NA
        BY <1>1, <3>1
      <4> QED BY <4>1 DEF Within
    <3>2. CASE k # i
      <4>1. Without(i)[k] = excess[k]
        BY <1>1, <3>2
      <4> QED BY <4>1
    <3> QED BY <3>1, <3>2
  <2> HIDE DEF Without
  <2>3. PairsOf(Without(i)) \subseteq PairsOf(excess)
    <3> SUFFICES ASSUME NEW k \in PairsOf(Without(i)) PROVE k \in PairsOf(excess)
      OBVIOUS
    <3>1. /\ k \in 1..(Len(excess) - 1)
          /\ Within(Without(i)[k]) /\ Within(Without(i)[k + 1])
      BY <2>1 DEF PairsOf
    <3>2. k \in 1..Len(excess) /\ k + 1 \in 1..Len(excess)
      BY <1>1, <3>1
    <3> QED BY <2>2, <3>1, <3>2 DEF PairsOf
  <2>4. /\ first_two_day_recovery_index(excess) = NA <=> PairsOf(excess) = {}
        /\ first_two_day_recovery_index(excess) # NA =>
             \A k \in PairsOf(excess) : first_two_day_recovery_index(excess) <= k
    BY <1>1, FirstPair
  <2>5. /\ first_two_day_recovery_index(Without(i)) # NA =>
             first_two_day_recovery_index(Without(i)) \in PairsOf(Without(i))
    BY <1>1, <2>1, FirstPair
  <2> QED BY <2>3, <2>4, <2>5
<1> QED BY <1>2 DEF MissingNeverHelps, excess

\* Enough valid days, all of them within the threshold, contain a recovery.
LEMMA WithinRecovers ==
  ASSUME FollowUpInv, Complete(days), NEW i \in 1..FOLLOWUP_DAYS, i + 1 \in 1..FOLLOWUP_DAYS,
         Within(Excess(days[i])), Within(Excess(days[i + 1]))
  PROVE  recovery_time(days).time # NA => ~ recovery_time(days).censored
<1> DEFINE excess == ExcessOf(days)
<1>1. /\ excess \in Seq(Int \cup {NA}) /\ Len(excess) = FOLLOWUP_DAYS /\ FOLLOWUP_DAYS \in Nat
      /\ \A k \in 1..FOLLOWUP_DAYS : excess[k] = Excess(days[k])
  BY ExcessSequence, MetricAssumption DEF FollowUpInv, Complete
<1> HIDE DEF excess
<1>2. i \in 1..(Len(excess) - 1)
  BY <1>1
<1>3. i \in PairsOf(excess)
  BY <1>1, <1>2 DEF PairsOf
<1>4. first_two_day_recovery_index(excess) # NA
  BY <1>1, <1>3, FirstPair
<1>5. CASE Cardinality(PairedDays(days)) < MINIMUM_VALID_FOLLOWUP_DAYS
  <2>1. recovery_time(days).time = NA
    BY <1>5 DEF recovery_time
  <2> QED BY <2>1
<1>6. CASE ~ (Cardinality(PairedDays(days)) < MINIMUM_VALID_FOLLOWUP_DAYS)
  <2>1. recovery_time(days).censored = (first_two_day_recovery_index(excess) = NA)
    BY <1>6 DEF recovery_time, excess
  <2> QED BY <1>4, <2>1
<1> QED BY <1>5, <1>6

\* A sum of nonnegative numbers is zero only if each of them is.
LEMMA SumZeroParts ==
  ASSUME NEW f, NEW S, IsFiniteSet(S), \A x \in S : f[x] \in Int /\ 0 <= f[x],
         SumFunctionOnSet(f, S) = 0, NEW x \in S
  PROVE  f[x] = 0
<1>1. SumFunctionOnSet(f, S) = f[x] + SumFunctionOnSet(f, S \ {x})
  BY SumTake
<1>2. IsFiniteSet(S \ {x}) /\ \A y \in S \ {x} : f[y] \in Int /\ 0 <= f[y] /\ f[y] <= f[y]
  BY FS_Subset
<1>3. SumFunctionOnSet(f, S \ {x}) \in Int /\ 0 <= SumFunctionOnSet(f, S \ {x})
  BY <1>2, SumBelow
<1> QED BY <1>1, <1>3

\* The days with a pair are days of the horizon.
LEMMA PairedFacts ==
  ASSUME FollowUpInv, Complete(days)
  PROVE  /\ PairedDays(days) \subseteq 1..FOLLOWUP_DAYS /\ IsFiniteSet(PairedDays(days))
         /\ Cardinality(PairedDays(days)) \in Nat /\ DOMAIN days = 1..FOLLOWUP_DAYS
         /\ \A i \in PairedDays(days) : Excess(days[i]) \in Int
<1>1. days \in Seq(DayRecords) /\ Len(days) = FOLLOWUP_DAYS
  BY DEF FollowUpInv, Complete
<1>2. DOMAIN days = 1..FOLLOWUP_DAYS /\ IsFiniteSet(DOMAIN days)
  BY <1>1, Positions
<1>3. PairedDays(days) = {i \in DOMAIN days : Excess(days[i]) # NA}
  BY DEF PairedDays, Where
<1>4. \A i \in DOMAIN days : Excess(days[i]) \in Int \cup {NA}
  <2> TAKE i \in DOMAIN days
  <2>1. days[i] \in DayRecords
    BY <1>1, ExcessSequence
  <2>2. PICK d \in DayCandidates : days[i] = Record(d)
    BY <2>1 DEF DayRecords
  <2> QED BY <2>2, DayFacts
<1>5. PairedDays(days) \subseteq DOMAIN days
  BY <1>3
<1>6. IsFiniteSet(PairedDays(days)) /\ Cardinality(PairedDays(days)) \in Nat
  BY <1>2, <1>5, FS_Subset, FS_CardinalityType
<1> QED BY <1>2, <1>3, <1>4, <1>5, <1>6

\* No positive excess, no censoring.
LEMMA ZeroMeansRecovered ==
  ASSUME FollowUpInv
  PROVE  ZeroPersistenceRecovers
<1> SUFFICES ASSUME Complete(days)
             PROVE  /\ positive_excess_action_auc(days).value = NA <=> recovery_time(days).time = NA
                    /\ positive_excess_action_auc(days).value # NA
                         /\ positive_excess_action_auc(days).value.num = 0
                         => ~ recovery_time(days).censored
  BY DEF ZeroPersistenceRecovers
<1> DEFINE paired == PairedDays(days)
           n == Cardinality(paired)
           excess == [i \in paired |-> IF Excess(days[i]) > 0 THEN Excess(days[i]) ELSE 0]
           sum == SumFunctionOnSet(excess, paired)
           missing == Cardinality(DOMAIN days \ paired)
           auc == positive_excess_action_auc(days)
           r == recovery_time(days)
<1>1. /\ paired \subseteq 1..FOLLOWUP_DAYS /\ IsFiniteSet(paired) /\ n \in Nat
      /\ \A i \in paired : Excess(days[i]) \in Int
  BY PairedFacts
<1>2. \A i \in paired : /\ excess[i] \in Int /\ 0 <= excess[i]
                        /\ excess[i] = 0 => Within(Excess(days[i]))
  <2> TAKE i \in paired
  <2>1. Excess(days[i]) \in Int /\ Excess(days[i]) # NA
    BY <1>1, ObservationAssumption
  <2> QED BY <2>1 DEF Within, RECOVERY_THRESHOLD
<1>3. SumFunction(excess) = sum
  <2>1. DOMAIN excess = paired
    OBVIOUS
  <2> HIDE DEF excess, paired
  <2> QED BY <2>1 DEF SumFunction
<1>4. auc = MeanOfDays(Fraction(sum, 10), paired, days, MINIMUM_VALID_FOLLOWUP_DAYS,
                       "insufficient_paired_days")
  <2> HIDE DEF sum
  <2> QED BY <1>3 DEF positive_excess_action_auc
<1>5. FOLLOWUP_DAYS \in Nat /\ MINIMUM_VALID_FOLLOWUP_DAYS \in Nat /\ MINIMUM_VALID_FOLLOWUP_DAYS > 0
      /\ 1 <= FOLLOWUP_DAYS /\ 2 * MINIMUM_VALID_FOLLOWUP_DAYS > FOLLOWUP_DAYS - 1 + 2
  BY MetricAssumption
<1>6. sum \in Int
  BY <1>1, <1>2, SumType
<1>7. first_two_day_recovery_index(ExcessOf(days)) # NA =>
        first_two_day_recovery_index(ExcessOf(days)) \in Nat
  <2>1. Len(ExcessOf(days)) \in Nat
    BY ExcessSequence DEF FollowUpInv
  <2> QED BY <2>1, FirstPair
<1>8. CASE n < MINIMUM_VALID_FOLLOWUP_DAYS
  <2>1. auc.value = NA
    BY <1>4, <1>8 DEF MeanOfDays, NotAvailable
  <2>2. r.time = NA
    BY <1>8 DEF recovery_time
  <2> QED BY <2>1, <2>2
<1>9. CASE ~ (n < MINIMUM_VALID_FOLLOWUP_DAYS)
  <2>1. n # 0
    BY <1>1, <1>5, <1>9
  <2>2. auc.value = [num |-> sum, den |-> 10 * n]
    <3> HIDE DEF sum, n, auc
    <3> QED BY <1>4, <1>9, <2>1 DEF MeanOfDays, Ratio, Available, Fraction, n
  <2>3. auc.value # NA
    <3>1. 10 * n \in Int
      BY <1>1
    <3> QED BY <1>6, <2>2, <3>1, ObservationAssumption
  <2>4. r.time = (IF first_two_day_recovery_index(ExcessOf(days)) = NA THEN Censored
                  ELSE first_two_day_recovery_index(ExcessOf(days)))
    BY <1>9 DEF recovery_time
  <2>5. Censored \in Nat /\ NA \notin Nat
    BY <1>5, ObservationAssumption DEF Censored
  <2>6. r.time # NA
    BY <1>7, <2>4, <2>5
  <2>7. ASSUME sum = 0
        PROVE  ~ r.censored
    <3>1. \A i \in paired : Within(Excess(days[i]))
      <4> HIDE DEF excess
      <4> QED BY <1>1, <1>2, <2>7, SumZeroParts
    <3>2. 2 * n > FOLLOWUP_DAYS - 1 + 2
      BY <1>1, <1>5, <1>9
    <3>3. PICK i \in paired : i + 1 \in paired
      <4> HIDE DEF paired
      <4> QED BY <1>1, <1>5, <3>2, TwoInARow
    <3>4. i \in 1..FOLLOWUP_DAYS /\ i + 1 \in 1..FOLLOWUP_DAYS
      BY <1>1, <3>3
    <3> QED BY <2>6, <3>1, <3>3, <3>4, WithinRecovers
  <2>8. auc.value.num = sum
    BY <2>2
  <2> HIDE DEF sum, auc
  <2> QED BY <2>3, <2>6, <2>7, <2>8 DEF auc
<1> QED BY <1>8, <1>9

\* A mean over enough days is its sum over their number; otherwise there is none.
IsMean(m, num, den, valid, enough) ==
  /\ m.valid = Cardinality(valid)
  /\ Cardinality(valid) < enough => m.value = NA
  /\ ~ (Cardinality(valid) < enough) =>
       m.value # NA /\ m.value.num = num /\ m.value.den = den * Cardinality(valid)

\* So it is for what the metrics report.
LEMMA MeanValue ==
  ASSUME NEW num \in Int, NEW den \in Int, NEW valid, IsFiniteSet(valid), NEW span,
         NEW enough \in Nat, enough > 0, NEW reason
  PROVE  IsMean(MeanOfDays(Fraction(num, den), valid, span, enough, reason), num, den, valid, enough)
<1> DEFINE m == MeanOfDays(Fraction(num, den), valid, span, enough, reason)
<1>0. PICK n : n = Cardinality(valid)
  OBVIOUS
<1>1. n \in Nat
  BY <1>0, FS_CardinalityType
<1>2. CASE n < enough
  <2>1. m.value = NA /\ m.valid = n
    BY <1>0, <1>2 DEF MeanOfDays, NotAvailable
  <2> QED BY <1>0, <1>2, <2>1 DEF IsMean
<1>3. CASE ~ (n < enough)
  <2>1. n # 0
    BY <1>1, <1>3
  <2>2. m.value = [num |-> num, den |-> den * n] /\ m.valid = n
    BY <1>0, <1>3, <2>1 DEF MeanOfDays, Ratio, Available, Fraction
  <2>3. den * n \in Int
    BY <1>1
  <2>4. m.value # NA
    BY <2>2, <2>3, ObservationAssumption
  <2> HIDE DEF m
  <2>5. m.value.num = num /\ m.value.den = den * n
    BY <2>2
  <2> QED BY <1>0, <1>3, <2>2, <2>4, <2>5 DEF m, IsMean
<1> QED BY <1>2, <1>3

\* The treated days with every component, and those of them that are coherent.
AssessedDays(s) == {i \in FIRST_TREATED_DAY..FOLLOWUP_DAYS : Coherent(s[i]) # NA}
CoherentDays(s) == {i \in AssessedDays(s) : Coherent(s[i])}

\* A coherent day has a correct fact, and its action is within the threshold.
LEMMA CoherentFacts ==
  ASSUME NEW r \in DayRecords, Coherent(r) # NA, Coherent(r)
  PROVE  r.fact = TRUE /\ Within(Excess(r))
<1>1. PICK d \in DayCandidates : r = Record(d)
  BY DEF DayRecords
<1>2. /\ r.fact \in BOOLEAN \cup {NA} /\ r.supported \in BOOLEAN \cup {NA}
      /\ r.contradiction \in BOOLEAN \cup {NA} /\ r.within \in BOOLEAN \cup {NA}
      /\ r.within = TRUE => Within(Excess(r))
  BY <1>1, DayFacts
<1>3. NA \notin {r.fact, r.supported, r.within, r.contradiction}
  BY DEF Coherent
<1>4. r.fact \in BOOLEAN /\ r.within \in BOOLEAN
  BY <1>2, <1>3
<1>5. r.fact /\ r.within
  BY <1>3, Zenon DEF Coherent
<1>6. r.fact = TRUE /\ r.within = TRUE
  BY <1>4, <1>5, Zenon
<1> QED BY <1>2, <1>6

\* The rate of coherent days.
LEMMA CoherentRate ==
  ASSUME FollowUpInv, Complete(days)
  PROVE  /\ IsFiniteSet(AssessedDays(days)) /\ CoherentDays(days) \subseteq AssessedDays(days)
         /\ IsFiniteSet(CoherentDays(days))
         /\ coherent_adaptation_rate(days).value = NA
              <=> Cardinality(AssessedDays(days)) < MINIMUM_COHERENT_DAYS
         /\ coherent_adaptation_rate(days).value # NA =>
              /\ coherent_adaptation_rate(days).value.num = Cardinality(CoherentDays(days))
              /\ coherent_adaptation_rate(days).value.den = Cardinality(AssessedDays(days))
         /\ \A i \in CoherentDays(days) : /\ i \in 1..FOLLOWUP_DAYS
                                          /\ days[i].fact = TRUE /\ Within(Excess(days[i]))
<1> DEFINE span == FIRST_TREATED_DAY..FOLLOWUP_DAYS
           treated == [i \in span |-> days[i]]
           rate == coherent_adaptation_rate(days)
           n == Cardinality(AssessedDays(days))
           h == Cardinality(CoherentDays(days))
<1>1. /\ FIRST_TREATED_DAY \in Nat /\ FOLLOWUP_DAYS \in Nat /\ 1 <= FIRST_TREATED_DAY
      /\ MINIMUM_COHERENT_DAYS \in Nat /\ MINIMUM_COHERENT_DAYS > 0
  BY MetricAssumption
<1>2. IsFiniteSet(span) /\ span \subseteq 1..FOLLOWUP_DAYS
  BY <1>1, FS_Interval
<1>3. AssessedDays(days) \subseteq span /\ CoherentDays(days) \subseteq AssessedDays(days)
  BY DEF AssessedDays, CoherentDays
<1>4. IsFiniteSet(AssessedDays(days)) /\ IsFiniteSet(CoherentDays(days)) /\ n \in Nat /\ h \in Nat
  BY <1>2, <1>3, FS_Subset, FS_CardinalityType
<1>5. rate = MeanOfDays(Fraction(h, 1), AssessedDays(days), treated, MINIMUM_COHERENT_DAYS,
                        "insufficient_valid_days")
  <2>1. Where(treated, LAMBDA d : Coherent(d) # NA) = AssessedDays(days)
    BY DEF Where, AssessedDays
  <2> QED BY <2>1 DEF coherent_adaptation_rate, CoherentDays
<1>6. /\ rate.value = NA <=> n < MINIMUM_COHERENT_DAYS
      /\ ~ (n < MINIMUM_COHERENT_DAYS) => rate.value.num = h /\ rate.value.den = 1 * n
  <2>1. h \in Int /\ 1 \in Int
    BY <1>4
  <2> HIDE DEF h, treated, rate
  <2>2. IsMean(rate, h, 1, AssessedDays(days), MINIMUM_COHERENT_DAYS)
    BY <1>1, <1>4, <1>5, <2>1, MeanValue
  <2> QED BY <2>2 DEF IsMean
<1>7. 1 * n = n
  BY <1>4
<1>8. \A i \in CoherentDays(days) : /\ i \in 1..FOLLOWUP_DAYS
                                    /\ days[i].fact = TRUE /\ Within(Excess(days[i]))
  <2> TAKE i \in CoherentDays(days)
  <2>1. i \in 1..FOLLOWUP_DAYS
    BY <1>2, <1>3
  <2>2. days[i] \in DayRecords
    BY <2>1, ExcessSequence DEF FollowUpInv, Complete
  <2>3. Coherent(days[i]) # NA
    BY DEF CoherentDays, AssessedDays
  <2>4. Coherent(days[i])
    BY Zenon DEF CoherentDays
  <2> QED BY <2>1, <2>2, <2>3, <2>4, CoherentFacts
<1> QED BY <1>3, <1>4, <1>6, <1>7, <1>8

\* A trajectory that is coherent throughout recovers.
LEMMA CoherenceRecovers ==
  ASSUME FollowUpInv
  PROVE  FullyCoherentRecovers
<1> SUFFICES ASSUME Complete(days),
                    coherent_adaptation_rate(days).value # NA,
                    Same(coherent_adaptation_rate(days).value, Fraction(1, 1)),
                    recovery_time(days).time # NA
             PROVE  ~ recovery_time(days).censored
  BY DEF FullyCoherentRecovers
<1>1. PICK n, h : n = Cardinality(AssessedDays(days)) /\ h = Cardinality(CoherentDays(days))
  OBVIOUS
<1>2. n \in Nat /\ h \in Nat /\ ~ (n < MINIMUM_COHERENT_DAYS)
  BY <1>1, CoherentRate, FS_CardinalityType
<1>3. h = n
  <2>1. coherent_adaptation_rate(days).value.num = h /\ coherent_adaptation_rate(days).value.den = n
    BY <1>1, CoherentRate
  <2>2. h * 1 = 1 * n
    BY <2>1 DEF Same, Fraction
  <2> QED BY <1>2, <2>2
<1>4. CoherentDays(days) = AssessedDays(days)
  BY <1>1, <1>3, CoherentRate, FS_Subset
<1>5. /\ FIRST_TREATED_DAY \in Nat /\ FOLLOWUP_DAYS \in Nat /\ FIRST_TREATED_DAY <= FOLLOWUP_DAYS
      /\ MINIMUM_COHERENT_DAYS \in Nat
      /\ 2 * MINIMUM_COHERENT_DAYS > FOLLOWUP_DAYS - FIRST_TREATED_DAY + 2
  BY MetricAssumption
<1>6. 2 * n > FOLLOWUP_DAYS - FIRST_TREATED_DAY + 2
  BY <1>2, <1>5
<1>7. PICK i \in CoherentDays(days) : i + 1 \in CoherentDays(days)
  <2>1. CoherentDays(days) \subseteq FIRST_TREATED_DAY..FOLLOWUP_DAYS
    BY DEF CoherentDays, AssessedDays
  <2> QED BY <1>1, <1>3, <1>5, <1>6, <2>1, TwoInARow
<1>8. /\ i \in 1..FOLLOWUP_DAYS /\ Within(Excess(days[i]))
      /\ i + 1 \in 1..FOLLOWUP_DAYS /\ Within(Excess(days[i + 1]))
  BY <1>7, CoherentRate
<1> QED BY <1>8, WithinRecovers

\* The coherent days and the days with a wrong fact are different days of those with a fact.
LEMMA WrongFactIsNotCoherent ==
  ASSUME FollowUpInv
  PROVE  FactsBoundCoherence
<1> DEFINE errors == fact_error_auc(days)
           rate == coherent_adaptation_rate(days)
           known == {i \in DOMAIN days : days[i].fact # NA}
           wrong == {i \in known : days[i].fact = FALSE}
<1> SUFFICES ASSUME Complete(days), rate.value # NA, errors.value # NA
             PROVE  rate.value.num + errors.value.num <= errors.valid
  BY DEF FactsBoundCoherence
<1>1. DOMAIN days = 1..FOLLOWUP_DAYS /\ IsFiniteSet(DOMAIN days)
  <2>1. DOMAIN days = 1..FOLLOWUP_DAYS /\ FOLLOWUP_DAYS \in Nat
    BY PairedFacts, MetricAssumption
  <2> QED BY <2>1, FS_Interval
<1>2. IsFiniteSet(known) /\ IsFiniteSet(wrong) /\ wrong \subseteq known
  BY <1>1, FS_Subset
<1>3. Cardinality(known) \in Nat /\ Cardinality(wrong) \in Nat
  BY <1>2, FS_CardinalityType
<1>4. errors = MeanOfDays(Fraction(Cardinality(wrong), 1), known, days, MINIMUM_VALID_FOLLOWUP_DAYS,
                          "insufficient_valid_days")
  <2>1. Where(days, LAMBDA d : d.fact # NA) = known
    BY DEF Where
  <2> QED BY <2>1 DEF fact_error_auc
<1>5. errors.valid = Cardinality(known) /\ errors.value.num = Cardinality(wrong)
  <2>1. MINIMUM_VALID_FOLLOWUP_DAYS \in Nat /\ MINIMUM_VALID_FOLLOWUP_DAYS > 0
    BY MetricAssumption
  <2>2. Cardinality(wrong) \in Int /\ 1 \in Int
    BY <1>3
  <2> HIDE DEF known, wrong, errors
  <2>3. IsMean(errors, Cardinality(wrong), 1, known, MINIMUM_VALID_FOLLOWUP_DAYS)
    BY <1>2, <1>4, <2>1, <2>2, MeanValue
  <2>4. errors.value # NA
    BY DEF errors
  <2> QED BY <2>3, <2>4 DEF IsMean
<1>6. rate.value.num = Cardinality(CoherentDays(days))
  BY CoherentRate
<1>7. IsFiniteSet(CoherentDays(days))
  BY CoherentRate
<1>8. CoherentDays(days) \subseteq known
  <2> SUFFICES ASSUME NEW i \in CoherentDays(days) PROVE i \in known
    OBVIOUS
  <2>1. i \in 1..FOLLOWUP_DAYS /\ days[i].fact = TRUE
    BY CoherentRate
  <2>2. days[i].fact # NA
    BY <2>1, ObservationAssumption
  <2> QED BY <1>1, <2>1, <2>2
<1>9. CoherentDays(days) \cap wrong = {}
  <2> SUFFICES ASSUME NEW i \in CoherentDays(days), i \in wrong PROVE FALSE
    OBVIOUS
  <2>1. days[i].fact = TRUE /\ days[i].fact = FALSE
    BY CoherentRate
  <2> QED BY <2>1
<1> HIDE DEF known, wrong
<1>10. Cardinality(CoherentDays(days) \cup wrong) <= Cardinality(known)
  BY <1>2, <1>8, FS_Subset
<1>11. Cardinality(CoherentDays(days) \cup wrong)
         = Cardinality(CoherentDays(days)) + Cardinality(wrong) - Cardinality(CoherentDays(days) \cap wrong)
  BY <1>2, <1>7, FS_Union
<1>12. Cardinality(CoherentDays(days) \cap wrong) = 0 /\ Cardinality(CoherentDays(days)) \in Nat
  BY <1>7, <1>9, FS_EmptySet, FS_CardinalityType
<1> QED BY <1>3, <1>5, <1>6, <1>10, <1>11, <1>12

\* A product of shares, day by day.
Products(n, r, S) ==
  S = [t \in 0..n |-> IF t = 0 THEN Fraction(1, 1) ELSE Times(S[t - 1], r[t])]

\* There is one, whatever the shares.
LEMMA ProductsExist ==
  ASSUME NEW n \in Nat, NEW r
  PROVE  \E S : Products(n, r, S)
<1> DEFINE Good(k) == \E S : Products(k, r, S)
           T == {k \in Nat : ~ Good(k)}
<1>1. T = {}
  <2> SUFFICES ASSUME T # {} PROVE FALSE
    OBVIOUS
  <2>1. PICK k \in T : \A m \in T : k <= m
    <3>1. T \subseteq Nat
      OBVIOUS
    <3> HIDE DEF T
    <3> QED BY <3>1, Least
  <2>2. Good(0)
    <3>1. Products(0, r, [t \in 0..0 |-> Fraction(1, 1)])
      BY DEF Products
    <3> QED BY <3>1
  <2>3. k \in Nat /\ k # 0 /\ k - 1 \in Nat /\ Good(k - 1)
    <3>1. k \in Nat /\ ~ Good(k)
      OBVIOUS
    <3> HIDE DEF Good
    <3>2. k # 0
      BY <2>2, <3>1
    <3>3. k - 1 \in Nat /\ ~ (k <= k - 1)
      BY <3>1, <3>2
    <3>4. k - 1 \notin T
      <4> HIDE DEF T
      <4> QED BY <2>1, <3>3
    <3> QED BY <3>1, <3>2, <3>3, <3>4
  <2>4. PICK g : Products(k - 1, r, g)
    BY <2>3
  <2> DEFINE S == [t \in 0..k |-> IF t = k THEN Times(g[k - 1], r[k]) ELSE g[t]]
  <2>5. \A t \in 0..k : S[t] = IF t = 0 THEN Fraction(1, 1) ELSE Times(S[t - 1], r[t])
    <3> TAKE t \in 0..k
    <3>1. CASE t = k
      <4>1. S[k] = Times(g[k - 1], r[k]) /\ S[k - 1] = g[k - 1]
        BY <2>3
      <4> HIDE DEF S
      <4> QED BY <2>3, <3>1, <4>1
    <3>2. CASE t # k
      <4>1. t \in 0..(k - 1) /\ S[t] = g[t]
        BY <2>3, <3>2
      <4>2. g[t] = IF t = 0 THEN Fraction(1, 1) ELSE Times(g[t - 1], r[t])
        BY <2>4, <4>1 DEF Products
      <4>3. t # 0 => S[t - 1] = g[t - 1]
        BY <2>3, <4>1
      <4> HIDE DEF S
      <4> QED BY <4>1, <4>2, <4>3
    <3> QED BY <3>1, <3>2
  <2>6. Products(k, r, S)
    <3>1. S = [t \in 0..k |-> S[t]]
      OBVIOUS
    <3> HIDE DEF S
    <3> QED BY <2>5, <3>1 DEF Products
  <2> QED BY <2>1, <2>6
<1> QED BY <1>1

\* Products of the same shares are the same.
LEMMA ProductsAgree ==
  ASSUME NEW m \in Nat, NEW n \in Nat, m <= n, NEW q, NEW r, NEW P, NEW S,
         Products(m, q, P), Products(n, r, S), \A t \in 1..m : q[t] = r[t]
  PROVE  \A t \in 0..m : P[t] = S[t]
<1> DEFINE T == {t \in 0..m : P[t] # S[t]}
<1>1. T = {}
  <2> SUFFICES ASSUME T # {} PROVE FALSE
    OBVIOUS
  <2>1. PICK t \in T : \A u \in T : t <= u
    <3>1. T \subseteq Nat
      OBVIOUS
    <3> HIDE DEF T
    <3> QED BY <3>1, Least
  <2>2. /\ P[t] = IF t = 0 THEN Fraction(1, 1) ELSE Times(P[t - 1], q[t])
        /\ S[t] = IF t = 0 THEN Fraction(1, 1) ELSE Times(S[t - 1], r[t])
    BY DEF Products
  <2>3. t \in 0..m /\ P[t] # S[t]
    OBVIOUS
  <2>4. t # 0
    BY <2>2, <2>3
  <2>5. t - 1 \in 0..m /\ t \in 1..m /\ ~ (t <= t - 1)
    BY <2>3, <2>4
  <2>6. P[t - 1] = S[t - 1]
    BY <2>1, <2>5
  <2> QED BY <2>2, <2>3, <2>4, <2>5, <2>6
<1> QED BY <1>1

\* The survival of the analysis is such a product.
LEMMA SurvivalIs ==
  ASSUME NEW rows, NEW h \in Nat
  PROVE  Products(h, [t \in 1..h |-> Remaining(rows, t)], Survival(rows, h))
<1> DEFINE r == [t \in 1..h |-> Remaining(rows, t)]
<1>1. PICK S : Products(h, r, S)
  BY ProductsExist
<1>2. \A U : Products(h, r, U) <=>
        U = [t \in 0..h |-> IF t = 0 THEN Fraction(1, 1) ELSE Times(U[t - 1], Remaining(rows, t))]
  <2> TAKE U
  <2>1. \A t \in 0..h : t # 0 => t \in 1..h
    OBVIOUS
  <2>2. [t \in 0..h |-> IF t = 0 THEN Fraction(1, 1) ELSE Times(U[t - 1], Remaining(rows, t))]
          = [t \in 0..h |-> IF t = 0 THEN Fraction(1, 1) ELSE Times(U[t - 1], r[t])]
    BY <2>1
  <2> QED BY <2>2 DEF Products
<1>3. Survival(rows, h) = CHOOSE U :
        U = [t \in 0..h |-> IF t = 0 THEN Fraction(1, 1) ELSE Times(U[t - 1], Remaining(rows, t))]
  BY DEF Survival
<1> HIDE DEF r
<1>4. S = [t \in 0..h |-> IF t = 0 THEN Fraction(1, 1) ELSE Times(S[t - 1], Remaining(rows, t))]
  BY <1>1, <1>2
<1>5. Survival(rows, h) =
        [t \in 0..h |-> IF t = 0 THEN Fraction(1, 1)
                        ELSE Times(Survival(rows, h)[t - 1], Remaining(rows, t))]
  BY <1>3, <1>4
<1> QED BY <1>2, <1>5 DEF r

\* The trajectories of the cohort with a time, and those of them still at risk on a day.
TimedRows == {i \in DOMAIN cohort : cohort[i].time # NA}
RiskSet(t) == {i \in TimedRows : cohort[i].time >= t}

\* A trajectory with a time recovered in the horizon or was censored at its end.
LEMMA TimedFacts ==
  ASSUME FollowUpInv
  PROVE  /\ IsFiniteSet(TimedRows)
         /\ FOLLOWUP_DAYS \in Nat /\ Censored = FOLLOWUP_DAYS + 1 /\ NA \notin Int
         /\ \A i \in TimedRows :
              /\ cohort[i].time \in 1..Censored /\ cohort[i].time \in Int
              /\ \/ cohort[i].time \in 1..FOLLOWUP_DAYS /\ cohort[i].censored = FALSE
                 \/ cohort[i].time = Censored /\ cohort[i].censored = TRUE
<1>1. IsFiniteSet(DOMAIN cohort) /\ \A i \in DOMAIN cohort : cohort[i] \in RecoveryRecords
  BY Positions DEF FollowUpInv
<1>2. IsFiniteSet(TimedRows)
  BY <1>1, FS_Subset DEF TimedRows
<1>3. FOLLOWUP_DAYS \in Nat /\ Censored = FOLLOWUP_DAYS + 1 /\ NA \notin Int
  BY MetricAssumption, ObservationAssumption DEF Censored
<1>4. ASSUME NEW i \in TimedRows
      PROVE  /\ cohort[i].time \in 1..Censored /\ cohort[i].time \in Int
             /\ \/ cohort[i].time \in 1..FOLLOWUP_DAYS /\ cohort[i].censored = FALSE
                \/ cohort[i].time = Censored /\ cohort[i].censored = TRUE
  <2>1. cohort[i] \in RecoveryRecords /\ cohort[i].time # NA
    BY <1>1 DEF TimedRows
  <2>2. \/ cohort[i].time \in 1..FOLLOWUP_DAYS /\ cohort[i].censored = FALSE
        \/ cohort[i].time = Censored /\ cohort[i].censored = TRUE
    BY <2>1 DEF RecoveryRecords
  <2>3. cohort[i].time \in 1..Censored /\ cohort[i].time \in Int
    <3>1. CASE cohort[i].time \in 1..FOLLOWUP_DAYS
      BY <1>3, <3>1
    <3>2. CASE cohort[i].time = Censored
      BY <1>3, <3>2
    <3> QED BY <2>2, <3>1, <3>2
  <2> QED BY <2>2, <2>3
<1> QED BY <1>2, <1>3, <1>4

\* Those at risk on a day of the horizon recover that day or are at risk on the next.
LEMMA RiskFacts ==
  ASSUME FollowUpInv, NEW t \in 1..FOLLOWUP_DAYS
  PROVE  /\ AtRisk(Observations, t) = Cardinality(RiskSet(t))
         /\ IsFiniteSet(RiskSet(t)) /\ RiskSet(t + 1) \subseteq RiskSet(t)
         /\ IsFiniteSet(RiskSet(t + 1))
         /\ Cardinality(RiskSet(t)) \in Nat /\ Cardinality(RiskSet(t + 1)) \in Nat
         /\ AtRisk(Observations, t) - Events(Observations, t) = Cardinality(RiskSet(t + 1))
         /\ {i \in RiskSet(t) : cohort[i].time > t \/ cohort[i].censored} = RiskSet(t + 1)
<1> DEFINE now == {i \in TimedRows : cohort[i].time = t}
<1>1. t \in Int /\ t + 1 \in Int /\ t # NA /\ ~ (t = Censored) /\ t <= FOLLOWUP_DAYS
  <2>1. t \in Int /\ t <= FOLLOWUP_DAYS
    BY TimedFacts
  <2> QED BY <2>1, TimedFacts
<1>2. \A i \in TimedRows : cohort[i].time \in Int /\ cohort[i].time # NA
  BY TimedFacts
<1>3. /\ IsFiniteSet(RiskSet(t)) /\ IsFiniteSet(RiskSet(t + 1)) /\ IsFiniteSet(now)
      /\ RiskSet(t) \subseteq TimedRows /\ RiskSet(t + 1) \subseteq TimedRows
  <2>1. RiskSet(t) \subseteq TimedRows /\ RiskSet(t + 1) \subseteq TimedRows /\ now \subseteq TimedRows
    BY DEF RiskSet
  <2> HIDE DEF now
  <2> QED BY <2>1, TimedFacts, FS_Subset
<1>4. RiskSet(t) = RiskSet(t + 1) \cup now /\ RiskSet(t + 1) \cap now = {}
  <2>1. \A i \in TimedRows : cohort[i].time >= t <=> (cohort[i].time >= t + 1 \/ cohort[i].time = t)
    BY <1>1, <1>2
  <2>2. \A i \in TimedRows : ~ (cohort[i].time >= t + 1 /\ cohort[i].time = t)
    BY <1>1, <1>2
  <2> QED BY <2>1, <2>2 DEF RiskSet
<1>5. DOMAIN Observations = DOMAIN cohort
      /\ \A i \in DOMAIN cohort : /\ Observations[i].time = cohort[i].time
                                  /\ Observations[i].recovered <=> cohort[i].censored = FALSE
  BY DEF Observations
<1>6. {i \in DOMAIN Observations : Observations[i].time # NA /\ Observations[i].time >= t} = RiskSet(t)
  BY <1>5 DEF RiskSet, TimedRows
<1>7. {i \in DOMAIN Observations : Observations[i].time = t /\ Observations[i].recovered} = now
  <2>1. \A i \in DOMAIN cohort : cohort[i].time = t => i \in TimedRows /\ cohort[i].censored = FALSE
    <3> TAKE i \in DOMAIN cohort
    <3> HAVE cohort[i].time = t
    <3>1. i \in TimedRows
      BY <1>1 DEF TimedRows
    <3> QED BY <1>1, <3>1, TimedFacts
  <2>2. now \subseteq DOMAIN cohort /\ \A i \in now : cohort[i].time = t
    BY DEF TimedRows
  <2> QED BY <1>5, <2>1, <2>2
<1>8. Cardinality(RiskSet(t) ) = Cardinality(RiskSet(t + 1)) + Cardinality(now)
  <2>1. Cardinality(RiskSet(t + 1) \cap now) = 0
    BY <1>4, FS_EmptySet
  <2> HIDE DEF now
  <2>2. Cardinality(RiskSet(t + 1)) \in Nat /\ Cardinality(now) \in Nat
    BY <1>3, FS_CardinalityType
  <2>3. Cardinality(RiskSet(t + 1) \cup now)
          = Cardinality(RiskSet(t + 1)) + Cardinality(now) - Cardinality(RiskSet(t + 1) \cap now)
    BY <1>3, FS_Union
  <2> QED BY <1>4, <2>1, <2>2, <2>3
<1>9. {i \in RiskSet(t) : cohort[i].time > t \/ cohort[i].censored} = RiskSet(t + 1)
  <2>1. \A i \in RiskSet(t) : (cohort[i].time > t \/ cohort[i].censored) <=> cohort[i].time >= t + 1
    <3> TAKE i \in RiskSet(t)
    <3>1. i \in TimedRows
      BY <1>3
    <3>2. CASE cohort[i].censored = FALSE
      BY <1>1, <1>2, <3>1, <3>2
    <3>3. CASE cohort[i].censored = TRUE /\ cohort[i].time = Censored
      BY <1>1, <1>2, <3>1, <3>3, TimedFacts
    <3> QED BY <3>1, <3>2, <3>3, TimedFacts
  <2>2. RiskSet(t + 1) = {i \in RiskSet(t) : cohort[i].time >= t + 1}
    BY <1>1, <1>2 DEF RiskSet
  <2> HIDE DEF RiskSet
  <2> QED BY <2>1, <2>2
<1>10. AtRisk(Observations, t) = Cardinality(RiskSet(t)) /\ Events(Observations, t) = Cardinality(now)
  BY <1>6, <1>7 DEF AtRisk, Events
<1>11. Cardinality(RiskSet(t)) \in Nat /\ Cardinality(RiskSet(t + 1)) \in Nat /\ Cardinality(now) \in Nat
  <2> HIDE DEF now
  <2> QED BY <1>3, FS_CardinalityType
<1> HIDE DEF now
<1>12. AtRisk(Observations, t) - Events(Observations, t) = Cardinality(RiskSet(t + 1))
  BY <1>8, <1>10, <1>11
<1> QED BY <1>3, <1>4, <1>9, <1>10, <1>11, <1>12

\* The share that remains, in both computations.
LEMMA RemainingIs ==
  ASSUME FollowUpInv, NEW t \in 1..FOLLOWUP_DAYS
  PROVE  /\ Remaining(Observations, t) =
              IF RiskSet(t) = {} THEN Fraction(1, 1)
              ELSE Fraction(Cardinality(RiskSet(t + 1)), Cardinality(RiskSet(t)))
         /\ recovery_curve(cohort)[t].value =
              IF RiskSet(t) = {} THEN NA
              ELSE Fraction(Cardinality(RiskSet(t + 1)), Cardinality(RiskSet(t)))
         /\ RiskSet(t) # {} => recovery_curve(cohort)[t].value # NA
<1>1. PICK r, s : r = Cardinality(RiskSet(t)) /\ s = Cardinality(RiskSet(t + 1))
  OBVIOUS
<1>2. r \in Nat /\ s \in Nat /\ (r = 0 <=> RiskSet(t) = {})
  BY <1>1, RiskFacts, FS_EmptySet
<1>3. Remaining(Observations, t) = IF r = 0 THEN Fraction(1, 1) ELSE Fraction(s, r)
  BY <1>1, RiskFacts DEF Remaining
<1>4. Where(cohort, LAMBDA c : c.time # NA) = TimedRows
  BY DEF Where, TimedRows
<1>5. {i \in TimedRows : cohort[i].time >= t} = RiskSet(t)
  BY DEF RiskSet
<1>6. {i \in RiskSet(t) : cohort[i].time > t \/ cohort[i].censored} = RiskSet(t + 1)
  BY RiskFacts
<1>7. recovery_curve(cohort)[t] =
        Ratio(Fraction(s, 1), r, Cardinality(DOMAIN cohort \ TimedRows), "no_trajectories_at_risk")
  BY <1>1, <1>4, <1>5, <1>6 DEF recovery_curve
<1>8. recovery_curve(cohort)[t].value = IF r = 0 THEN NA ELSE Fraction(s, 1 * r)
  BY <1>7 DEF Ratio, NotAvailable, Available, Fraction
<1>9. 1 * r = r /\ Fraction(s, r) # NA
  BY <1>2, ObservationAssumption DEF Fraction
<1> QED BY <1>1, <1>2, <1>3, <1>8, <1>9

\* Both curves are the same product.
LEMMA CurvesAreOne ==
  ASSUME FollowUpInv
  PROVE  CurvesAgree
<1> DEFINE curve == recovery_curve(cohort)
           Share(t) == IF curve[t].value = NA THEN Fraction(1, 1) ELSE curve[t].value
           Product == CHOOSE P : P = [t \in 0..FOLLOWUP_DAYS |->
                        IF t = 0 THEN Fraction(1, 1) ELSE Times(P[t - 1], Share(t))]
           q == [t \in 1..FOLLOWUP_DAYS |-> Share(t)]
           r == [t \in 1..Censored |-> Remaining(Observations, t)]
           S == Survival(Observations, Censored)
<1>1. FOLLOWUP_DAYS \in Nat /\ Censored \in Nat /\ Censored = FOLLOWUP_DAYS + 1
  BY MetricAssumption DEF Censored
<1>2. \A U : Products(FOLLOWUP_DAYS, q, U) <=>
        U = [t \in 0..FOLLOWUP_DAYS |-> IF t = 0 THEN Fraction(1, 1) ELSE Times(U[t - 1], Share(t))]
  <2> TAKE U
  <2>1. \A t \in 0..FOLLOWUP_DAYS : t # 0 => t \in 1..FOLLOWUP_DAYS
    OBVIOUS
  <2> HIDE DEF Share
  <2>2. [t \in 0..FOLLOWUP_DAYS |-> IF t = 0 THEN Fraction(1, 1) ELSE Times(U[t - 1], Share(t))]
          = [t \in 0..FOLLOWUP_DAYS |-> IF t = 0 THEN Fraction(1, 1) ELSE Times(U[t - 1], q[t])]
    BY <2>1
  <2> QED BY <2>2 DEF Products
<1>3. Products(FOLLOWUP_DAYS, q, Product)
  <2> HIDE DEF Share, q
  <2>1. PICK U : Products(FOLLOWUP_DAYS, q, U)
    BY <1>1, ProductsExist
  <2>2. U = [t \in 0..FOLLOWUP_DAYS |-> IF t = 0 THEN Fraction(1, 1) ELSE Times(U[t - 1], Share(t))]
    BY <1>2, <2>1
  <2>3. Product = [t \in 0..FOLLOWUP_DAYS |->
                     IF t = 0 THEN Fraction(1, 1) ELSE Times(Product[t - 1], Share(t))]
    BY <2>2
  <2> QED BY <1>2, <2>3
<1>4. Products(Censored, r, S)
  BY <1>1, SurvivalIs
<1>5. \A t \in 1..FOLLOWUP_DAYS : q[t] = r[t]
  <2> TAKE t \in 1..FOLLOWUP_DAYS
  <2>1. t \in 1..Censored
    BY <1>1
  <2>2. q[t] = Share(t) /\ r[t] = Remaining(Observations, t)
    BY <2>1
  <2>3. Share(t) = Remaining(Observations, t)
    BY RemainingIs
  <2> QED BY <2>2, <2>3
<1>6. \A t \in 0..FOLLOWUP_DAYS : Product[t] = S[t]
  <2> HIDE DEF q, r, Product, S
  <2> QED BY <1>1, <1>3, <1>4, <1>5, ProductsAgree
<1>7. \A t \in 1..FOLLOWUP_DAYS : Same(Product[t], S[t])
  <2> TAKE t \in 1..FOLLOWUP_DAYS
  <2>1. t \in 0..FOLLOWUP_DAYS
    BY <1>1
  <2> HIDE DEF Product, S
  <2> QED BY <1>6, <2>1 DEF Same
<1> QED BY <1>7 DEF CurvesAgree

\* A sum of sums is the sum of the two.
LEMMA SumPlus ==
  ASSUME NEW f, NEW g, NEW h, NEW S, IsFiniteSet(S),
         \A x \in S : f[x] \in Int /\ g[x] \in Int /\ h[x] = f[x] + g[x]
  PROVE  SumFunctionOnSet(h, S) = SumFunctionOnSet(f, S) + SumFunctionOnSet(g, S)
<1> DEFINE F(s) == SumFunctionOnSet(f, s)
           G(s) == SumFunctionOnSet(g, s)
           H(s) == SumFunctionOnSet(h, s)
           T == {s \in SUBSET S : ~ (H(s) = F(s) + G(s))}
<1>0. \A s \in SUBSET S : IsFiniteSet(s) /\ F(s) \in Int /\ G(s) \in Int
  BY FS_Subset, SumType
<1>1. T = {}
  <2> SUFFICES ASSUME T # {} PROVE FALSE
    OBVIOUS
  <2>1. \A s \in T : IsFiniteSet(s)
    BY <1>0
  <2>2. PICK s \in T : \A t \in T : Cardinality(s) <= Cardinality(t)
    <3> HIDE DEF T
    <3> QED BY <2>1, Smallest
  <2>3. s # {}
    <3>1. F({}) = 0 /\ G({}) = 0 /\ H({}) = 0
      BY SumOfNone
    <3> HIDE DEF F, G, H
    <3>2. H({}) = F({}) + G({})
      BY <3>1
    <3> QED BY <2>2, <3>2
  <2>4. Member(s) \in s
    BY <2>3 DEF Member
  <2>5. Cardinality(s \ {Member(s)}) = Cardinality(s) - 1 /\ Cardinality(s) \in Nat
    BY <2>1, <2>4, FS_RemoveElement, FS_CardinalityType
  <2>6. s \ {Member(s)} \notin T
    BY <2>2, <2>5
  <2>7. /\ F(s) = f[Member(s)] + F(s \ {Member(s)})
        /\ G(s) = g[Member(s)] + G(s \ {Member(s)})
        /\ H(s) = h[Member(s)] + H(s \ {Member(s)})
    BY <2>1, <2>3, SumStep
  <2>8. /\ H(s \ {Member(s)}) = F(s \ {Member(s)}) + G(s \ {Member(s)})
        /\ F(s \ {Member(s)}) \in Int /\ G(s \ {Member(s)}) \in Int
    BY <1>0, <2>6
  <2>9. f[Member(s)] \in Int /\ g[Member(s)] \in Int /\ h[Member(s)] = f[Member(s)] + g[Member(s)]
    BY <2>4
  <2> HIDE DEF F, G, H
  <2>10. H(s) = F(s) + G(s)
    BY <2>7, <2>8, <2>9
  <2> QED BY <2>2, <2>10
<1> QED BY <1>1

\* A sum of ones and zeros counts the ones.
LEMMA SumCounts ==
  ASSUME NEW f, NEW S, IsFiniteSet(S), NEW A, A \subseteq S,
         \A x \in S : f[x] = IF x \in A THEN 1 ELSE 0
  PROVE  SumFunctionOnSet(f, S) = Cardinality(A)
<1> DEFINE F(s) == SumFunctionOnSet(f, s)
           T == {s \in SUBSET S : F(s) # Cardinality(s \cap A)}
<1>1. T = {}
  <2> SUFFICES ASSUME T # {} PROVE FALSE
    OBVIOUS
  <2>1. \A s \in T : IsFiniteSet(s)
    BY FS_Subset
  <2>2. PICK s \in T : \A t \in T : Cardinality(s) <= Cardinality(t)
    <3> HIDE DEF T
    <3> QED BY <2>1, Smallest
  <2>3. s # {}
    BY <2>2, SumOfNone, FS_EmptySet
  <2>4. Member(s) \in s
    BY <2>3 DEF Member
  <2>5. Cardinality(s \ {Member(s)}) = Cardinality(s) - 1 /\ Cardinality(s) \in Nat
    BY <2>1, <2>4, FS_RemoveElement, FS_CardinalityType
  <2>6. s \ {Member(s)} \notin T
    BY <2>2, <2>5
  <2>7. F(s) = f[Member(s)] + F(s \ {Member(s)})
    BY <2>1, <2>3, SumStep
  <2>8. F(s \ {Member(s)}) = Cardinality((s \ {Member(s)}) \cap A)
    BY <2>6
  <2>9. PICK B, k : B = s \cap A /\ k = Member(s)
    OBVIOUS
  <2>10. /\ IsFiniteSet(B) /\ Cardinality(B) \in Nat
         /\ (s \ {Member(s)}) \cap A = B \ {k} /\ (k \in B <=> k \in A)
    <3>1. B \subseteq s
      BY <2>9
    <3>2. IsFiniteSet(B)
      BY <2>1, <3>1, FS_Subset
    <3> QED BY <2>4, <2>9, <3>2, FS_CardinalityType
  <2>11. Cardinality(B \ {k}) = IF k \in B THEN Cardinality(B) - 1 ELSE Cardinality(B)
    BY <2>10, FS_RemoveElement
  <2>12. f[k] = IF k \in A THEN 1 ELSE 0
    BY <2>4, <2>9
  <2> HIDE DEF F
  <2>13. F(s) = Cardinality(s \cap A)
    <3>1. F(s) = f[k] + Cardinality(B \ {k})
      BY <2>7, <2>8, <2>9, <2>10
    <3>2. F(s) = Cardinality(B)
      BY <2>10, <2>11, <2>12, <3>1
    <3> QED BY <2>9, <3>2
  <2> QED BY <2>2, <2>13
<1>2. S \cap A = A
  OBVIOUS
<1> QED BY <1>1, <1>2

\* The times of a set of trajectories are the days they were at risk, however summed.
LEMMA TimesAreRiskDays ==
  ASSUME FollowUpInv, NEW times, \A i \in TimedRows : times[i] = cohort[i].time,
         NEW risk, \A t \in 1..Censored : risk[t] = Cardinality(RiskSet(t))
  PROVE  SumFunctionOnSet(risk, 1..Censored) = SumFunctionOnSet(times, TimedRows)
<1> DEFINE H == 1..Censored
           RiskOf(s) == [t \in H |-> Cardinality({i \in s : times[i] >= t})]
           R(s) == SumFunctionOnSet(RiskOf(s), H)
           X(s) == SumFunctionOnSet(times, s)
           T == {s \in SUBSET TimedRows : R(s) # X(s)}
<1>1. IsFiniteSet(H) /\ Censored \in Nat
  <2>1. Censored \in Nat
    BY TimedFacts
  <2> QED BY <2>1, FS_Interval
<1>2. \A i \in TimedRows : times[i] \in Nat /\ times[i] \in H /\ times[i] <= Censored
  <2> TAKE i \in TimedRows
  <2>1. PICK x : x = times[i]
    OBVIOUS
  <2>2. x \in 1..Censored
    BY <2>1, TimedFacts
  <2>3. x \in Nat /\ x <= Censored
    BY <1>1, <2>2
  <2> QED BY <2>1, <2>2, <2>3
<1>3. \A s \in SUBSET TimedRows : IsFiniteSet(s) /\ X(s) \in Int
  BY <1>2, TimedFacts, FS_Subset, SumType
<1>4. \A s \in SUBSET TimedRows : \A t \in H :
        /\ RiskOf(s)[t] = Cardinality({i \in s : times[i] >= t})
        /\ IsFiniteSet({i \in s : times[i] >= t}) /\ Cardinality({i \in s : times[i] >= t}) \in Nat
  BY <1>3, FS_Subset, FS_CardinalityType
<1>5. T = {}
  <2> SUFFICES ASSUME T # {} PROVE FALSE
    OBVIOUS
  <2>1. \A s \in T : IsFiniteSet(s)
    BY <1>3
  <2>2. PICK s \in T : \A t \in T : Cardinality(s) <= Cardinality(t)
    <3> HIDE DEF T
    <3> QED BY <2>1, Smallest
  <2>3. s # {}
    <3>1. \A t \in H : RiskOf({})[t] = 0
      BY FS_EmptySet
    <3>2. R({}) = 0
      <4> HIDE DEF RiskOf, H
      <4> QED BY <1>1, <3>1, SumOfZeros
    <3>3. X({}) = 0
      BY SumOfNone
    <3> HIDE DEF R, X
    <3> QED BY <2>2, <3>2, <3>3
  <2> DEFINE m == Member(s)
             u == s \ {m}
             mine == [t \in H |-> IF t \in 1..times[m] THEN 1 ELSE 0]
  <2>4. m \in s /\ m \in TimedRows /\ s \in SUBSET TimedRows /\ u \in SUBSET TimedRows
    BY <2>3 DEF Member
  <2>5. Cardinality(u) = Cardinality(s) - 1 /\ Cardinality(s) \in Nat
    BY <2>1, <2>4, FS_RemoveElement, FS_CardinalityType
  <2>6. R(u) = X(u)
    <3>1. u \notin T
      BY <2>2, <2>5
    <3> HIDE DEF R, X
    <3> QED BY <2>4, <3>1
  <2>7. X(s) = times[m] + X(u)
    BY <2>1, <2>3, SumStep
  <2>8. \A t \in H : RiskOf(u)[t] \in Int /\ mine[t] \in Int /\ RiskOf(s)[t] = RiskOf(u)[t] + mine[t]
    <3> TAKE t \in H
    <3>1. t \in Nat /\ times[m] \in Nat
      BY <1>1, <1>2, <2>4
    <3>2. PICK a, b : a = {i \in s : times[i] >= t} /\ b = {i \in u : times[i] >= t}
      OBVIOUS
    <3>3. IsFiniteSet(a) /\ Cardinality(a) \in Nat /\ Cardinality(b) \in Nat
          /\ RiskOf(s)[t] = Cardinality(a) /\ RiskOf(u)[t] = Cardinality(b)
      BY <1>4, <2>4, <3>2
    <3>4. b = a \ {m} /\ (m \in a <=> times[m] >= t)
      BY <2>4, <3>2
    <3>5. Cardinality(b) = IF m \in a THEN Cardinality(a) - 1 ELSE Cardinality(a)
      BY <3>3, <3>4, FS_RemoveElement
    <3>6. mine[t] = IF t \in 1..times[m] THEN 1 ELSE 0
      OBVIOUS
    <3>7. t \in 1..times[m] <=> times[m] >= t
      BY <3>1
    <3> HIDE DEF RiskOf, mine, m, u
    <3> QED BY <3>3, <3>4, <3>5, <3>6, <3>7
  <2>9. R(s) = R(u) + SumFunctionOnSet(mine, H)
    <3> HIDE DEF RiskOf, mine, H, u
    <3> QED BY <1>1, <2>8, SumPlus
  <2>10. SumFunctionOnSet(mine, H) = times[m]
    <3>1. times[m] \in Nat /\ 1..times[m] \subseteq H
      BY <1>1, <1>2, <2>4
    <3>2. Cardinality(1..times[m]) = times[m]
      BY <3>1, FS_Interval
    <3>3. \A t \in H : mine[t] = IF t \in 1..times[m] THEN 1 ELSE 0
      OBVIOUS
    <3>4. SumFunctionOnSet(mine, H) = Cardinality(1..times[m])
      <4> HIDE DEF mine, H, m
      <4> QED BY <1>1, <3>1, <3>3, SumCounts
    <3> QED BY <3>2, <3>4
  <2>11. times[m] \in Int /\ X(u) \in Int
    BY <1>2, <1>3, <2>4
  <2>12. R(s) = X(s)
    <3> HIDE DEF R, X, m, u, mine
    <3> QED BY <2>6, <2>7, <2>9, <2>10, <2>11
  <2> HIDE DEF R, X
  <2> QED BY <2>2, <2>12
<1>6. R(TimedRows) = X(TimedRows)
  BY <1>5
<1>7. \A t \in H : RiskOf(TimedRows)[t] = risk[t]
  <2> TAKE t \in H
  <2>1. {i \in TimedRows : times[i] >= t} = RiskSet(t)
    BY DEF RiskSet
  <2> QED BY <2>1
<1>8. R(TimedRows) = SumFunctionOnSet(risk, H)
  <2> HIDE DEF RiskOf, H
  <2> QED BY <1>1, <1>7, SumSame
<1> QED BY <1>6, <1>8

\* What two numbers over a common denominator add up to.
LEMMA PlusOver ==
  ASSUME NEW a \in Int, NEW b \in Int, NEW c \in Int, NEW d \in Int,
         NEW n \in Int, NEW x \in Int, NEW y \in Int,
         a * n = x * b, c * n = y * d, 0 < b, 0 < d
  PROVE  /\ a * d + c * b \in Int /\ b * d \in Int /\ 0 < b * d
         /\ (a * d + c * b) * n = (x + y) * (b * d)
<1>1. (a * d + c * b) * n = (a * n) * d + (c * n) * b
  OBVIOUS
<1>2. (x * b) * d + (y * d) * b = (x + y) * (b * d)
  OBVIOUS
<1>3. 0 < b * d
  OBVIOUS
<1> QED BY <1>1, <1>2, <1>3

\* Fractions that are a[x] / n each add up to the sum of a over n.
LEMMA FracSumOver ==
  ASSUME NEW f, NEW a, NEW S, IsFiniteSet(S), NEW n \in Int,
         \A x \in S : /\ f[x] \in [num : Int, den : Int] /\ 0 < f[x].den
                      /\ a[x] \in Int /\ f[x].num * n = a[x] * f[x].den
  PROVE  /\ FracSum(f, S) \in [num : Int, den : Int]
         /\ 0 < FracSum(f, S).den
         /\ FracSum(f, S).num * n = SumFunctionOnSet(a, S) * FracSum(f, S).den
<1> DEFINE Q(s) == FracSum(f, s)
           A(s) == SumFunctionOnSet(a, s)
           Good(s) == /\ Q(s) \in [num : Int, den : Int] /\ 0 < Q(s).den
                      /\ Q(s).num * n = A(s) * Q(s).den
           T == {s \in SUBSET S : ~ Good(s)}
<1>0. \A s \in SUBSET S : IsFiniteSet(s) /\ A(s) \in Int
  BY FS_Subset, SumType
<1>1. T = {}
  <2> SUFFICES ASSUME T # {} PROVE FALSE
    OBVIOUS
  <2>1. \A s \in T : IsFiniteSet(s)
    BY <1>0
  <2>2. PICK s \in T : \A t \in T : Cardinality(s) <= Cardinality(t)
    <3> HIDE DEF T
    <3> QED BY <2>1, Smallest
  <2>3. s # {}
    <3>1. Q({}) = [num |-> 0, den |-> 1] /\ A({}) = 0
      BY FracSumStep, FS_EmptySet, SumOfNone DEF Fraction
    <3>2. Good({})
      <4> HIDE DEF Q, A
      <4> QED BY <3>1
    <3> HIDE DEF Good
    <3> QED BY <2>2, <3>2
  <2> DEFINE m == Member(s)
             u == s \ {m}
  <2>4. m \in s /\ m \in S
    BY <2>3 DEF Member
  <2>5. Cardinality(u) = Cardinality(s) - 1 /\ Cardinality(s) \in Nat /\ u \in SUBSET S
    BY <2>1, <2>4, FS_RemoveElement, FS_CardinalityType
  <2>6. Good(u)
    <3> HIDE DEF Good
    <3> QED BY <2>2, <2>5
  <2>7. Q(s) = Plus(f[m], Q(u)) /\ A(s) = a[m] + A(u)
    BY <2>1, <2>3, FracSumStep, SumStep
  <2>8. PICK p, q, c, d, x, y : /\ p = f[m].num /\ q = f[m].den /\ x = a[m]
                                /\ c = Q(u).num /\ d = Q(u).den /\ y = A(u)
    OBVIOUS
  <2>9. p \in Int /\ q \in Int /\ x \in Int /\ p * n = x * q /\ 0 < q
    BY <2>4, <2>8
  <2> HIDE DEF m, u, Q, A
  <2>10. c \in Int /\ d \in Int /\ y \in Int /\ c * n = y * d /\ 0 < d
    BY <1>0, <2>5, <2>6, <2>8
  <2>11. Q(s) = [num |-> p * d + c * q, den |-> q * d] /\ A(s) = x + y
    BY <2>7, <2>8 DEF Plus, Fraction
  <2>12. /\ p * d + c * q \in Int /\ q * d \in Int /\ 0 < q * d
         /\ (p * d + c * q) * n = (x + y) * (q * d)
    BY <2>9, <2>10, PlusOver
  <2>13. Good(s)
    BY <2>11, <2>12
  <2> HIDE DEF Good
  <2> QED BY <2>2, <2>13
<1>2. Good(S)
  <2> HIDE DEF Good
  <2> QED BY <1>1
<1> QED BY <1>2

\* One more factor r / s of a fraction that is r / n.
LEMMA TimesOver ==
  ASSUME NEW p \in Int, NEW q \in Int, NEW n \in Int, NEW r \in Int, NEW s \in Int,
         p * n = r * q, 0 < q, 0 < r
  PROVE  /\ p * s \in Int /\ q * r \in Int /\ 0 < q * r
         /\ (p * s) * n = s * (q * r)
<1>1. (p * s) * n = (p * n) * s
  OBVIOUS
<1>2. (r * q) * s = s * (q * r)
  OBVIOUS
<1>3. 0 < q * r
  OBVIOUS
<1> QED BY <1>1, <1>2, <1>3

\* The survival after a day is the share of the cohort that is at risk the day after.
LEMMA SurvivalShares ==
  ASSUME FollowUpInv
  PROVE  \A t \in 0..FOLLOWUP_DAYS :
           /\ Survival(Observations, Censored)[t] \in [num : Int, den : Int]
           /\ 0 < Survival(Observations, Censored)[t].den
           /\ Survival(Observations, Censored)[t].num * Cardinality(TimedRows)
                = Cardinality(RiskSet(t + 1)) * Survival(Observations, Censored)[t].den
<1> DEFINE S == Survival(Observations, Censored)
           n == Cardinality(TimedRows)
           r == [t \in 1..Censored |-> Remaining(Observations, t)]
           Good(t) == /\ S[t] \in [num : Int, den : Int] /\ 0 < S[t].den
                      /\ S[t].num * n = Cardinality(RiskSet(t + 1)) * S[t].den
           T == {t \in 0..FOLLOWUP_DAYS : ~ Good(t)}
<1>1. FOLLOWUP_DAYS \in Nat /\ Censored \in Nat /\ Censored = FOLLOWUP_DAYS + 1
  BY TimedFacts
<1>2. n \in Nat
  BY TimedFacts, FS_CardinalityType
<1>3. Products(Censored, r, S)
  BY <1>1, SurvivalIs
<1>4. S[0] = [num |-> 1, den |-> 1]
  <2>1. 0 \in 0..Censored
    BY <1>1
  <2> HIDE DEF S, r
  <2> QED BY <1>3, <2>1 DEF Products, Fraction
<1>5. \A t \in 1..FOLLOWUP_DAYS : S[t] = Times(S[t - 1], Remaining(Observations, t))
  <2> TAKE t \in 1..FOLLOWUP_DAYS
  <2>1. t \in 0..Censored /\ t # 0 /\ t \in 1..Censored
    BY <1>1
  <2>2. r[t] = Remaining(Observations, t)
    BY <2>1
  <2> HIDE DEF S, r
  <2> QED BY <1>3, <2>1, <2>2 DEF Products
<1> HIDE DEF S, r
<1>6. T = {}
  <2> SUFFICES ASSUME T # {} PROVE FALSE
    OBVIOUS
  <2>1. PICK t \in T : \A u \in T : t <= u
    <3>1. T \subseteq Nat
      OBVIOUS
    <3> HIDE DEF T
    <3> QED BY <3>1, Least
  <2>2. t \in 0..FOLLOWUP_DAYS /\ ~ Good(t)
    OBVIOUS
  <2>3. Good(0)
    <3>1. RiskSet(0 + 1) = TimedRows
      <4>1. \A i \in TimedRows : cohort[i].time >= 1
        <5> TAKE i \in TimedRows
        <5>1. PICK x : x = cohort[i].time
          OBVIOUS
        <5>2. x \in 1..Censored
          BY <5>1, TimedFacts
        <5>3. x >= 1
          BY <1>1, <5>2
        <5> QED BY <5>1, <5>3
      <4>2. 0 + 1 = 1
        OBVIOUS
      <4> QED BY <4>1, <4>2 DEF RiskSet
    <3> QED BY <1>2, <1>4, <3>1
  <2>4. t # 0
    <3> HIDE DEF Good
    <3> QED BY <2>2, <2>3
  <2>5. t \in 1..FOLLOWUP_DAYS /\ t - 1 \in 0..FOLLOWUP_DAYS /\ ~ (t <= t - 1) /\ (t - 1) + 1 = t
    BY <1>1, <2>2, <2>4
  <2>6. Good(t - 1)
    <3>1. t - 1 \notin T
      <4> HIDE DEF T
      <4> QED BY <2>1, <2>5
    <3> HIDE DEF Good
    <3> QED BY <2>5, <3>1
  <2>7. PICK p, q, x, y : /\ p = S[t - 1].num /\ q = S[t - 1].den
                          /\ x = Cardinality(RiskSet(t)) /\ y = Cardinality(RiskSet(t + 1))
    OBVIOUS
  <2>8. p \in Int /\ q \in Int /\ 0 < q /\ p * n = x * q
    <3>1. Cardinality(RiskSet((t - 1) + 1)) = x
      BY <2>5, <2>7
    <3> QED BY <2>6, <2>7, <3>1
  <2>9. x \in Nat /\ y \in Nat /\ y <= x /\ (x = 0 <=> RiskSet(t) = {})
    BY <2>5, <2>7, RiskFacts, FS_EmptySet, FS_Subset
  <2>10. S[t] = Times(S[t - 1], Remaining(Observations, t))
    BY <1>5, <2>5
  <2>11. Remaining(Observations, t) = IF x = 0 THEN Fraction(1, 1) ELSE Fraction(y, x)
    BY <2>5, <2>7, <2>9, RemainingIs
  <2> HIDE DEF n, T
  <2>12. CASE x = 0
    <3>1. S[t] = [num |-> p * 1, den |-> q * 1]
      BY <2>7, <2>10, <2>11, <2>12 DEF Times, Fraction
    <3>2. y = 0 /\ p * 1 = p /\ q * 1 = q
      BY <2>8, <2>9, <2>12
    <3>3. S[t].num * n = y * S[t].den
      BY <2>8, <2>12, <3>1, <3>2
    <3>4. S[t] \in [num : Int, den : Int] /\ 0 < S[t].den
      BY <2>8, <3>1, <3>2
    <3> QED BY <2>2, <2>7, <3>3, <3>4
  <2>13. CASE x # 0
    <3>1. S[t] = [num |-> p * y, den |-> q * x]
      BY <2>7, <2>10, <2>11, <2>13 DEF Times, Fraction
    <3>2. 0 < x
      BY <2>9, <2>13
    <3>3. /\ p * y \in Int /\ q * x \in Int /\ 0 < q * x
          /\ (p * y) * n = y * (q * x)
      BY <1>2, <2>8, <2>9, <3>2, TimesOver
    <3>4. S[t] \in [num : Int, den : Int] /\ 0 < S[t].den /\ S[t].num * n = y * S[t].den
      BY <3>1, <3>3
    <3> QED BY <2>2, <2>7, <3>4
  <2> QED BY <2>12, <2>13
<1>7. \A t \in 0..FOLLOWUP_DAYS : Good(t)
  <2> HIDE DEF Good
  <2> QED BY <1>6
<1> QED BY <1>7 DEF S

\* Cross-multiplied: two sums over a common total.
LEMMA SameMean ==
  ASSUME NEW a \in Int, NEW b \in Int, NEW c \in Int, NEW d \in Int, NEW n \in Int, NEW x \in Int,
         a * n = x * b, c = x * d
  PROVE  a * (d * n) = c * b
<1>1. a * (d * n) = (a * n) * d
  OBVIOUS
<1>2. (x * b) * d = (x * d) * b
  OBVIOUS
<1> QED BY <1>1, <1>2

\* The restricted mean is the mean of the times.
LEMMA RestrictedIsMean ==
  ASSUME FollowUpInv
  PROVE  RestrictedMeanIsMean
<1> DEFINE S == Survival(Observations, Censored)
           n == Cardinality(TimedRows)
           before == [t \in 1..Censored |-> S[t - 1]]
           risk == [t \in 1..Censored |-> Cardinality(RiskSet(t))]
           own == [i \in TimedRows |-> Fraction(cohort[i].time, 1)]
           times == [i \in TimedRows |-> cohort[i].time]
           mean == RestrictedMean(Observations, Censored)
           left1 == FracSum(before, 1..Censored)
           right1 == FracSum(own, TimedRows)
<1>1. FOLLOWUP_DAYS \in Nat /\ Censored \in Nat /\ Censored = FOLLOWUP_DAYS + 1 /\ NA \notin Int
      /\ IsFiniteSet(1..Censored) /\ IsFiniteSet(TimedRows) /\ n \in Nat
  <2>1. Censored \in Nat /\ FOLLOWUP_DAYS \in Nat
    BY TimedFacts
  <2> QED BY <2>1, TimedFacts, FS_Interval, FS_CardinalityType
<1>2. (\A i \in DOMAIN Observations : Observations[i].time = NA) <=> TimedRows = {}
  BY DEF Observations, TimedRows
<1>3. mean = IF TimedRows = {} THEN NA ELSE left1
  <2>1. SumOfFractions(before) = left1
    <3>1. DOMAIN before = 1..Censored
      OBVIOUS
    <3> HIDE DEF before
    <3> QED BY <3>1 DEF SumOfFractions, FoldFunction, FracSum
  <2> QED BY <1>2, <2>1 DEF RestrictedMean
<1>4. MeanOfFractions(own) = Fraction(right1.num, right1.den * n)
  <2>1. SumOfFractions(own) = right1 /\ DOMAIN own = TimedRows
    <3>1. DOMAIN own = TimedRows
      OBVIOUS
    <3> HIDE DEF own
    <3> QED BY <3>1 DEF SumOfFractions, FoldFunction, FracSum
  <2> HIDE DEF own, right1
  <2> QED BY <2>1 DEF MeanOfFractions
<1>5. \A t \in 1..Censored : /\ before[t] \in [num : Int, den : Int] /\ 0 < before[t].den
                             /\ risk[t] \in Int /\ before[t].num * n = risk[t] * before[t].den
  <2> TAKE t \in 1..Censored
  <2>1. t - 1 \in 0..FOLLOWUP_DAYS /\ (t - 1) + 1 = t
    BY <1>1
  <2>2. before[t] = S[t - 1] /\ risk[t] = Cardinality(RiskSet(t))
    OBVIOUS
  <2>3. /\ S[t - 1] \in [num : Int, den : Int] /\ 0 < S[t - 1].den
        /\ S[t - 1].num * n = Cardinality(RiskSet((t - 1) + 1)) * S[t - 1].den
    <3> HIDE DEF before, risk
    <3> QED BY <2>1, SurvivalShares
  <2>4. Cardinality(RiskSet(t)) \in Int
    <3>1. IsFiniteSet(RiskSet(t))
      BY <1>1, FS_Subset DEF RiskSet
    <3> QED BY <3>1, FS_CardinalityType
  <2> HIDE DEF S, n, before, risk
  <2> QED BY <2>1, <2>2, <2>3, <2>4
<1>6. /\ left1 \in [num : Int, den : Int]
      /\ left1.num * n = SumFunctionOnSet(risk, 1..Censored) * left1.den
  <2>1. PICK f, a, H, k : f = before /\ a = risk /\ H = 1..Censored /\ k = n
    OBVIOUS
  <2> HIDE DEF S, n, before, risk
  <2>2. /\ IsFiniteSet(H) /\ k \in Int
        /\ \A t \in H : /\ f[t] \in [num : Int, den : Int] /\ 0 < f[t].den
                        /\ a[t] \in Int /\ f[t].num * k = a[t] * f[t].den
    BY <1>1, <1>5, <2>1
  <2>3. /\ FracSum(f, H) \in [num : Int, den : Int]
        /\ FracSum(f, H).num * k = SumFunctionOnSet(a, H) * FracSum(f, H).den
    BY <2>2, FracSumOver
  <2> QED BY <2>1, <2>3
<1>7. \A i \in TimedRows : /\ own[i] \in [num : Int, den : Int] /\ 0 < own[i].den
                           /\ times[i] \in Int /\ own[i].num * 1 = times[i] * own[i].den
                           /\ times[i] = cohort[i].time
  <2> TAKE i \in TimedRows
  <2>1. PICK x : x = cohort[i].time
    OBVIOUS
  <2>2. x \in Int
    BY <2>1, TimedFacts
  <2>3. own[i] = [num |-> x, den |-> 1] /\ times[i] = x
    BY <2>1 DEF Fraction
  <2> QED BY <2>1, <2>2, <2>3
<1>8. /\ right1 \in [num : Int, den : Int]
      /\ right1.num * 1 = SumFunctionOnSet(times, TimedRows) * right1.den
  <2>1. PICK f, a, k : f = own /\ a = times /\ k = 1
    OBVIOUS
  <2> HIDE DEF own, times
  <2>2. /\ k \in Int
        /\ \A i \in TimedRows : /\ f[i] \in [num : Int, den : Int] /\ 0 < f[i].den
                                /\ a[i] \in Int /\ f[i].num * k = a[i] * f[i].den
    BY <1>7, <2>1
  <2>3. /\ FracSum(f, TimedRows) \in [num : Int, den : Int]
        /\ FracSum(f, TimedRows).num * k = SumFunctionOnSet(a, TimedRows) * FracSum(f, TimedRows).den
    BY <1>1, <2>2, FracSumOver
  <2> QED BY <2>1, <2>3
<1>9. SumFunctionOnSet(risk, 1..Censored) = SumFunctionOnSet(times, TimedRows)
  <2>1. \A t \in 1..Censored : risk[t] = Cardinality(RiskSet(t))
    OBVIOUS
  <2> HIDE DEF risk, times
  <2> QED BY <1>7, <2>1, TimesAreRiskDays
<1>10. SumFunctionOnSet(times, TimedRows) \in Int
  <2> HIDE DEF times
  <2> QED BY <1>1, <1>7, SumType
<1>11. TimedRows # {} => mean # NA
  BY <1>3, <1>6, ObservationAssumption
<1>12. TimedRows # {} => Same(mean, MeanOfFractions(own))
  <2> HAVE TimedRows # {}
  <2>1. PICK a, b, c, d, x : /\ a = left1.num /\ b = left1.den /\ c = right1.num /\ d = right1.den
                             /\ x = SumFunctionOnSet(times, TimedRows)
    OBVIOUS
  <2> HIDE DEF left1, right1, n, risk, times, own
  <2>2. /\ a \in Int /\ b \in Int /\ c \in Int /\ d \in Int /\ x \in Int
        /\ a * n = x * b /\ c * 1 = x * d
    BY <1>6, <1>8, <1>9, <1>10, <2>1
  <2>3. a * (d * n) = c * b
    <3>1. c = x * d
      BY <2>2
    <3> QED BY <1>1, <2>2, <3>1, SameMean
  <2> HIDE DEF mean
  <2>4. mean.num = a /\ mean.den = b
    BY <1>3, <2>1
  <2> QED BY <1>4, <2>1, <2>3, <2>4 DEF Same, Fraction
<1>13. mean = NA <=> TimedRows = {}
  <2> HIDE DEF mean, left1
  <2> QED BY <1>3, <1>11
<1> HIDE DEF mean, own
<1> QED BY <1>12, <1>13 DEF RestrictedMeanIsMean, TimedRows, mean, own

\* The outcomes of a follow-up agree, whatever the days bring (metrics.py:404-500,
\* analysis.py:955-1085).
THEOREM OutcomesStayInAgreement == RulesSpec => []OutcomesAgree
<1>1. FollowUpInv => OutcomesAgree
  BY MissingOnlyDelays, ZeroMeansRecovered, CoherenceRecovers, WrongFactIsNotCoherent,
     CurvesAreOne, RestrictedIsMean DEF OutcomesAgree
<1> QED BY <1>1, FollowUpInvHolds, PTL

(***************************************************************************)
(* The block contrasts of one hypothesis.                                  *)
(***************************************************************************)
\* A fraction with a positive denominator.
Quotients == {q \in [num : Int, den : Int] : 0 < q.den}

\* The sum of no fractions, and of quotients.
LEMMA PlusType ==
  ASSUME NEW a \in Quotients, NEW b \in Quotients
  PROVE  Plus(a, b) \in Quotients /\ Negated(a) \in Quotients
<1>1. PICK p, q, r, s : p = a.num /\ q = a.den /\ r = b.num /\ s = b.den
  OBVIOUS
<1>2. p \in Int /\ q \in Int /\ 0 < q /\ r \in Int /\ s \in Int /\ 0 < s
  BY <1>1 DEF Quotients
<1>3. Plus(a, b) = [num |-> p * s + r * q, den |-> q * s] /\ Negated(a) = [num |-> -p, den |-> q]
  BY <1>1 DEF Plus, Negated, Fraction
<1>4. p * s + r * q \in Int /\ q * s \in Int /\ 0 < q * s /\ -p \in Int
  BY <1>2
<1> HIDE DEF Plus, Negated
<1> QED BY <1>2, <1>3, <1>4 DEF Quotients

\* A quotient is its two parts.
LEMMA QuotientIs ==
  ASSUME NEW a \in Quotients
  PROVE  a = [num |-> a.num, den |-> a.den] /\ a.num \in Int /\ a.den \in Int /\ 0 < a.den
BY DEF Quotients

\* Sums of quotients are quotients.
LEMMA FracSumType ==
  ASSUME NEW f, NEW S, IsFiniteSet(S), \A x \in S : f[x] \in Quotients
  PROVE  FracSum(f, S) \in Quotients
<1> DEFINE Q(s) == FracSum(f, s)
           T == {s \in SUBSET S : Q(s) \notin Quotients}
<1>1. T = {}
  <2> SUFFICES ASSUME T # {} PROVE FALSE
    OBVIOUS
  <2>1. \A s \in T : IsFiniteSet(s)
    BY FS_Subset
  <2>2. PICK s \in T : \A t \in T : Cardinality(s) <= Cardinality(t)
    <3> HIDE DEF T
    <3> QED BY <2>1, Smallest
  <2>3. s # {}
    <3>1. Q({}) = [num |-> 0, den |-> 1]
      BY FracSumStep, FS_EmptySet DEF Fraction
    <3>2. Q({}) \in Quotients
      <4> HIDE DEF Q
      <4> QED BY <3>1 DEF Quotients
    <3> HIDE DEF Q
    <3> QED BY <2>2, <3>2
  <2>4. Member(s) \in s
    BY <2>3 DEF Member
  <2>5. Cardinality(s \ {Member(s)}) = Cardinality(s) - 1 /\ Cardinality(s) \in Nat
    BY <2>1, <2>4, FS_RemoveElement, FS_CardinalityType
  <2>6. s \ {Member(s)} \notin T
    BY <2>2, <2>5
  <2>7. Q(s) = Plus(f[Member(s)], Q(s \ {Member(s)}))
    BY <2>1, <2>3, FracSumStep
  <2>8. Q(s \ {Member(s)}) \in Quotients /\ f[Member(s)] \in Quotients
    BY <2>4, <2>6
  <2> HIDE DEF Q
  <2> QED BY <2>2, <2>7, <2>8, PlusType
<1> QED BY <1>1

\* The order in which three quotients are added does not matter, not even to the fraction.
LEMMA PlusSwaps ==
  ASSUME NEW a \in Quotients, NEW b \in Quotients, NEW c \in Quotients
  PROVE  Plus(a, Plus(b, c)) = Plus(b, Plus(a, c))
<1>1. PICK p, q, r, s, t, u : /\ p = a.num /\ q = a.den /\ r = b.num /\ s = b.den
                              /\ t = c.num /\ u = c.den
  OBVIOUS
<1>2. p \in Int /\ q \in Int /\ r \in Int /\ s \in Int /\ t \in Int /\ u \in Int
  BY <1>1 DEF Quotients
<1>3. /\ Plus(a, Plus(b, c)) = [num |-> p * (s * u) + (r * u + t * s) * q, den |-> q * (s * u)]
      /\ Plus(b, Plus(a, c)) = [num |-> r * (q * u) + (p * u + t * q) * s, den |-> s * (q * u)]
  BY <1>1 DEF Plus, Fraction
<1>4. p * (s * u) + (r * u + t * s) * q = r * (q * u) + (p * u + t * q) * s
  BY <1>2
<1>5. q * (s * u) = s * (q * u)
  BY <1>2
<1> QED BY <1>3, <1>4, <1>5

\* Any member can be added last.
LEMMA FracSumTake ==
  ASSUME NEW f, NEW S, IsFiniteSet(S), \A x \in S : f[x] \in Quotients, NEW x \in S
  PROVE  FracSum(f, S) = Plus(f[x], FracSum(f, S \ {x}))
<1> DEFINE Q(s) == FracSum(f, s)
           T == {s \in SUBSET S : \E y \in s : Q(s) # Plus(f[y], Q(s \ {y}))}
<1>1. T = {}
  <2> SUFFICES ASSUME T # {} PROVE FALSE
    OBVIOUS
  <2>0. \A s \in SUBSET S : IsFiniteSet(s) /\ Q(s) \in Quotients
    BY FS_Subset, FracSumType
  <2>1. \A s \in T : IsFiniteSet(s)
    BY <2>0
  <2>2. PICK s \in T : \A t \in T : Cardinality(s) <= Cardinality(t)
    <3> HIDE DEF T
    <3> QED BY <2>1, Smallest
  <2> HIDE DEF Q
  <2>3. PICK y \in s : Q(s) # Plus(f[y], Q(s \ {y}))
    OBVIOUS
  <2> DEFINE c == Member(s)
  <2>4. c \in s
    BY <2>3 DEF Member
  <2>5. Q(s) = Plus(f[c], Q(s \ {c}))
    BY <2>1, <2>3, FracSumStep DEF Q
  <2>6. c # y
    BY <2>3, <2>5
  <2> HIDE DEF c
  <2>7. \A z \in s : s \ {z} \in SUBSET S /\ s \ {z} \notin T
    <3> TAKE z \in s
    <3>1. Cardinality(s \ {z}) = Cardinality(s) - 1 /\ Cardinality(s) \in Nat
      BY <2>1, FS_RemoveElement, FS_CardinalityType
    <3> QED BY <2>2, <3>1
  <2>8. Q(s \ {c}) = Plus(f[y], Q((s \ {c}) \ {y})) /\ Q(s \ {y}) = Plus(f[c], Q((s \ {y}) \ {c}))
    BY <2>4, <2>6, <2>7
  <2>9. (s \ {c}) \ {y} = (s \ {y}) \ {c} /\ (s \ {c}) \ {y} \in SUBSET S
    OBVIOUS
  <2>10. f[c] \in Quotients /\ f[y] \in Quotients /\ Q((s \ {y}) \ {c}) \in Quotients
    BY <2>0, <2>4, <2>9
  <2>11. Plus(f[c], Plus(f[y], Q((s \ {y}) \ {c}))) = Plus(f[y], Plus(f[c], Q((s \ {y}) \ {c})))
    BY <2>10, PlusSwaps
  <2> QED BY <2>3, <2>5, <2>8, <2>9, <2>11
<1>2. S \notin T
  BY <1>1
<1> QED BY <1>2

\* Only the values on the set count.
LEMMA FracSumSame ==
  ASSUME NEW f, NEW g, NEW S, IsFiniteSet(S), \A x \in S : f[x] = g[x]
  PROVE  FracSum(f, S) = FracSum(g, S)
<1> DEFINE T == {s \in SUBSET S : FracSum(f, s) # FracSum(g, s)}
<1>1. T = {}
  <2> SUFFICES ASSUME T # {} PROVE FALSE
    OBVIOUS
  <2>1. \A s \in T : IsFiniteSet(s)
    BY FS_Subset
  <2>2. PICK s \in T : \A t \in T : Cardinality(s) <= Cardinality(t)
    <3> HIDE DEF T
    <3> QED BY <2>1, Smallest
  <2>3. s # {}
    <3>1. FracSum(f, {}) = Fraction(0, 1) /\ FracSum(g, {}) = Fraction(0, 1)
      BY FracSumStep, FS_EmptySet
    <3> QED BY <2>2, <3>1
  <2>4. Member(s) \in s
    BY <2>3 DEF Member
  <2>5. Cardinality(s \ {Member(s)}) = Cardinality(s) - 1 /\ Cardinality(s) \in Nat
    BY <2>1, <2>4, FS_RemoveElement, FS_CardinalityType
  <2>6. s \ {Member(s)} \notin T
    BY <2>2, <2>5
  <2>7. /\ FracSum(f, s) = Plus(f[Member(s)], FracSum(f, s \ {Member(s)}))
        /\ FracSum(g, s) = Plus(g[Member(s)], FracSum(g, s \ {Member(s)}))
    BY <2>1, <2>3, FracSumStep
  <2> QED BY <2>4, <2>6, <2>7
<1> QED BY <1>1

\* The sum of the negated quotients is the negated sum, to the fraction.
LEMMA FracSumNegated ==
  ASSUME NEW f, NEW g, NEW S, IsFiniteSet(S),
         \A x \in S : f[x] \in Quotients /\ g[x] = Negated(f[x])
  PROVE  FracSum(g, S) = Negated(FracSum(f, S))
<1> DEFINE T == {s \in SUBSET S : FracSum(g, s) # Negated(FracSum(f, s))}
<1>1. T = {}
  <2> SUFFICES ASSUME T # {} PROVE FALSE
    OBVIOUS
  <2>1. \A s \in T : IsFiniteSet(s)
    BY FS_Subset
  <2>2. PICK s \in T : \A t \in T : Cardinality(s) <= Cardinality(t)
    <3> HIDE DEF T
    <3> QED BY <2>1, Smallest
  <2>3. s # {}
    <3>1. FracSum(f, {}) = Fraction(0, 1) /\ FracSum(g, {}) = Fraction(0, 1)
      BY FracSumStep, FS_EmptySet
    <3>2. Negated(Fraction(0, 1)) = Fraction(0, 1)
      BY DEF Negated, Fraction
    <3> QED BY <2>2, <3>1, <3>2
  <2>4. Member(s) \in s
    BY <2>3 DEF Member
  <2>5. Cardinality(s \ {Member(s)}) = Cardinality(s) - 1 /\ Cardinality(s) \in Nat
    BY <2>1, <2>4, FS_RemoveElement, FS_CardinalityType
  <2>6. s \ {Member(s)} \notin T /\ s \ {Member(s)} \in SUBSET S
    BY <2>2, <2>5
  <2>7. PICK a, b, u : a = f[Member(s)] /\ u = s \ {Member(s)} /\ b = FracSum(f, u)
    OBVIOUS
  <2>8. FracSum(f, s) = Plus(a, b) /\ FracSum(g, s) = Plus(Negated(a), Negated(b))
    <3>1. /\ FracSum(f, s) = Plus(f[Member(s)], FracSum(f, s \ {Member(s)}))
          /\ FracSum(g, s) = Plus(g[Member(s)], FracSum(g, s \ {Member(s)}))
      BY <2>1, <2>3, FracSumStep
    <3>2. g[Member(s)] = Negated(a) /\ FracSum(g, u) = Negated(b)
      BY <2>4, <2>6, <2>7
    <3> QED BY <2>7, <3>1, <3>2
  <2>9. a \in Quotients /\ b \in Quotients
    <3>1. IsFiniteSet(u) /\ u \in SUBSET S
      BY <2>1, <2>6, <2>7, FS_Subset
    <3> QED BY <2>4, <2>7, <3>1, FracSumType
  <2>10. Plus(Negated(a), Negated(b)) = Negated(Plus(a, b))
    <3>1. PICK p, q, r, v : p = a.num /\ q = a.den /\ r = b.num /\ v = b.den
      OBVIOUS
    <3>2. p \in Int /\ q \in Int /\ r \in Int /\ v \in Int
      BY <2>9, <3>1 DEF Quotients
    <3>3. /\ Plus(Negated(a), Negated(b)) = [num |-> (-p) * v + (-r) * q, den |-> q * v]
          /\ Negated(Plus(a, b)) = [num |-> -(p * v + r * q), den |-> q * v]
      BY <3>1 DEF Plus, Negated, Fraction
    <3>4. (-p) * v + (-r) * q = -(p * v + r * q)
      BY <3>2
    <3> QED BY <3>3, <3>4
  <2> QED BY <2>2, <2>8, <2>10
<1> QED BY <1>1

\* Sums of equal quotients are equal, though their fractions may differ.
LEMMA FracSumEqual ==
  ASSUME NEW f, NEW g, NEW S, IsFiniteSet(S),
         \A x \in S : f[x] \in Quotients /\ g[x] \in Quotients /\ Same(f[x], g[x])
  PROVE  Same(FracSum(f, S), FracSum(g, S))
<1> DEFINE T == {s \in SUBSET S : ~ Same(FracSum(f, s), FracSum(g, s))}
<1>1. T = {}
  <2> SUFFICES ASSUME T # {} PROVE FALSE
    OBVIOUS
  <2>1. \A s \in T : IsFiniteSet(s)
    BY FS_Subset
  <2>2. PICK s \in T : \A t \in T : Cardinality(s) <= Cardinality(t)
    <3> HIDE DEF T
    <3> QED BY <2>1, Smallest
  <2>3. s # {}
    <3>1. FracSum(f, {}) = Fraction(0, 1) /\ FracSum(g, {}) = Fraction(0, 1)
      BY FracSumStep, FS_EmptySet
    <3>2. Same(FracSum(f, {}), FracSum(g, {}))
      BY <3>1 DEF Same
    <3> QED BY <2>2, <3>2
  <2>4. Member(s) \in s
    BY <2>3 DEF Member
  <2>5. Cardinality(s \ {Member(s)}) = Cardinality(s) - 1 /\ Cardinality(s) \in Nat
    BY <2>1, <2>4, FS_RemoveElement, FS_CardinalityType
  <2>6. s \ {Member(s)} \notin T /\ s \ {Member(s)} \in SUBSET S
    BY <2>2, <2>5
  <2>7. PICK a, b, c, d, u : /\ a = f[Member(s)] /\ u = s \ {Member(s)} /\ b = FracSum(f, u)
                             /\ c = g[Member(s)] /\ d = FracSum(g, u)
    OBVIOUS
  <2>8. FracSum(f, s) = Plus(a, b) /\ FracSum(g, s) = Plus(c, d)
    BY <2>1, <2>3, <2>7, FracSumStep
  <2>9. /\ a \in Quotients /\ b \in Quotients /\ c \in Quotients /\ d \in Quotients
        /\ Same(a, c) /\ Same(b, d)
    <3>1. IsFiniteSet(u) /\ u \in SUBSET S
      BY <2>1, <2>6, <2>7, FS_Subset
    <3> QED BY <2>4, <2>6, <2>7, <3>1, FracSumType
  <2>10. Same(Plus(a, b), Plus(c, d))
    <3>1. PICK p, q, r, v : p = a.num /\ q = a.den /\ r = b.num /\ v = b.den
      OBVIOUS
    <3>2. PICK w, x, y, z : w = c.num /\ x = c.den /\ y = d.num /\ z = d.den
      OBVIOUS
    <3>3. /\ p \in Int /\ q \in Int /\ r \in Int /\ v \in Int
          /\ w \in Int /\ x \in Int /\ y \in Int /\ z \in Int
          /\ p * x = w * q /\ r * z = y * v
      BY <2>9, <3>1, <3>2 DEF Quotients, Same
    <3>4. (p * v + r * q) * (x * z) = (w * z + y * x) * (q * v)
      <4>1. (p * v + r * q) * (x * z) = (p * x) * (v * z) + (r * z) * (q * x)
        BY <3>3
      <4>2. (w * q) * (v * z) + (y * v) * (q * x) = (w * z + y * x) * (q * v)
        BY <3>3
      <4> QED BY <3>3, <4>1, <4>2
    <3>5. /\ Plus(a, b) = [num |-> p * v + r * q, den |-> q * v]
          /\ Plus(c, d) = [num |-> w * z + y * x, den |-> x * z]
      BY <3>1, <3>2 DEF Plus, Fraction
    <3> QED BY <3>4, <3>5 DEF Same
  <2> QED BY <2>2, <2>8, <2>10
<1> QED BY <1>1

\* A mean, in the terms of its sum.
LEMMA MeanIs ==
  ASSUME NEW f, NEW S, DOMAIN f = S
  PROVE  MeanOfFractions(f) = [num |-> FracSum(f, S).num, den |-> FracSum(f, S).den * Cardinality(S)]
<1>1. SumOfFractions(f) = FracSum(f, S)
  BY DEF SumOfFractions, FoldFunction, FracSum
<1> QED BY <1>1 DEF MeanOfFractions, Fraction

\* The mean of some quotients is a quotient.
LEMMA MeanType ==
  ASSUME NEW f, NEW S, DOMAIN f = S, IsFiniteSet(S), S # {}, \A x \in S : f[x] \in Quotients
  PROVE  MeanOfFractions(f) \in Quotients
<1>1. PICK a, b, n : a = FracSum(f, S).num /\ b = FracSum(f, S).den /\ n = Cardinality(S)
  OBVIOUS
<1>2. a \in Int /\ b \in Int /\ 0 < b
  BY <1>1, FracSumType DEF Quotients
<1>3. n \in Nat /\ n # 0
  BY <1>1, FS_CardinalityType, FS_EmptySet
<1>4. MeanOfFractions(f) = [num |-> a, den |-> b * n]
  BY <1>1, MeanIs
<1>5. b * n \in Int /\ 0 < b * n
  BY <1>2, <1>3
<1> QED BY <1>2, <1>4, <1>5 DEF Quotients

\* A trajectory reduces to a quotient or to nothing.
LEMMA ReducedType ==
  ASSUME NEW values \in Seq(Int \cup {NA})
  PROVE  Reduce(values, REQUIRED) \in Quotients \cup {NA}
<1> DEFINE valid == {i \in DOMAIN values : values[i] # NA}
           f == [i \in valid |-> Fraction(values[i], 1)]
<1>1. IsFiniteSet(DOMAIN values) /\ \A i \in DOMAIN values : values[i] \in Int \cup {NA}
  BY Positions
<1>2. IsFiniteSet(valid)
  BY <1>1, FS_Subset
<1>3. CASE Cardinality(valid) < REQUIRED
  BY <1>3 DEF Reduce
<1>4. CASE ~ (Cardinality(valid) < REQUIRED)
  <2>1. Reduce(values, REQUIRED) = MeanOfFractions(f)
    BY <1>4 DEF Reduce
  <2>2. valid # {}
    <3>1. valid = {} => Cardinality(valid) = 0
      BY FS_EmptySet
    <3> HIDE DEF valid
    <3>2. REQUIRED \in Nat /\ REQUIRED # 0
      BY BlockAssumption
    <3> QED BY <1>4, <3>1, <3>2
  <2>3. \A i \in valid : f[i] \in Quotients
    <3> TAKE i \in valid
    <3>1. PICK x : x = values[i]
      OBVIOUS
    <3>2. x \in Int
      BY <1>1, <3>1
    <3>3. f[i] = [num |-> x, den |-> 1]
      BY <3>1 DEF Fraction
    <3> QED BY <3>2, <3>3 DEF Quotients
  <2>4. DOMAIN f = valid
    OBVIOUS
  <2> HIDE DEF f, valid
  <2> QED BY <1>2, <2>1, <2>2, <2>3, <2>4, MeanType
<1> QED BY <1>3, <1>4

\* What an arm holds: reduced values of some of the blocks.
Arm(arm) ==
  /\ DOMAIN arm \subseteq Blocks
  /\ \A block \in DOMAIN arm : arm[block] \in Quotients \cup {NA}

BlockInv == Arm(left) /\ Arm(right)

\* A new summary keeps the arm one.
LEMMA ArmGrows ==
  ASSUME NEW arm, Arm(arm), NEW block \in Blocks, NEW values \in Trajectories
  PROVE  Arm(WithSummary(arm, block, values))
<1>1. PICK r : r = Reduce(values, REQUIRED)
  OBVIOUS
<1>2. r \in Quotients \cup {NA}
  <2>1. values \in Seq(Int \cup {NA})
    BY BlockAssumption
  <2> QED BY <1>1, <2>1, ReducedType
<1>3. WithSummary(arm, block, values) =
        [b \in DOMAIN arm \cup {block} |-> IF b = block THEN r ELSE arm[b]]
  BY <1>1 DEF WithSummary
<1> QED BY <1>2, <1>3 DEF Arm

\* The arms hold reduced values throughout.
LEMMA BlockInvHolds == RulesSpec => []BlockInv
<1>1. RulesInit => BlockInv
  BY DEF RulesInit, BlockInit, BlockInv, Arm
<1>2. BlockInv /\ [RulesNext]_rulesVars => BlockInv'
  <2> SUFFICES ASSUME BlockInv, [RulesNext]_rulesVars PROVE BlockInv'
    OBVIOUS
  <2>1. CASE UNCHANGED blockVars
    BY <2>1 DEF BlockInv, Arm, blockVars
  <2>2. CASE ReduceLeft
    <3>1. PICK block \in Blocks, values \in Trajectories :
            left' = WithSummary(left, block, values) /\ right' = right
      BY <2>2 DEF ReduceLeft
    <3>2. Arm(left')
      BY <3>1, ArmGrows DEF BlockInv
    <3> QED BY <3>1, <3>2 DEF BlockInv
  <2>3. CASE ReduceRight
    <3>1. PICK block \in Blocks, values \in Trajectories :
            right' = WithSummary(right, block, values) /\ left' = left
      BY <2>3 DEF ReduceRight
    <3>2. Arm(right')
      BY <3>1, ArmGrows DEF BlockInv
    <3> QED BY <3>1, <3>2 DEF BlockInv
  <2> QED BY <2>1, <2>2, <2>3 DEF RulesNext, BlockNext, rulesVars, blockVars
<1> QED BY <1>1, <1>2, PTL DEF RulesSpec

\* Contrasts, as their consumers see them: a quotient for a complete block, and nothing else.
Contrast(c) ==
  /\ IsFiniteSet(DOMAIN c)
  /\ \A b \in DOMAIN c : c[b] \in Quotients \cup {NA}

\* The complete blocks of such contrasts.
LEMMA ContrastFacts ==
  ASSUME NEW c, Contrast(c)
  PROVE  /\ IsFiniteSet(Valid(c)) /\ Cardinality(Valid(c)) \in Nat
         /\ Valid(c) \subseteq DOMAIN c
         /\ \A b \in Valid(c) : c[b] \in Quotients
         /\ \A b \in DOMAIN c : c[b] # NA <=> b \in Valid(c)
<1>1. Valid(c) \subseteq DOMAIN c /\ \A b \in Valid(c) : c[b] # NA
  BY DEF Valid
<1>2. IsFiniteSet(Valid(c))
  BY <1>1, FS_Subset DEF Contrast
<1> QED BY <1>1, <1>2, FS_CardinalityType DEF Contrast, Valid

\* None is no quotient.
LEMMA NoneIsNoQuotient == NA \notin Quotients
BY ObservationAssumption DEF Quotients

\* A difference of quotients is one, and the other way round it is negated.
LEMMA MinusFacts ==
  ASSUME NEW a \in Quotients, NEW b \in Quotients
  PROVE  Minus(a, b) \in Quotients /\ Minus(b, a) = Negated(Minus(a, b))
<1>1. PICK p, q, r, s : p = a.num /\ q = a.den /\ r = b.num /\ s = b.den
  OBVIOUS
<1>2. p \in Int /\ q \in Int /\ 0 < q /\ r \in Int /\ s \in Int /\ 0 < s
  BY <1>1 DEF Quotients
<1>3. /\ Minus(a, b) = [num |-> p * s - r * q, den |-> q * s]
      /\ Minus(b, a) = [num |-> r * q - p * s, den |-> s * q]
      /\ Negated(Minus(a, b)) = [num |-> -(p * s - r * q), den |-> q * s]
  BY <1>1 DEF Minus, Negated, Fraction
<1>4. p * s - r * q \in Int /\ q * s \in Int /\ 0 < q * s
  BY <1>2
<1>5. r * q - p * s = -(p * s - r * q) /\ s * q = q * s
  BY <1>2
<1> HIDE DEF Minus, Negated
<1>6. Minus(a, b) \in Quotients
  BY <1>3, <1>4 DEF Quotients
<1> QED BY <1>3, <1>5, <1>6

\* The contrasts of two arms, and of the arms swapped.
LEMMA ContrastsOfArms ==
  ASSUME NEW a, NEW b, Arm(a), Arm(b)
  PROVE  /\ Contrast(BlockContrasts(a, b))
         /\ DOMAIN BlockContrasts(a, b) = DOMAIN a \cup DOMAIN b
         /\ Valid(BlockContrasts(a, b)) = {x \in DOMAIN a \cap DOMAIN b : NA \notin {a[x], b[x]}}
         /\ \A x \in Valid(BlockContrasts(a, b)) :
              BlockContrasts(b, a)[x] = Negated(BlockContrasts(a, b)[x])
<1> DEFINE c == BlockContrasts(a, b)
           both == {x \in DOMAIN a \cap DOMAIN b : NA \notin {a[x], b[x]}}
<1>1. DOMAIN c = DOMAIN a \cup DOMAIN b /\ IsFiniteSet(DOMAIN c)
  <2>1. DOMAIN c = DOMAIN a \cup DOMAIN b
    BY DEF BlockContrasts
  <2>2. DOMAIN c \subseteq Blocks
    BY <2>1 DEF Arm
  <2> HIDE DEF c
  <2> QED BY <2>1, <2>2, BlockAssumption, FS_Subset
<1>2. \A x \in both : a[x] \in Quotients /\ b[x] \in Quotients
  BY DEF Arm
<1>3. \A x \in DOMAIN c : /\ x \in both => c[x] = Minus(a[x], b[x])
                          /\ x \notin both => c[x] = NA
  BY <1>1 DEF BlockContrasts
<1>4. \A x \in both : BlockContrasts(b, a)[x] = Minus(b[x], a[x])
  BY DEF BlockContrasts
<1>5. \A x \in both : x \in DOMAIN c /\ c[x] \in Quotients
                      /\ BlockContrasts(b, a)[x] = Negated(c[x])
  <2> TAKE x \in both
  <2>1. x \in DOMAIN c
    BY <1>1
  <2>2. Minus(a[x], b[x]) \in Quotients /\ Minus(b[x], a[x]) = Negated(Minus(a[x], b[x]))
    BY <1>2, MinusFacts
  <2> HIDE DEF c, both
  <2> QED BY <1>3, <1>4, <2>1, <2>2
<1> HIDE DEF c
<1>6. Contrast(c)
  BY <1>1, <1>3, <1>5 DEF Contrast
<1>7. Valid(c) = both
  BY <1>3, <1>5, NoneIsNoQuotient DEF Valid
<1> QED BY <1>1, <1>5, <1>6, <1>7 DEF c

\* The members of a finite set, counted family by family.
LEMMA FamiliesCount ==
  ASSUME NEW S, IsFiniteSet(S), NEW F, IsFiniteSet(F), \A x \in S : x.family \in F,
         NEW g, \A f \in F : g[f] = Cardinality({x \in S : x.family = f})
  PROVE  SumFunctionOnSet(g, F) = Cardinality(S)
<1> DEFINE Of(t) == {x \in S : x.family \in t}
           T == {t \in SUBSET F : SumFunctionOnSet(g, t) # Cardinality(Of(t))}
<1>1. T = {}
  <2> SUFFICES ASSUME T # {} PROVE FALSE
    OBVIOUS
  <2>1. \A t \in T : IsFiniteSet(t)
    BY FS_Subset
  <2>2. PICK t \in T : \A u \in T : Cardinality(t) <= Cardinality(u)
    <3> HIDE DEF T
    <3> QED BY <2>1, Smallest
  <2>3. t # {}
    <3>1. Of({}) = {} /\ Cardinality({}) = 0
      BY FS_EmptySet
    <3> HIDE DEF Of
    <3> QED BY <2>2, <3>1, SumOfNone
  <2> DEFINE m == Member(t)
             u == t \ {m}
  <2>4. m \in t /\ m \in F
    BY <2>3 DEF Member
  <2>5. Cardinality(u) = Cardinality(t) - 1 /\ Cardinality(t) \in Nat /\ u \in SUBSET F
    BY <2>1, <2>4, FS_RemoveElement, FS_CardinalityType
  <2>6. SumFunctionOnSet(g, u) = Cardinality(Of(u))
    <3>1. u \notin T
      BY <2>2, <2>5
    <3> HIDE DEF Of
    <3> QED BY <2>5, <3>1
  <2>7. SumFunctionOnSet(g, t) = g[m] + SumFunctionOnSet(g, u)
    BY <2>1, <2>3, SumStep
  <2>8. PICK a, b, c : a = Of(u) /\ b = {x \in S : x.family = m} /\ c = Of(t)
    OBVIOUS
  <2>9. a \cup b = c /\ a \cap b = {} /\ a \subseteq S /\ b \subseteq S
    BY <2>4, <2>8
  <2>10. IsFiniteSet(a) /\ IsFiniteSet(b) /\ Cardinality(a) \in Nat /\ Cardinality(b) \in Nat
    BY <2>9, FS_Subset, FS_CardinalityType
  <2>11. Cardinality(a \cup b) = Cardinality(a) + Cardinality(b) - Cardinality(a \cap b)
    BY <2>10, FS_Union
  <2>12. Cardinality(a \cap b) = 0 /\ g[m] = Cardinality(b)
    BY <2>4, <2>8, <2>9, FS_EmptySet
  <2>13. SumFunctionOnSet(g, t) = Cardinality(Of(t))
    <3>1. Cardinality(c) = Cardinality(a) + Cardinality(b)
      <4>1. PICK p, q, i, j, k : /\ p = Cardinality(a) /\ q = Cardinality(b) /\ i = Cardinality(a \cap b)
                                 /\ j = Cardinality(a \cup b) /\ k = Cardinality(c)
        OBVIOUS
      <4>2. p \in Nat /\ q \in Nat /\ i = 0 /\ j = p + q - i /\ k = j
        BY <2>9, <2>10, <2>11, <2>12, <4>1
      <4>3. k = p + q
        BY <4>2
      <4> QED BY <4>1, <4>3
    <3>2. PICK k, l : k = SumFunctionOnSet(g, t) /\ l = SumFunctionOnSet(g, u)
      OBVIOUS
    <3>3. k = Cardinality(b) + l /\ l = Cardinality(a)
      <4> HIDE DEF m, u, Of
      <4> QED BY <2>6, <2>7, <2>8, <2>12, <3>2
    <3>4. k = Cardinality(c)
      BY <2>10, <3>1, <3>3
    <3> QED BY <2>8, <3>2, <3>4
  <2> HIDE DEF Of
  <2> QED BY <2>2, <2>13
<1>2. Of(F) = S
  OBVIOUS
<1> HIDE DEF Of
<1> QED BY <1>1, <1>2

\* There are finitely many families.
LEMMA FamiliesFinite ==
  ASSUME NEW c, IsFiniteSet(DOMAIN c)
  PROVE  IsFiniteSet(Families(c))
<1> DEFINE f == [b \in DOMAIN c |-> b.family]
<1>1. f \in Surjection(DOMAIN c, Families(c))
  <2>1. f \in [DOMAIN c -> Families(c)] /\ \A t \in Families(c) : \E b \in DOMAIN c : f[b] = t
    BY DEF Families
  <2> HIDE DEF f
  <2> QED BY <2>1 DEF Surjection
<1> HIDE DEF f
<1> QED BY <1>1, FS_Surjection

\* The strata account for the complete blocks.
LEMMA StrataCount ==
  ASSUME NEW c, Contrast(c)
  PROVE  Cardinality(Valid(c))
           = SumFunction([f \in DOMAIN Analysis(c).strata |-> Analysis(c).strata[f].valid])
<1> DEFINE g == [f \in Families(c) |-> Cardinality(Stratum(c, f) \cap Valid(c))]
<1>1. DOMAIN Analysis(c).strata = Families(c)
  BY DEF Analysis
<1>2. \A f \in Families(c) : Analysis(c).strata[f].valid = Cardinality(Stratum(c, f) \cap Valid(c))
  BY DEF Analysis
<1>3. [f \in DOMAIN Analysis(c).strata |-> Analysis(c).strata[f].valid] = g
  BY <1>1, <1>2
<1>4. SumFunction(g) = SumFunctionOnSet(g, Families(c))
  <2>1. DOMAIN g = Families(c)
    OBVIOUS
  <2> HIDE DEF g
  <2> QED BY <2>1 DEF SumFunction
<1>5. \A f \in Families(c) : g[f] = Cardinality({b \in Valid(c) : b.family = f})
  <2> TAKE f \in Families(c)
  <2>1. Stratum(c, f) \cap Valid(c) = {b \in Valid(c) : b.family = f}
    BY ContrastFacts DEF Stratum
  <2> QED BY <2>1
<1>6. \A b \in Valid(c) : b.family \in Families(c)
  BY ContrastFacts DEF Families
<1>7. IsFiniteSet(Families(c)) /\ IsFiniteSet(Valid(c))
  BY FamiliesFinite, ContrastFacts DEF Contrast
<1> HIDE DEF g
<1>8. SumFunctionOnSet(g, Families(c)) = Cardinality(Valid(c))
  BY <1>5, <1>6, <1>7, FamiliesCount
<1> QED BY <1>3, <1>4, <1>8

\* What an analysis reports, for some complete blocks and for none.
LEMMA AnalysisIs ==
  ASSUME NEW c
  PROVE  /\ Analysis(c).assigned = Cardinality(DOMAIN c)
         /\ Analysis(c).valid = Cardinality(Valid(c))
         /\ Analysis(c).undefined = HedgesUndefined(c)
         /\ Valid(c) # {} => /\ Analysis(c).p = SignFlip(c)
                             /\ Analysis(c).mean = MeanOver(c, Valid(c))
BY DEF Analysis

\* Every block is counted once.
LEMMA BlocksCounted ==
  ASSUME BlockInv
  PROVE  EveryBlockCounted
<1> SUFFICES ASSUME Assigned # {}
             PROVE  /\ Result.assigned = Cardinality(Assigned)
                    /\ Valid(Contrasts) = {b \in DOMAIN left \cap DOMAIN right : NA \notin {left[b], right[b]}}
                    /\ Result.valid = SumFunction([f \in DOMAIN Result.strata |-> Result.strata[f].valid])
  BY DEF EveryBlockCounted
<1>1. /\ Contrast(Contrasts) /\ DOMAIN Contrasts = Assigned
      /\ Valid(Contrasts) = {b \in DOMAIN left \cap DOMAIN right : NA \notin {left[b], right[b]}}
  BY ContrastsOfArms DEF BlockInv, Contrasts, Assigned
<1>2. Result = Analysis(Contrasts)
  BY DEF Result
<1>3. Result.assigned = Cardinality(DOMAIN Contrasts) /\ Result.valid = Cardinality(Valid(Contrasts))
  BY <1>2, AnalysisIs
<1>4. Cardinality(Valid(Contrasts)) = SumFunction([f \in DOMAIN Result.strata |-> Result.strata[f].valid])
  BY <1>1, <1>2, StrataCount
<1> QED BY <1>1, <1>3, <1>4

\* A block with its sign, or flipped.
FlipOf(c, signs) == [b \in Valid(c) |-> IF b \in signs THEN c[b] ELSE Negated(c[b])]

\* Negation twice, absolute values, and equality under negation.
LEMMA NegatedFacts ==
  ASSUME NEW a \in Quotients, NEW b \in Quotients
  PROVE  /\ Negated(a) \in Quotients /\ Negated(Negated(a)) = a
         /\ Absolute(a) \in Quotients /\ Absolute(Negated(a)) = Absolute(a)
         /\ 0 <= Absolute(a).num
         /\ Same(Negated(a), Negated(b)) <=> Same(a, b)
<1>1. PICK p, q, r, s : p = a.num /\ q = a.den /\ r = b.num /\ s = b.den
  OBVIOUS
<1>2. p \in Int /\ q \in Int /\ 0 < q /\ r \in Int /\ s \in Int /\ 0 < s
  BY <1>1 DEF Quotients
<1>3. a = [num |-> p, den |-> q]
  BY <1>1, QuotientIs
<1>4. Negated(a) = [num |-> -p, den |-> q] /\ Negated(b) = [num |-> -r, den |-> s]
  BY <1>1 DEF Negated, Fraction
<1>5. Negated(Negated(a)) = [num |-> -(-p), den |-> q]
  BY <1>4 DEF Negated, Fraction
<1>6. -(-p) = p
  BY <1>2
<1>7. Negated(Negated(a)) = a
  BY <1>3, <1>5, <1>6
<1>8. Negated(a) \in Quotients
  BY PlusType
<1>9. Same(Negated(a), Negated(b)) <=> Same(a, b)
  <2>1. (-p) * s = (-r) * q <=> p * s = r * q
    BY <1>2
  <2> QED BY <1>1, <1>4, <2>1 DEF Same
<1> HIDE DEF Negated
<1>10. Negated(a).num = -p
  BY <1>4
<1>11. /\ p < 0 => Absolute(a) = Negated(a) /\ Absolute(Negated(a)) = Negated(a)
       /\ p = 0 => Absolute(a) = a /\ Absolute(Negated(a)) = a
       /\ 0 < p => Absolute(a) = a /\ Absolute(Negated(a)) = a
  <2>1. CASE p < 0
    <3>1. a.num < 0 /\ ~ (Negated(a).num < 0)
      BY <1>1, <1>2, <1>10, <2>1
    <3> QED BY <1>2, <2>1, <3>1 DEF Absolute
  <2>2. CASE p = 0
    <3>1. ~ (a.num < 0) /\ ~ (Negated(a).num < 0) /\ Negated(a) = a
      BY <1>1, <1>2, <1>3, <1>4, <1>10, <2>2
    <3> QED BY <1>2, <2>2, <3>1 DEF Absolute
  <2>3. CASE 0 < p
    <3>1. ~ (a.num < 0) /\ Negated(a).num < 0
      BY <1>1, <1>2, <1>10, <2>3
    <3> QED BY <1>2, <1>7, <2>3, <3>1 DEF Absolute
  <2> QED BY <1>2, <2>1, <2>2, <2>3
<1>12. Absolute(a) \in Quotients /\ Absolute(Negated(a)) = Absolute(a)
  BY <1>2, <1>8, <1>11
<1>13. 0 <= Absolute(a).num
  <2>1. CASE p < 0
    <3>1. Absolute(a).num = -p
      BY <1>10, <1>11, <2>1
    <3> QED BY <1>2, <2>1, <3>1
  <2>2. CASE ~ (p < 0)
    <3>1. Absolute(a).num = p
      BY <1>1, <1>2, <1>11, <2>2
    <3> QED BY <1>2, <2>2, <3>1
  <2> QED BY <2>1, <2>2
<1> QED BY <1>7, <1>8, <1>9, <1>12, <1>13

\* The flipped blocks are quotients, and so is their sum.
LEMMA FlippedIs ==
  ASSUME NEW c, Contrast(c), NEW signs
  PROVE  /\ Flipped(c, signs) = FracSum(FlipOf(c, signs), Valid(c))
         /\ Flipped(c, signs) \in Quotients
         /\ \A b \in Valid(c) : FlipOf(c, signs)[b] \in Quotients
<1> DEFINE f == FlipOf(c, signs)
<1>1. \A b \in Valid(c) : f[b] \in Quotients
  <2> TAKE b \in Valid(c)
  <2>1. f[b] = IF b \in signs THEN c[b] ELSE Negated(c[b])
    BY DEF FlipOf
  <2>2. c[b] \in Quotients
    BY ContrastFacts
  <2> QED BY <2>1, <2>2, NegatedFacts
<1>2. DOMAIN f = Valid(c)
  BY DEF FlipOf
<1>3. Flipped(c, signs) = SumOfFractions(f)
  BY DEF Flipped, FlipOf
<1> HIDE DEF f
<1>4. SumOfFractions(f) = FracSum(f, Valid(c))
  BY <1>2 DEF SumOfFractions, FoldFunction, FracSum
<1>5. FracSum(f, Valid(c)) \in Quotients
  BY <1>1, ContrastFacts, FracSumType
<1> QED BY <1>1, <1>3, <1>4, <1>5 DEF f

\* Contrasts and the same contrasts negated.
Mirror(c, d) ==
  Contrast(c) /\ Contrast(d) /\ Valid(d) = Valid(c) /\ \A b \in Valid(c) : d[b] = Negated(c[b])

\* Negated contrasts have the negated sums, and the same p-value.
LEMMA MirrorFlips ==
  ASSUME NEW c, NEW d, Mirror(c, d)
  PROVE  /\ \A signs : Flipped(d, signs) = Negated(Flipped(c, signs))
         /\ SignFlip(d) = SignFlip(c)
<1>0. IsFiniteSet(Valid(c)) /\ \A b \in Valid(c) : c[b] \in Quotients
  BY ContrastFacts DEF Mirror
<1>1. ASSUME NEW signs PROVE Flipped(d, signs) = Negated(Flipped(c, signs))
  <2> DEFINE f == FlipOf(c, signs)
             g == FlipOf(d, signs)
  <2>1. \A b \in Valid(c) : f[b] \in Quotients /\ g[b] = Negated(f[b])
    <3> TAKE b \in Valid(c)
    <3>1. /\ f[b] = IF b \in signs THEN c[b] ELSE Negated(c[b])
          /\ g[b] = IF b \in signs THEN d[b] ELSE Negated(d[b])
      BY DEF FlipOf, Mirror
    <3>2. d[b] = Negated(c[b]) /\ c[b] \in Quotients
      BY <1>0 DEF Mirror
    <3>3. Negated(c[b]) \in Quotients
      BY <3>2, NegatedFacts
    <3> HIDE DEF f, g
    <3> QED BY <3>1, <3>2, <3>3
  <2>2. Flipped(c, signs) = FracSum(f, Valid(c)) /\ Flipped(d, signs) = FracSum(g, Valid(c))
    BY FlippedIs DEF Mirror
  <2> HIDE DEF f, g
  <2> QED BY <1>0, <2>1, <2>2, FracSumNegated
<1>2. \A signs : Flipped(d, signs) = Negated(Flipped(c, signs))
  BY <1>1
<1>3. \A signs : Absolute(Flipped(d, signs)) = Absolute(Flipped(c, signs))
  BY <1>2, FlippedIs, NegatedFacts DEF Mirror
<1>4. \A signs : AtLeastObserved(d, signs) <=> AtLeastObserved(c, signs)
  BY <1>3 DEF AtLeastObserved, Mirror
<1>5. SignFlip(d) = SignFlip(c)
  <2>1. {signs \in SUBSET Valid(d) : AtLeastObserved(d, signs)}
          = {signs \in SUBSET Valid(c) : AtLeastObserved(c, signs)}
    BY <1>4 DEF Mirror
  <2> QED BY <2>1 DEF SignFlip, Mirror
<1> QED BY <1>2, <1>5

\* Swapping the arms mirrors the contrasts.
LEMMA SwappingNegates ==
  ASSUME BlockInv
  PROVE  SwapNegates
<1> DEFINE c == Contrasts
           d == BlockContrasts(right, left)
           V == Valid(c)
<1>1. Mirror(c, d)
  <2>1. /\ Contrast(c) /\ V = {x \in DOMAIN left \cap DOMAIN right : NA \notin {left[x], right[x]}}
        /\ \A x \in V : d[x] = Negated(c[x])
    BY ContrastsOfArms DEF BlockInv, Contrasts
  <2>2. /\ Contrast(d)
        /\ Valid(d) = {x \in DOMAIN right \cap DOMAIN left : NA \notin {right[x], left[x]}}
    BY ContrastsOfArms DEF BlockInv
  <2>3. V = Valid(d)
    <3>1. \A x : NA \notin {left[x], right[x]} <=> NA \notin {right[x], left[x]}
      OBVIOUS
    <3> HIDE DEF c, d, V
    <3> QED BY <2>1, <2>2, <3>1
  <2> QED BY <2>1, <2>2, <2>3 DEF Mirror
<1>2. Result = Analysis(c) /\ Swapped = Analysis(d)
  BY DEF Result, Swapped
<1>3. IsFiniteSet(V) /\ \A b \in V : c[b] \in Quotients
  BY <1>1, ContrastFacts DEF Mirror
<1> HIDE DEF c, d
<1>4. Swapped.valid = Result.valid
  BY <1>1, <1>2, AnalysisIs DEF Mirror
<1>5. Swapped.undefined = Result.undefined
  <2>1. (\A a, b \in V : Same(d[a], d[b])) <=> (\A a, b \in V : Same(c[a], c[b]))
    <3>1. \A a, b \in V : Same(d[a], d[b]) <=> Same(c[a], c[b])
      <4> TAKE a \in V, b \in V
      <4>1. d[a] = Negated(c[a]) /\ d[b] = Negated(c[b]) /\ c[a] \in Quotients /\ c[b] \in Quotients
        BY <1>1, <1>3 DEF Mirror
      <4> QED BY <4>1, NegatedFacts
    <3> QED BY <3>1
  <2>2. HedgesUndefined(d) = HedgesUndefined(c)
    BY <1>1, <2>1 DEF HedgesUndefined, Mirror
  <2> QED BY <1>2, <2>2, AnalysisIs
<1>6. V # {} => Same(Swapped.p, Result.p)
  <2> HAVE V # {}
  <2>1. Swapped.p = SignFlip(d) /\ Result.p = SignFlip(c) /\ SignFlip(d) = SignFlip(c)
    BY <1>1, <1>2, AnalysisIs, MirrorFlips DEF Mirror
  <2> QED BY <2>1 DEF Same
<1>7. V # {} => Same(Swapped.mean, Negated(Result.mean))
  <2> HAVE V # {}
  <2> DEFINE f == [b \in V |-> c[b]]
             g == [b \in V |-> d[b]]
  <2>1. Swapped.mean = MeanOfFractions(g) /\ Result.mean = MeanOfFractions(f)
    BY <1>1, <1>2, AnalysisIs DEF Mirror, MeanOver
  <2>2. \A b \in V : f[b] \in Quotients /\ g[b] = Negated(f[b])
    BY <1>1, <1>3 DEF Mirror
  <2>3. DOMAIN f = V /\ DOMAIN g = V
    OBVIOUS
  <2> HIDE DEF f, g, V
  <2>4. FracSum(g, V) = Negated(FracSum(f, V))
    BY <1>3, <2>2, FracSumNegated
  <2>5. PICK p, q, n : p = FracSum(f, V).num /\ q = FracSum(f, V).den /\ n = Cardinality(V)
    OBVIOUS
  <2>6. FracSum(g, V).num = -p /\ FracSum(g, V).den = q
    BY <2>4, <2>5 DEF Negated, Fraction
  <2>7. MeanOfFractions(g) = [num |-> -p, den |-> q * n] /\ MeanOfFractions(f) = [num |-> p, den |-> q * n]
    BY <2>3, <2>5, <2>6, MeanIs
  <2>8. Negated(MeanOfFractions(f)) = [num |-> -p, den |-> q * n]
    BY <2>7 DEF Negated, Fraction
  <2>9. Swapped.mean = Negated(Result.mean)
    BY <2>1, <2>7, <2>8
  <2> QED BY <2>9 DEF Same
<1>8. Result.valid > 0 => V # {}
  <2>1. Result.valid = Cardinality(V)
    BY <1>2, AnalysisIs
  <2>2. Cardinality({}) = 0
    BY FS_EmptySet
  <2> HIDE DEF V
  <2> QED BY <2>1, <2>2
<1> QED BY <1>4, <1>5, <1>6, <1>7, <1>8 DEF SwapNegates

\* Twice the signs as they are and all of them flipped are extreme.
LEMMA TwoAreExtreme ==
  ASSUME NEW c, Contrast(c), Valid(c) # {}
  PROVE  /\ IsFiniteSet({signs \in SUBSET Valid(c) : AtLeastObserved(c, signs)})
         /\ 2 <= Cardinality({signs \in SUBSET Valid(c) : AtLeastObserved(c, signs)})
         /\ Cardinality({signs \in SUBSET Valid(c) : AtLeastObserved(c, signs)}) \in Nat
         /\ 2 ^ Cardinality(Valid(c)) = Cardinality(SUBSET Valid(c))
         /\ Cardinality(SUBSET Valid(c)) \in Nat
<1> DEFINE V == Valid(c)
           E == {signs \in SUBSET V : AtLeastObserved(c, signs)}
           o == Flipped(c, V)
<1>1. IsFiniteSet(V)
  BY ContrastFacts
<1>2. IsFiniteSet(SUBSET V) /\ Cardinality(SUBSET V) = 2 ^ Cardinality(V)
  <2> HIDE DEF V
  <2> QED BY <1>1, FS_SUBSET
<1>3. IsFiniteSet(E) /\ Cardinality(E) \in Nat /\ Cardinality(SUBSET V) \in Nat
  <2>1. E \in SUBSET (SUBSET V)
    OBVIOUS
  <2> HIDE DEF E, V
  <2> QED BY <1>2, <2>1, FS_Subset, FS_CardinalityType
<1>4. o \in Quotients /\ Flipped(c, {}) = Negated(o)
  <2> DEFINE f == FlipOf(c, V)
             g == FlipOf(c, {})
  <2>1. \A b \in V : f[b] \in Quotients /\ g[b] = Negated(f[b])
    <3> TAKE b \in V
    <3>1. f[b] = c[b] /\ g[b] = Negated(c[b]) /\ c[b] \in Quotients
      BY ContrastFacts DEF FlipOf
    <3> HIDE DEF f, g
    <3> QED BY <3>1
  <2>2. o = FracSum(f, V) /\ Flipped(c, {}) = FracSum(g, V) /\ o \in Quotients
    BY FlippedIs
  <2> HIDE DEF f, g, V, o
  <2> QED BY <1>1, <2>1, <2>2, FracSumNegated
<1>5. Leq(Absolute(o), Absolute(o))
  <2>1. Absolute(o) \in Quotients
    <3> HIDE DEF o
    <3> QED BY <1>4, NegatedFacts
  <2>2. PICK p, q : p = Absolute(o).num /\ q = Absolute(o).den
    OBVIOUS
  <2>3. p \in Int /\ q \in Int
    BY <2>1, <2>2 DEF Quotients
  <2>4. p * q <= p * q
    BY <2>3
  <2> HIDE DEF o
  <2> QED BY <2>2, <2>4 DEF Leq
<1>6. V \in E
  BY <1>5 DEF AtLeastObserved
<1>7. {} \in E
  <2>1. Absolute(Flipped(c, {})) = Absolute(o)
    <3> HIDE DEF o
    <3> QED BY <1>4, NegatedFacts
  <2> QED BY <1>5, <2>1 DEF AtLeastObserved
<1>8. 2 <= Cardinality(E)
  <2>1. {V} \subseteq E \ {{}} /\ V # {}
    BY <1>6
  <2> HIDE DEF E, V
  <2>2. IsFiniteSet(E \ {{}}) /\ Cardinality(E \ {{}}) = Cardinality(E) - 1
    BY <1>3, <1>7, FS_RemoveElement
  <2>3. Cardinality({V}) <= Cardinality(E \ {{}}) /\ Cardinality({V}) = 1
    BY <2>1, <2>2, FS_Subset, FS_Singleton
  <2> QED BY <1>3, <2>2, <2>3
<1> QED BY <1>2, <1>3, <1>8

\* The exact p-value is at least 2 / 2^n.
LEMMA PValueIsBounded ==
  ASSUME BlockInv
  PROVE  SmallestPValue
<1> DEFINE V == Valid(Contrasts)
<1> SUFFICES ASSUME Result.valid > 0
             PROVE  Leq(Fraction(2, 2 ^ Result.valid), Result.p)
  BY DEF SmallestPValue
<1>1. Contrast(Contrasts)
  BY ContrastsOfArms DEF BlockInv, Contrasts
<1>2. Result.valid = Cardinality(V)
  BY AnalysisIs DEF Result
<1>3. V # {}
  <2>1. Cardinality({}) = 0
    BY FS_EmptySet
  <2> HIDE DEF V
  <2> QED BY <1>2, <2>1
<1>4. Result.p = SignFlip(Contrasts)
  BY <1>3, AnalysisIs DEF Result
<1>5. PICK k, w : /\ k = Cardinality({signs \in SUBSET V : AtLeastObserved(Contrasts, signs)})
                  /\ w = 2 ^ Cardinality(V)
  OBVIOUS
<1>6. k \in Nat /\ 2 <= k /\ w \in Nat
  BY <1>1, <1>3, <1>5, TwoAreExtreme
<1>7. SignFlip(Contrasts) = Fraction(k, w) /\ Fraction(2, 2 ^ Result.valid) = Fraction(2, w)
  BY <1>2, <1>5 DEF SignFlip
<1>8. 2 * w <= k * w
  BY <1>6
<1> QED BY <1>4, <1>7, <1>8 DEF Leq, Fraction

\* Sets of signs that are not looked at for one block come in pairs.
LEMMA SignsPair ==
  ASSUME NEW V, IsFiniteSet(V), NEW b \in V, NEW E, NEW D,
         E \subseteq SUBSET V, D \subseteq SUBSET (V \ {b}),
         \A s \in SUBSET V : s \in E <=> s \ {b} \in D
  PROVE  Cardinality(E) = 2 * Cardinality(D) /\ Cardinality(D) \in Nat
<1> DEFINE with == [s \in D |-> s \cup {b}]
           F == {s \in E : b \in s}
<1>1. IsFiniteSet(SUBSET V) /\ D \subseteq SUBSET V
  BY FS_SUBSET
<1>2. IsFiniteSet(D) /\ IsFiniteSet(E) /\ IsFiniteSet(F) /\ Cardinality(D) \in Nat
  <2>1. F \subseteq SUBSET V
    OBVIOUS
  <2> HIDE DEF F
  <2> QED BY <1>1, <2>1, FS_Subset, FS_CardinalityType
<1>3. Cardinality(F) = Cardinality(D)
  <2>1. with \in [D -> F]
    <3>1. \A s \in D : s \cup {b} \in SUBSET V /\ (s \cup {b}) \ {b} = s
      OBVIOUS
    <3>2. \A s \in D : s \cup {b} \in F
      BY <3>1
    <3> QED BY <3>2
  <2>2. \A t \in F : t \ {b} \in D /\ (t \ {b}) \cup {b} = t
    OBVIOUS
  <2>3. \A t \in F : \E s \in D : with[s] = t
    BY <2>2
  <2>4. \A s, t \in D : with[s] = with[t] => s = t
    <3> TAKE s \in D, t \in D
    <3> HAVE with[s] = with[t]
    <3>1. s \cup {b} = t \cup {b} /\ b \notin s /\ b \notin t
      OBVIOUS
    <3> HIDE DEF with
    <3> QED BY <3>1
  <2> HIDE DEF with, F
  <2>5. with \in Bijection(D, F)
    BY <2>1, <2>3, <2>4 DEF Bijection, Injection, Surjection, IsInjective
  <2>6. ExistsBijection(D, F)
    BY <2>5 DEF ExistsBijection
  <2> QED BY <1>2, <2>6, FS_Bijection
<1>4. E = D \cup F /\ D \cap F = {}
  <2>1. \A s \in E : b \notin s => s \in D
    <3> TAKE s \in E
    <3> HAVE b \notin s
    <3>1. s \ {b} = s /\ s \in SUBSET V
      OBVIOUS
    <3> QED BY <3>1
  <2>2. \A s \in D : s \in E /\ b \notin s
    <3> TAKE s \in D
    <3>1. s \ {b} = s /\ s \in SUBSET V
      BY <1>1
    <3> QED BY <3>1
  <2> QED BY <2>1, <2>2
<1> HIDE DEF F
<1>5. Cardinality(D \cap F) = 0 /\ Cardinality(F) \in Nat
  BY <1>2, <1>4, FS_EmptySet, FS_CardinalityType
<1>6. Cardinality(D \cup F) = Cardinality(D) + Cardinality(F) - Cardinality(D \cap F)
  BY <1>2, FS_Union
<1>7. PICK d, f, e, i : /\ d = Cardinality(D) /\ f = Cardinality(F) /\ e = Cardinality(D \cup F)
                        /\ i = Cardinality(D \cap F)
  OBVIOUS
<1>8. d \in Nat /\ f = d /\ i = 0 /\ e = d + f - i
  BY <1>2, <1>3, <1>5, <1>6, <1>7
<1>9. e = 2 * d
  BY <1>8
<1> QED BY <1>2, <1>4, <1>7, <1>9

\* A quotient that is zero scales what it is added to.
LEMMA ScalesBy ==
  ASSUME NEW z \in Quotients, z.num = 0, NEW a \in Quotients, NEW x, NEW b \in Quotients, NEW y,
         x = Plus(z, a) \/ x = Plus(Negated(z), a), y = Plus(z, b) \/ y = Plus(Negated(z), b)
  PROVE  Leq(Absolute(x), Absolute(y)) <=> Leq(Absolute(a), Absolute(b))
<1>1. PICK d, p, q, r, s : d = z.den /\ p = a.num /\ q = a.den /\ r = b.num /\ s = b.den
  OBVIOUS
<1>2. d \in Int /\ 0 < d /\ p \in Int /\ q \in Int /\ 0 < q /\ r \in Int /\ s \in Int /\ 0 < s
  BY <1>1 DEF Quotients
<1>3. x = [num |-> p * d, den |-> d * q] /\ y = [num |-> r * d, den |-> d * s]
  <2>1. 0 * q + p * d = p * d /\ (-0) * q + p * d = p * d /\ 0 * s + r * d = r * d /\ (-0) * s + r * d = r * d
    BY <1>2
  <2>2. /\ Plus(z, a) = [num |-> 0 * q + p * d, den |-> d * q]
        /\ Plus(Negated(z), a) = [num |-> (-0) * q + p * d, den |-> d * q]
        /\ Plus(z, b) = [num |-> 0 * s + r * d, den |-> d * s]
        /\ Plus(Negated(z), b) = [num |-> (-0) * s + r * d, den |-> d * s]
    BY <1>1 DEF Plus, Negated, Fraction
  <2> QED BY <2>1, <2>2
<1> DEFINE Size(k) == IF k < 0 THEN -k ELSE k
<1>4. ASSUME NEW v, NEW k \in Int, NEW l \in Int, v = [num |-> k, den |-> l]
      PROVE  Absolute(v).num = Size(k) /\ Absolute(v).den = l
  BY <1>4 DEF Absolute, Negated, Fraction
<1>5. p * d \in Int /\ d * q \in Int /\ r * d \in Int /\ d * s \in Int
  BY <1>2
<1>6. /\ Absolute(x).num = Size(p * d) /\ Absolute(x).den = d * q
      /\ Absolute(y).num = Size(r * d) /\ Absolute(y).den = d * s
      /\ Absolute(a).num = Size(p) /\ Absolute(a).den = q
      /\ Absolute(b).num = Size(r) /\ Absolute(b).den = s
  <2>1. a = [num |-> p, den |-> q] /\ b = [num |-> r, den |-> s]
    BY <1>1, QuotientIs
  <2> HIDE DEF Size
  <2> QED BY <1>2, <1>3, <1>4, <1>5, <2>1
<1>7. \A k \in Int : Size(k) \in Int /\ Size(k * d) = Size(k) * d
  <2> TAKE k \in Int
  <2>1. CASE k < 0
    <3>1. k * d < 0 /\ -(k * d) = (-k) * d
      BY <1>2, <2>1
    <3> QED BY <1>2, <2>1, <3>1
  <2>2. CASE ~ (k < 0)
    <3>1. ~ (k * d < 0)
      BY <1>2, <2>2
    <3> QED BY <1>2, <2>2, <3>1
  <2> QED BY <2>1, <2>2
<1>8. PICK m, n : m = Size(p) /\ n = Size(r)
  OBVIOUS
<1>9. m \in Int /\ n \in Int /\ Size(p * d) = m * d /\ Size(r * d) = n * d
  BY <1>2, <1>7, <1>8
<1>10. (m * d) * (d * s) <= (n * d) * (d * q) <=> m * s <= n * q
  <2>1. PICK e, i, j : e = d * d /\ i = m * s /\ j = n * q
    OBVIOUS
  <2>2. e \in Int /\ i \in Int /\ j \in Int /\ 0 < e
    BY <1>2, <1>9, <2>1
  <2>3. (m * d) * (d * s) = e * i /\ (n * d) * (d * q) = e * j
    BY <1>2, <1>9, <2>1
  <2>4. e * i <= e * j <=> i <= j
    <3>1. i <= j => e * i <= e * j
      BY <2>2
    <3>2. j < i => e * j < e * i
      BY <2>2
    <3>3. e * i \in Int /\ e * j \in Int
      BY <2>2
    <3> QED BY <2>2, <3>1, <3>2, <3>3
  <2> QED BY <2>1, <2>3, <2>4
<1> HIDE DEF Size
<1> QED BY <1>6, <1>8, <1>9, <1>10 DEF Leq

\* A complete block without a difference adds no evidence.
LEMMA NullBlockIsSilent ==
  ASSUME NEW c, Contrast(c), NEW b \in Valid(c), c[b].num = 0
  PROVE  Same(SignFlip(c), SignFlip([c EXCEPT ![b] = NA]))
<1> DEFINE d == [c EXCEPT ![b] = NA]
           V == Valid(c)
           W == V \ {b}
           E == {s \in SUBSET V : AtLeastObserved(c, s)}
           D == {s \in SUBSET W : AtLeastObserved(d, s)}
<1>1. /\ IsFiniteSet(V) /\ IsFiniteSet(W) /\ b \in DOMAIN c /\ c[b] \in Quotients
      /\ \A x \in V : c[x] \in Quotients
  <2>1. IsFiniteSet(V) /\ b \in DOMAIN c /\ \A x \in V : c[x] \in Quotients
    BY ContrastFacts
  <2> HIDE DEF V
  <2> QED BY <2>1, FS_RemoveElement DEF V
<1>2. Contrast(d) /\ Valid(d) = W /\ \A x \in W : d[x] = c[x]
  <2>1. /\ DOMAIN d = DOMAIN c
        /\ \A x \in DOMAIN c : d[x] = IF x = b THEN NA ELSE c[x]
    BY <1>1
  <2> HIDE DEF d
  <2>2. Contrast(d)
    BY <2>1 DEF Contrast
  <2>3. Valid(d) = W
    BY <1>1, <2>1 DEF Valid
  <2>4. \A x \in W : x \in DOMAIN c /\ x # b
    BY ContrastFacts
  <2> QED BY <2>1, <2>2, <2>3, <2>4
<1> HIDE DEF d
<1>3. ASSUME NEW s \in SUBSET V
      PROVE  \/ Flipped(c, s) = Plus(c[b], Flipped(d, s \ {b}))
             \/ Flipped(c, s) = Plus(Negated(c[b]), Flipped(d, s \ {b}))
  <2> DEFINE f == FlipOf(c, s)
             g == FlipOf(d, s \ {b})
  <2>1. \A x \in W : f[x] = g[x]
    <3> TAKE x \in W
    <3>1. /\ f[x] = IF x \in s THEN c[x] ELSE Negated(c[x])
          /\ g[x] = IF x \in s \ {b} THEN d[x] ELSE Negated(d[x])
          /\ x # b /\ d[x] = c[x]
      BY <1>2 DEF FlipOf
    <3> HIDE DEF f, g
    <3> QED BY <3>1
  <2>2. f[b] = c[b] \/ f[b] = Negated(c[b])
    BY DEF FlipOf
  <2>3. /\ Flipped(c, s) = FracSum(f, V) /\ \A x \in V : f[x] \in Quotients
        /\ Flipped(d, s \ {b}) = FracSum(g, W)
    BY <1>2, FlippedIs
  <2>4. FracSum(f, V) = Plus(f[b], FracSum(f, W))
    <3> HIDE DEF f
    <3> QED BY <1>1, <2>3, FracSumTake
  <2>5. FracSum(f, W) = FracSum(g, W)
    <3> HIDE DEF f, g, W
    <3> QED BY <1>1, <2>1, FracSumSame
  <2> HIDE DEF f, g, V, W
  <2> QED BY <2>2, <2>3, <2>4, <2>5
<1>4. \A s \in SUBSET V : s \in E <=> s \ {b} \in D
  <2> TAKE s \in SUBSET V
  <2>1. PICK x, y, a, o : /\ x = Flipped(c, V) /\ y = Flipped(c, s)
                          /\ a = Flipped(d, W) /\ o = Flipped(d, s \ {b})
    OBVIOUS
  <2>2. a \in Quotients /\ o \in Quotients
    BY <1>2, <2>1, FlippedIs
  <2>3. x = Plus(c[b], a) \/ x = Plus(Negated(c[b]), a)
    <3>1. V \in SUBSET V /\ V \ {b} = W
      OBVIOUS
    <3> HIDE DEF V, W
    <3> QED BY <1>3, <2>1, <3>1
  <2>4. y = Plus(c[b], o) \/ y = Plus(Negated(c[b]), o)
    BY <1>3, <2>1
  <2>5. Leq(Absolute(x), Absolute(y)) <=> Leq(Absolute(a), Absolute(o))
    BY <1>1, <2>2, <2>3, <2>4, ScalesBy
  <2>6. s \in E <=> Leq(Absolute(x), Absolute(y))
    BY <2>1 DEF AtLeastObserved
  <2>7. s \ {b} \in D <=> Leq(Absolute(a), Absolute(o))
    <3>1. s \ {b} \in SUBSET W
      OBVIOUS
    <3> QED BY <1>2, <2>1, <3>1 DEF AtLeastObserved
  <2> QED BY <2>5, <2>6, <2>7
<1>5. Cardinality(E) = 2 * Cardinality(D) /\ Cardinality(D) \in Nat
  <2>1. E \subseteq SUBSET V /\ D \subseteq SUBSET (V \ {b}) /\ b \in V
    OBVIOUS
  <2> HIDE DEF E, D, V, W
  <2> QED BY <1>1, <1>4, <2>1, SignsPair
<1>6. Cardinality(SUBSET V) = 2 * Cardinality(SUBSET W) /\ Cardinality(SUBSET W) \in Nat
  <2> DEFINE X == SUBSET V
             Y == SUBSET W
  <2>1. \A s \in SUBSET V : s \in X <=> s \ {b} \in Y
    OBVIOUS
  <2>2. X \subseteq SUBSET V /\ Y \subseteq SUBSET (V \ {b}) /\ b \in V
    OBVIOUS
  <2> HIDE DEF X, Y, V, W
  <2>3. Cardinality(X) = 2 * Cardinality(Y) /\ Cardinality(Y) \in Nat
    BY <1>1, <2>1, <2>2, SignsPair
  <2> QED BY <2>3 DEF X, Y
<1>7. Cardinality(SUBSET V) = 2 ^ Cardinality(V) /\ Cardinality(SUBSET W) = 2 ^ Cardinality(W)
  <2> HIDE DEF V, W
  <2> QED BY <1>1, FS_SUBSET
<1>8. PICK k, w : k = Cardinality(D) /\ w = Cardinality(SUBSET W)
  OBVIOUS
<1>9. SignFlip(c) = [num |-> 2 * k, den |-> 2 * w] /\ SignFlip(d) = [num |-> k, den |-> w]
  <2>1. SignFlip(c) = [num |-> Cardinality(E), den |-> 2 ^ Cardinality(V)]
    BY DEF SignFlip, Fraction
  <2>2. SignFlip(d) = [num |-> Cardinality(D), den |-> 2 ^ Cardinality(W)]
    BY <1>2 DEF SignFlip, Fraction
  <2> HIDE DEF E, D, V, W
  <2> QED BY <1>5, <1>6, <1>7, <1>8, <2>1, <2>2
<1>10. (2 * k) * w = k * (2 * w)
  BY <1>5, <1>6, <1>8
<1>11. Same(SignFlip(c), SignFlip(d))
  BY <1>9, <1>10 DEF Same
<1> QED BY <1>11 DEF d

\* So it is for the contrasts of the two arms.
LEMMA NullBlocksAreSilent ==
  ASSUME BlockInv
  PROVE  NullBlockAddsNothing
<1>1. Contrast(Contrasts)
  BY ContrastsOfArms DEF BlockInv, Contrasts
<1> QED BY <1>1, NullBlockIsSilent DEF NullBlockAddsNothing

\* Over the same members, equal means are equal sums.
LEMMA MeansOrSums ==
  ASSUME NEW V, IsFiniteSet(V), V # {}, NEW f, NEW g, DOMAIN f = V, DOMAIN g = V,
         \A b \in V : f[b] \in Quotients /\ g[b] \in Quotients
  PROVE  /\ Same(MeanOfFractions(f), MeanOfFractions(g)) <=> Same(FracSum(f, V), FracSum(g, V))
         /\ FracSum(f, V) \in Quotients /\ FracSum(g, V) \in Quotients
<1>1. FracSum(f, V) \in Quotients /\ FracSum(g, V) \in Quotients
  BY FracSumType
<1>2. PICK p, q, r, s, n : /\ p = FracSum(f, V).num /\ q = FracSum(f, V).den
                           /\ r = FracSum(g, V).num /\ s = FracSum(g, V).den /\ n = Cardinality(V)
  OBVIOUS
<1>3. p \in Int /\ q \in Int /\ r \in Int /\ s \in Int
  BY <1>1, <1>2 DEF Quotients
<1>4. n \in Nat /\ 0 < n
  BY <1>2, FS_CardinalityType, FS_EmptySet
<1>5. MeanOfFractions(f) = [num |-> p, den |-> q * n] /\ MeanOfFractions(g) = [num |-> r, den |-> s * n]
  BY <1>2, MeanIs
<1>6. p * (s * n) = r * (q * n) <=> p * s = r * q
  <2>1. PICK i, j : i = p * s /\ j = r * q
    OBVIOUS
  <2>2. i \in Int /\ j \in Int /\ p * (s * n) = i * n /\ r * (q * n) = j * n
    BY <1>3, <1>4, <2>1
  <2>3. i * n = j * n => i = j
    <3>1. i < j => i * n < j * n
      BY <1>4, <2>2
    <3>2. j < i => j * n < i * n
      BY <1>4, <2>2
    <3>3. i * n \in Int /\ j * n \in Int
      BY <1>4, <2>2
    <3> QED BY <2>2, <3>1, <3>2, <3>3
  <2> QED BY <2>1, <2>2, <2>3
<1>7. /\ Same(MeanOfFractions(f), MeanOfFractions(g)) <=> p * (s * n) = r * (q * n)
      /\ Same(FracSum(f, V), FracSum(g, V)) <=> p * s = r * q
  BY <1>2, <1>5 DEF Same
<1> QED BY <1>1, <1>6, <1>7

\* What is added to both sides does not matter.
LEMMA SameCancels ==
  ASSUME NEW a \in Quotients, NEW b \in Quotients, NEW c \in Quotients,
         Same(Plus(a, c), Plus(b, c))
  PROVE  Same(a, b)
<1>1. PICK p, q, r, s, t, u : /\ p = a.num /\ q = a.den /\ r = b.num /\ s = b.den
                              /\ t = c.num /\ u = c.den
  OBVIOUS
<1>2. p \in Int /\ q \in Int /\ r \in Int /\ s \in Int /\ t \in Int /\ u \in Int /\ 0 < u
  BY <1>1 DEF Quotients
<1>3. (p * u + t * q) * (s * u) = (r * u + t * s) * (q * u)
  BY <1>1 DEF Same, Plus, Fraction
<1>4. PICK e, i, j, k : e = u * u /\ i = p * s /\ j = r * q /\ k = (t * q) * (s * u)
  OBVIOUS
<1>5. e \in Int /\ 0 < e /\ i \in Int /\ j \in Int /\ k \in Int
  BY <1>2, <1>4
<1>6. (p * u + t * q) * (s * u) = i * e + k
  BY <1>2, <1>4
<1>7. (r * u + t * s) * (q * u) = j * e + k
  BY <1>2, <1>4
<1>8. i * e \in Int /\ j * e \in Int /\ i * e = j * e
  <2>1. i * e \in Int /\ j * e \in Int /\ i * e + k = j * e + k
    BY <1>3, <1>5, <1>6, <1>7
  <2> QED BY <1>5, <2>1
<1>9. i = j
  <2>1. i < j => i * e < j * e
    BY <1>5
  <2>2. j < i => j * e < i * e
    BY <1>5
  <2> QED BY <1>5, <1>8, <2>1, <2>2
<1> QED BY <1>1, <1>4, <1>9 DEF Same

\* The draws keep each family's weight.
LEMMA IntervalCollapses ==
  ASSUME NEW c, Contrast(c), Valid(c) # {}
  PROVE  (\A draw \in Draws(c) : Same(DrawMean(c, draw), MeanOver(c, Valid(c))))
           <=> \A a, b \in Valid(c) : a.family = b.family => Same(c[a], c[b])
<1> DEFINE V == Valid(c)
           own == [b \in V |-> c[b]]
           Drawn(draw) == [b \in V |-> c[draw[b]]]
<1>1. IsFiniteSet(V) /\ \A b \in V : c[b] \in Quotients
  BY ContrastFacts
<1>2. MeanOver(c, V) = MeanOfFractions(own) /\ \A draw : DrawMean(c, draw) = MeanOfFractions(Drawn(draw))
  BY DEF MeanOver, DrawMean
<1>3. \A draw \in Draws(c) : \A b \in V : draw[b] \in V /\ draw[b].family = b.family
  BY DEF Draws
<1>4. \A draw \in Draws(c) :
        Same(DrawMean(c, draw), MeanOver(c, V)) <=> Same(FracSum(Drawn(draw), V), FracSum(own, V))
  <2> TAKE draw \in Draws(c)
  <2>1. \A b \in V : Drawn(draw)[b] \in Quotients /\ own[b] \in Quotients
    BY <1>1, <1>3
  <2>2. DOMAIN own = V /\ DOMAIN Drawn(draw) = V
    OBVIOUS
  <2>3. PICK f : f = Drawn(draw)
    OBVIOUS
  <2>4. Same(MeanOfFractions(f), MeanOfFractions(own)) <=> Same(FracSum(f, V), FracSum(own, V))
    <3>1. DOMAIN f = V /\ \A b \in V : f[b] \in Quotients
      BY <2>1, <2>2, <2>3
    <3> HIDE DEF own, V, Drawn
    <3> QED BY <1>1, <2>1, <2>2, <3>1, MeansOrSums DEF V
  <2> QED BY <1>2, <2>3, <2>4
<1>5. ASSUME \A a, b \in V : a.family = b.family => Same(c[a], c[b]), NEW draw \in Draws(c)
      PROVE  Same(FracSum(Drawn(draw), V), FracSum(own, V))
  <2>1. \A b \in V : Drawn(draw)[b] \in Quotients /\ own[b] \in Quotients /\ Same(Drawn(draw)[b], own[b])
    <3> TAKE b \in V
    <3>1. Drawn(draw)[b] = c[draw[b]] /\ own[b] = c[b]
      OBVIOUS
    <3>2. draw[b] \in V /\ draw[b].family = b.family
      BY <1>3
    <3>3. Same(c[draw[b]], c[b])
      BY <1>5, <3>2
    <3> HIDE DEF V, own, Drawn
    <3> QED BY <1>1, <3>1, <3>2, <3>3
  <2>2. PICK f : f = Drawn(draw)
    OBVIOUS
  <2> HIDE DEF V, own, Drawn
  <2> QED BY <1>1, <2>1, <2>2, FracSumEqual
<1>6. ASSUME \A draw \in Draws(c) : Same(FracSum(Drawn(draw), V), FracSum(own, V)),
             NEW a \in V, NEW b \in V, a.family = b.family
      PROVE  Same(c[a], c[b])
  <2> DEFINE draw == [x \in V |-> IF x = a THEN b ELSE x]
             f == Drawn(draw)
             W == V \ {a}
  <2>1. draw \in Draws(c)
    BY <1>6 DEF Draws
  <2>2. \A x \in V : f[x] = IF x = a THEN c[b] ELSE c[x]
    OBVIOUS
  <2>3. Same(FracSum(f, V), FracSum(own, V))
    <3> HIDE DEF draw, V, own, Drawn
    <3> QED BY <1>6, <2>1
  <2>4. \A x \in V : own[x] = c[x]
    OBVIOUS
  <2> HIDE DEF f, own, draw, Drawn, V
  <2>5. FracSum(f, V) = Plus(c[b], FracSum(f, W))
    <3>1. f[a] = c[b] /\ \A x \in V : f[x] \in Quotients
      BY <1>1, <2>2
    <3> QED BY <1>1, <3>1, FracSumTake
  <2>6. FracSum(own, V) = Plus(c[a], FracSum(own, W))
    <3>1. own[a] = c[a] /\ \A x \in V : own[x] \in Quotients
      BY <1>1, <2>4
    <3> QED BY <1>1, <3>1, FracSumTake
  <2>7. IsFiniteSet(W)
    BY <1>1, FS_RemoveElement
  <2>8. FracSum(f, W) = FracSum(own, W)
    <3>1. \A x \in W : f[x] = own[x]
      BY <2>2, <2>4
    <3> QED BY <2>7, <3>1, FracSumSame
  <2>9. FracSum(own, W) \in Quotients
    <3>1. \A x \in W : own[x] \in Quotients
      BY <1>1, <2>4
    <3> QED BY <2>7, <3>1, FracSumType
  <2>10. Same(Plus(c[b], FracSum(own, W)), Plus(c[a], FracSum(own, W)))
    BY <2>3, <2>5, <2>6, <2>8
  <2>11. Same(c[b], c[a])
    BY <1>1, <2>9, <2>10, SameCancels
  <2> QED BY <2>11 DEF Same
<1> HIDE DEF own, Drawn
<1> QED BY <1>4, <1>5, <1>6

\* So it is for the contrasts of the two arms.
LEMMA IntervalsCollapse ==
  ASSUME BlockInv
  PROVE  IntervalIsWithinFamilies
<1> SUFFICES ASSUME Valid(Contrasts) # {}
             PROVE  (\A draw \in Draws(Contrasts) : Same(DrawMean(Contrasts, draw), Result.mean))
                      <=> \A a, b \in Valid(Contrasts) : a.family = b.family => Same(Contrasts[a], Contrasts[b])
  BY DEF IntervalIsWithinFamilies
<1>1. Contrast(Contrasts)
  BY ContrastsOfArms DEF BlockInv, Contrasts
<1>2. Result.mean = MeanOver(Contrasts, Valid(Contrasts))
  BY AnalysisIs DEF Result
<1> QED BY <1>1, <1>2, IntervalCollapses

\* The contrasts of one hypothesis are sound, whatever the trajectories bring
\* (analysis.py:497-524, 737-820).
THEOREM ContrastsStaySound == RulesSpec => []ContrastsSound
<1>1. BlockInv => ContrastsSound
  BY BlocksCounted, SwappingNegates, PValueIsBounded, NullBlocksAreSilent, IntervalsCollapse
     DEF ContrastsSound
<1> QED BY <1>1, BlockInvHolds, PTL
=============================================================================
