-------------------------------- MODULE Cell --------------------------------
(***************************************************************************)
(* One cell of the experiment (harness/runner.py): a formation and an      *)
(* intervention, simulated day by day.  A day is a transaction over five   *)
(* stores: the simulation's records, the memory, the intervention runtime, *)
(* the model's ledger and the evidence chain.  It runs through the steps   *)
(* that `pc' names; at each of them it may raise, and CellExecution.step   *)
(* then puts every store back.  Between days the stores can be captured in *)
(* a composite checkpoint and a new execution resumed from one.            *)
(*                                                                         *)
(* A hash stands for the value it is taken of, a chain of hashes for the   *)
(* sequence it ends.  The model is deterministic: a decision is identified *)
(* by its input.                                                           *)
(***************************************************************************)
EXTENDS Treatment

CONSTANTS
  LastDay,           \* the last simulated day (40)
  Cells,             \* the cells: a formation and an intervention each
  Instructed,        \* the formations whose agent gets Directives
  Directives,        \* the instructions given at the start
  Candidates(_, _),  \* the memory candidates of a formation's event of a day
  Action(_),         \* the action that the model chooses for an input
  Nothing,           \* Python's None
  MaxBundles         \* bound: composite checkpoints captured

ASSUME CellAssumption ==
  /\ LastDay \in Nat /\ ActivationDay <= LastDay
  /\ \A c \in Cells :
       /\ DOMAIN c = {"formation", "intervention"}
       /\ c.intervention \in Conditions
       /\ \A d \in 1..LastDay :
            /\ Candidates(c.formation, d) \in Seq(MemoryIds)
            /\ IsInjective(Candidates(c.formation, d))  \* world.py:243-250
  /\ Nothing \notin Nat
  /\ MaxBundles \in Nat

VARIABLES
  pc,            \* the step of the day in progress; "idle" between days
  cell,          \* the cell that is executed
  treatment,     \* runtime: the condition of its intervention spec
  memory,        \* runtime: the live memory
  instructions,  \* runtime: the directives in force
  shock,         \* runtime: the validated shock event
  applied,       \* runtime: intervention records
  staged,        \* runtime: the pending activation, if any, as a sequence
  context,       \* bridge: what the last retrieval returned
  ledger,        \* model: what was asked of it, in order
  pending,       \* model: decisions whose language is not out yet
  traces,        \* model: finished calls of this execution
  days,          \* engine: the step records
  decision,      \* engine, during a day: the model's input
  drafts,        \* engine, during a day: episodes not yet appended
  evidence,      \* the evidence chain
  before,        \* what CellExecution.step restores on failure
  archive        \* composite checkpoints captured so far

runtime == <<treatment, memory, instructions, shock, applied, staged>>
model == <<ledger, pending, traces>>
engine == <<days, decision, drafts>>
vars == <<pc, cell, runtime, context, model, engine, evidence, before, archive>>

Today == Len(days) + 1

InitialInstructions(c) == IF c.formation \in Instructed THEN Directives ELSE {}

\* The model's ledger starts from what its input depends on; the assigned
\* intervention is left out, so that arms can be compared.
\* Mutant of InitialLedger: the whole cell identity goes in.
InitialLedgerOfCell(c) == <<c>>

InitialLedger(c) == <<c.formation>>

\* The memory and the instructions that the day in progress works on.
SourceMemory == IF staged # <<>> THEN staged[1].memory ELSE memory
ActiveInstructions == IF staged # <<>> THEN staged[1].instructions ELSE instructions

-----------------------------------------------------------------------------
(* Starting a cell *)

\* What an execution holds between days.
Store ==
  [treatment |-> treatment, memory |-> memory, instructions |-> instructions,
   shock |-> shock, applied |-> applied, ledger |-> ledger, days |-> days,
   evidence |-> evidence]

FreshStore(c) ==
  [treatment |-> c.intervention, memory |-> EmptyMemory,
   instructions |-> InitialInstructions(c), shock |-> Nothing, applied |-> <<>>,
   ledger |-> InitialLedger(c), days |-> <<>>, evidence |-> <<>>]

\* An execution between days, with these contents.
Load(store) ==
  /\ treatment' = store.treatment /\ memory' = store.memory
  /\ instructions' = store.instructions /\ shock' = store.shock
  /\ applied' = store.applied /\ ledger' = store.ledger
  /\ days' = store.days /\ evidence' = store.evidence
  /\ pc' = "idle"
  /\ staged' = <<>> /\ context' = Nothing /\ decision' = Nothing /\ before' = Nothing
  /\ pending' = {} /\ drafts' = <<>>

Init ==
  /\ cell \in Cells
  /\ treatment = cell.intervention /\ memory = EmptyMemory
  /\ instructions = InitialInstructions(cell) /\ shock = Nothing
  /\ applied = <<>> /\ ledger = InitialLedger(cell) /\ days = <<>> /\ evidence = <<>>
  /\ pc = "idle"
  /\ staged = <<>> /\ context = Nothing /\ decision = Nothing /\ before = Nothing
  /\ pending = {} /\ drafts = <<>> /\ traces = <<>>
  /\ archive = {}

StartCell(c) ==
  /\ pc = "idle"
  /\ cell' = c
  /\ Load(FreshStore(c))
  /\ traces' = <<>>
  /\ UNCHANGED archive

-----------------------------------------------------------------------------
(* The steps of a day *)

\* A checkpoint of the runtime validates only when it has seen the shock and
\* applied the intervention by the time it should have.
SnapshotValid ==
  /\ Today > ShockDay => shock # Nothing
  /\ Today > ActivationDay => Len(applied) = 1

BeginDay ==
  /\ pc = "idle" /\ Today <= LastDay
  /\ SnapshotValid
  /\ pc' = "retrieve"
  /\ staged' = <<>>
  /\ before' = [store |-> Store, traced |-> Len(traces)]
  /\ UNCHANGED <<cell, treatment, memory, instructions, shock, applied, context,
                 model, engine, evidence, archive>>

\* The treatment of a clone; one that was applied already is not repeated.
Activation(seen) ==
  IF applied # <<>>
  THEN [memory |-> memory, instructions |-> instructions, record |-> applied[1]]
  ELSE Treated(treatment, memory, instructions, seen)

ShockSeen == IF Today = ShockDay THEN Today ELSE shock

Overlay ==
  [instructions |-> ActiveInstructions,
   blocked |-> SourceMemory.blocked,
   record |-> IF staged # <<>> THEN staged[1].record
              ELSE IF applied # <<>> THEN Last(applied) ELSE Nothing]

\* The shock is observed once, the treatment changes one layer, and after its
\* day it is on record.
TreatmentAccepted ==
  /\ Today = ShockDay => shock \in {Nothing, Today}
  /\ Today = ActivationDay =>
       ShockSeen # Nothing /\ Isolated(Activation(ShockSeen).record)
  /\ Today > ActivationDay => applied # <<>> \/ staged # <<>>

\* context_for_action: observe the shock, stage the treatment, then retrieve
\* from the memory that the treatment leaves.
Retrieve ==
  /\ pc = "retrieve"
  /\ UNCHANGED <<cell, treatment, memory, instructions, applied, model, engine,
                 evidence, before, archive>>
  /\ TreatmentAccepted
  /\ shock' = ShockSeen
  /\ staged' = IF Today = ActivationDay THEN <<Activation(shock')>> ELSE staged
  /\ context' = [day |-> Today,
                 retrieval |-> Rank(SourceMemory', Query(SourceMemory', Today)),
                 belief |-> Belief(SourceMemory'),
                 overlay |-> Overlay']
  /\ pc' = "select"

\* The selected memories, each with the interpretation that mem has in force.
SelectedEvidence(mem) ==
  {<<id, Revision(mem, id)>> : id \in context.retrieval.selected}

\* Mutant of Input: interpretations are read from the live memory, which the
\* pending treatment has not reached.
InputOfLiveMemory ==
  [day |-> Today,
   selected |-> SelectedEvidence(memory),
   belief |-> Belief(memory),
   instructions |-> ActiveInstructions]

\* The rich input: selected memories as the treatment leaves them, the live
\* belief, the directives in force.
Input ==
  [day |-> Today,
   selected |-> SelectedEvidence(SourceMemory),
   belief |-> Belief(memory),
   instructions |-> ActiveInstructions]

ContextAccepted == context.day = Today /\ context.overlay = Overlay

Select ==
  /\ pc = "select"
  /\ ContextAccepted
  /\ decision' = Input
  /\ ledger' = Append(ledger, <<"action", Input>>)
  /\ pending' = {p \in pending : p.input # Input} \cup
                  {[input |-> Input, overlay |-> context.overlay, ledger |-> ledger']}
  /\ pc' = "stage"
  /\ UNCHANGED <<cell, runtime, context, traces, days, drafts, evidence, before,
                 archive>>

\* One episode per candidate of the day's event, with the action as outcome.
Drafts ==
  LET candidates == Candidates(cell.formation, Today)
  IN [i \in DOMAIN candidates |->
        [id |-> candidates[i], day |-> Today, action |-> Action(decision)]]

\* Phase 1: commit the action, debit it, apply its consequence and draft the
\* episodes; nothing becomes durable.
Stage ==
  /\ pc = "stage"
  /\ drafts' = Drafts
  /\ pc' = "speak"
  /\ UNCHANGED <<cell, runtime, context, model, days, decision, evidence, before,
                 archive>>

\* Phase 2: the public language, which ends the model's trace of the day.
Speak ==
  /\ pc = "speak"
  /\ \E p \in pending :
       /\ p.input = decision
       /\ pending' = pending \ {p}
       /\ ledger' = Append(p.ledger, <<"language", Action(decision)>>)
       /\ traces' = Append(traces, [day |-> Today, input |-> p.input,
                                    overlay |-> p.overlay, ledger |-> ledger'])
  /\ pc' = "commit"
  /\ UNCHANGED <<cell, runtime, context, engine, evidence, before, archive>>

\* The step record: what was requested and what was decided.
StepRecord ==
  [day |-> Today,
   retrieved |-> context.retrieval.selected,
   belief |-> context.belief,
   decision |-> decision]

\* Mutant of WriteMemory: the pending treatment's clone is not written.
WriteLiveMemory(m) == memory' = m /\ UNCHANGED staged

\* commit_after_step works on the staged memory when there is one.
WriteMemory(m) ==
  IF staged # <<>>
  THEN /\ staged' = <<[memory |-> m, instructions |-> staged[1].instructions,
                       record |-> staged[1].record]>>
       /\ UNCHANGED memory
  ELSE memory' = m /\ UNCHANGED staged

KeepAudit ==
  /\ pc = "commit"
  /\ ~RetrievalCollides(SourceMemory, context.retrieval)
  /\ WriteMemory(CommitRetrieval(SourceMemory, context.retrieval))
  /\ pc' = "append"
  /\ UNCHANGED <<cell, treatment, instructions, shock, applied, context, model,
                 engine, evidence, before, archive>>

\* One episode, with the record it comes from as its provenance.
NextEpisode ==
  [id |-> Head(drafts).id, day |-> Head(drafts).day, action |-> Head(drafts).action,
   source |-> Append(days, StepRecord)]

KeepEpisode ==
  /\ pc = "append" /\ drafts # <<>>
  /\ ~EpisodeClashes(SourceMemory, NextEpisode)
  /\ WriteMemory(AppendEpisode(SourceMemory, NextEpisode))
  /\ drafts' = Tail(drafts)
  /\ UNCHANGED <<pc, cell, treatment, instructions, shock, applied, context,
                 model, days, decision, evidence, before, archive>>

BeliefAccepted ==
  Consistent(UpdatedBelief(SourceMemory, Today, Range(Candidates(cell.formation, Today))))

\* The belief, then the staged treatment takes effect and the day is recorded.
FinishCommit ==
  LET ids == Range(Candidates(cell.formation, Today))
      updated == UpdateBelief(SourceMemory, Today, ids)
  IN /\ pc = "append" /\ drafts = <<>>
     /\ BeliefAccepted
     /\ memory' = updated
     /\ instructions' = ActiveInstructions
     /\ applied' = IF staged # <<>> THEN Append(applied, staged[1].record)
                    ELSE applied
     /\ staged' = <<>>
     /\ days' = Append(days, StepRecord)
     /\ pc' = "attest"
     /\ UNCHANGED <<cell, treatment, shock, context, model, decision, drafts,
                    evidence, before, archive>>

\* The treated memories are partner memories from before the shock.
TargetsLegal ==
  treatment \in {"memory_blocking", "memory_reframing"} =>
    \A id \in Last(applied).targets :
      \E e \in Range(memory.episodes) :
        e.id = id /\ e.day <= TargetsThrough /\ id \in Partner

\* The cross-checks of the stores pass with call i as the one of the day.
CallAccepted(i) ==
  LET today == Len(days)
  IN /\ {j \in DOMAIN traces : traces[j].day = today} = {i}
     /\ context.day = today
     /\ {s[1] : s \in traces[i].input.selected} = Last(days).retrieved
     /\ (today >= ActivationDay) = (applied # <<>>)
     /\ today = ActivationDay => TargetsLegal

\* _evidence_for_step: cross-check the stores and chain the day's evidence.
Attest ==
  LET today == Len(days)
  IN /\ pc = "attest"
     /\ \E i \in DOMAIN traces :
          /\ CallAccepted(i)
          /\ evidence' = Append(evidence,
               [cell |-> cell, day |-> today, days |-> days,
                shock |-> today = ShockDay /\ shock = today,
                retrieval |-> context.retrieval, memory |-> memory,
                applied |-> applied, input |-> traces[i].input,
                overlay |-> traces[i].overlay, ledger |-> traces[i].ledger])
     /\ pc' = "idle"
     /\ decision' = Nothing /\ before' = Nothing
     /\ UNCHANGED <<cell, runtime, context, model, days, drafts, archive>>

\* Mutant of StoresBefore: the model's ledger is not put back.
StoresBeforeButLedger == [before.store EXCEPT !.ledger = ledger]

StoresBefore == before.store

\* Mutant of TracesBefore: finished calls are kept.
TracesKept == traces

TracesBefore == SubSeq(traces, 1, before.traced)

\* Any step of a day may raise: every store goes back to what it was.
Fail ==
  /\ pc # "idle"
  /\ Load(StoresBefore)
  /\ traces' = TracesBefore
  /\ UNCHANGED <<cell, archive>>

-----------------------------------------------------------------------------
(* Composite checkpoints *)

\* The components of a bundle and the pointer that binds their hashes.
Bundle ==
  [cell |-> cell,
   simulation |-> [formation |-> cell.formation, days |-> days],
   runtime |-> [treatment |-> treatment, memory |-> memory,
                instructions |-> instructions, shock |-> shock,
                applied |-> applied, boundTo |-> days],
   ledger |-> ledger,
   evidence |-> evidence]

Capture ==
  /\ pc = "idle"
  /\ evidence # <<>> /\ Len(evidence) = Len(days)
  /\ SnapshotValid
  /\ Cardinality(archive \cup {Bundle}) <= MaxBundles
  /\ archive' = archive \cup {Bundle}
  /\ staged' = <<>>
  /\ UNCHANGED <<pc, cell, treatment, memory, instructions, shock, applied, context,
                 model, engine, evidence, before>>

\* Mutant of BundleAccepted: the runtime checkpoint is not compared.
BundleAcceptedAnyRuntime(c, p, s, r, e) ==
  /\ p.cell = c
  /\ \A i \in DOMAIN e.evidence : e.evidence[i].cell = c /\ e.evidence[i].day = i
  /\ p.simulation = s.simulation
  /\ p.evidence = e.evidence
  /\ p.ledger = Last(e.evidence).ledger
  /\ s.simulation.formation = c.formation
  /\ r.runtime.boundTo = s.simulation.days

\* What restoring requires of a pointer p and of a simulation checkpoint s, a
\* runtime checkpoint r and an evidence chain e, each of any bundle.
BundleAccepted(c, p, s, r, e) ==
  /\ p.cell = c
  /\ \A i \in DOMAIN e.evidence : e.evidence[i].cell = c /\ e.evidence[i].day = i
  /\ p.simulation = s.simulation
  /\ p.runtime = r.runtime
  /\ p.evidence = e.evidence
  /\ p.ledger = Last(e.evidence).ledger
  /\ s.simulation.formation = c.formation
  /\ r.runtime.boundTo = s.simulation.days

\* Mutant of ResumedInstructions: those that the constructor starts with.
ResumedInstructionsAsGiven(r) == InitialInstructions(r.cell)

ResumedInstructions(r) == r.runtime.instructions

\* Mutant of ResumedLedger: the model starts a ledger of its own.
ResumedLedgerAnew(p) == InitialLedger(p.cell)

ResumedLedger(p) == p.ledger

Restore(c, p, s, r, e) ==
  /\ pc = "idle"
  /\ BundleAccepted(c, p, s, r, e)
  /\ cell' = c
  /\ Load([treatment |-> r.runtime.treatment, memory |-> r.runtime.memory,
           instructions |-> ResumedInstructions(r), shock |-> r.runtime.shock,
           applied |-> r.runtime.applied, ledger |-> ResumedLedger(p),
           days |-> s.simulation.days, evidence |-> e.evidence])
  /\ traces' = <<>>
  /\ UNCHANGED archive

-----------------------------------------------------------------------------

DayStep ==
  \/ BeginDay \/ Retrieve \/ Select \/ Stage \/ Speak
  \/ KeepAudit \/ KeepEpisode \/ FinishCommit \/ Attest

Next ==
  \/ DayStep
  \/ Fail
  \/ \E c \in Cells : StartCell(c)
  \/ Capture
  \/ \E c \in Cells, p, s, r, e \in archive : Restore(c, p, s, r, e)

Spec == Init /\ [][Next]_vars

-----------------------------------------------------------------------------
(* Properties *)

Steps == {"idle", "retrieve", "select", "stage", "speak", "commit", "append", "attest"}

IsSeq(s) == s \in Seq(Range(s))

\* Every store holds values of its kind at every step of a day: logs are
\* sequences, days are numbered, there is at most one intervention on record.
TypeOK ==
  /\ pc \in Steps
  /\ cell \in Cells
  /\ treatment \in Conditions
  /\ instructions \subseteq Directives
  /\ shock \in {Nothing, ShockDay}
  /\ IsSeq(applied) /\ Len(applied) <= 1
  /\ IsSeq(days) /\ Len(days) <= LastDay
  /\ \A i \in DOMAIN days : days[i].day = i
  /\ IsSeq(evidence) /\ IsSeq(traces) /\ IsSeq(memory.episodes)

\* What the record of an intervention says of the layers after it still holds
\* of a memory and of the directives in force.
InForce(record, mem, directives) ==
  LET after == record.after
  IN /\ directives = after.instructions
     /\ mem.blocked = after.blocked
     /\ DOMAIN after.episodes \subseteq DOMAIN mem.episodes
     /\ \A i \in DOMAIN after.episodes :
          /\ mem.episodes[i] = after.episodes[i]
          /\ Revision(mem, mem.episodes[i].id) = after.interpretations[i]

\* The stores of an execution of c agree with the end of its evidence chain.
AlignedStore(c, store) ==
  /\ store.treatment = c.intervention
  /\ Len(store.evidence) = Len(store.days)
  /\ Len(store.days) >= ShockDay => store.shock # Nothing
  /\ Len(store.applied) = IF Len(store.days) >= ActivationDay THEN 1 ELSE 0
  /\ IF store.evidence = <<>>
     THEN store = FreshStore(c)
     ELSE LET last == Last(store.evidence)
          IN /\ last.cell = c /\ last.days = store.days
             /\ last.memory = store.memory /\ last.applied = store.applied
             /\ last.ledger = store.ledger

\* The finished calls of an execution are those of its last n days.
TracesDated(calls, n) ==
  /\ Len(calls) <= n
  /\ \A i \in DOMAIN calls : calls[i].day = n - Len(calls) + i

\* Between days - after a finished day, a failed one, a start or a resume -
\* the stores agree with the end of the evidence chain, nothing of a failed
\* day is left in any of them, and the runtime carries the cell's treatment
\* (runner.py, CellExecution.step and restore_composite_checkpoint).
Aligned ==
  pc = "idle" =>
    /\ AlignedStore(cell, Store)
    /\ staged = <<>> /\ pending = {}
    /\ TracesDated(traces, Len(days))

\* What makes Aligned inductive: it holds of the stores that a failed day goes
\* back to and of every captured bundle, ...
IsStore(store) ==
  store = [treatment |-> store.treatment, memory |-> store.memory,
           instructions |-> store.instructions, shock |-> store.shock,
           applied |-> store.applied, ledger |-> store.ledger,
           days |-> store.days, evidence |-> store.evidence]

IsMemory(mem) == DOMAIN mem = DOMAIN EmptyMemory /\ IsSeq(mem.episodes)

StoreInv(c, store) ==
  /\ IsStore(store) /\ IsMemory(store.memory)
  /\ AlignedStore(c, store)
  /\ store.instructions \subseteq Directives
  /\ store.shock \in {Nothing, ShockDay}
  /\ IsSeq(store.applied) /\ IsSeq(store.days) /\ IsSeq(store.evidence)
  /\ Len(store.days) <= LastDay
  /\ \A i \in DOMAIN store.days : store.days[i].day = i
  /\ store.applied # <<>> =>
       /\ store.applied[1].condition = c.intervention
       /\ InForce(store.applied[1], store.memory, store.instructions)

StoreOf(b) ==
  [treatment |-> b.runtime.treatment, memory |-> b.runtime.memory,
   instructions |-> b.runtime.instructions, shock |-> b.runtime.shock,
   applied |-> b.runtime.applied, ledger |-> b.ledger,
   days |-> b.simulation.days, evidence |-> b.evidence]

ArchiveInv ==
  \A b \in archive : b.cell \in Cells /\ b.evidence # <<>> /\ StoreInv(b.cell, StoreOf(b))

\* ... and during a day the stores have moved only as far as its step says.
Spoken == pc \in {"commit", "append", "attest"}

PendingInv ==
  /\ pc \notin {"stage", "speak"} => pending = {}
  /\ \A p, q \in pending : p = q

TracesInv ==
  /\ before.traced \in Nat
  /\ Len(traces) = before.traced + (IF Spoken THEN 1 ELSE 0)
  /\ TracesDated(traces, Len(before.store.days) + (IF Spoken THEN 1 ELSE 0))
  /\ Spoken => traces[Len(traces)].ledger = ledger

\* Before its commit a day works on the live memory or on the treated clone.
UncommittedInv ==
  /\ days = before.store.days
  /\ instructions = before.store.instructions
  /\ applied = before.store.applied
  /\ pc \notin {"commit", "append"} => memory = before.store.memory
  /\ pc = "retrieve" => shock = before.store.shock /\ staged = <<>>
  /\ pc # "retrieve" =>
       /\ Today >= ShockDay => shock = ShockDay
       /\ (staged # <<>>) = (Today = ActivationDay)
  /\ IF staged # <<>>
     THEN /\ IsMemory(staged[1].memory)
          /\ staged[1].instructions \subseteq Directives
          /\ staged[1].record.condition = cell.intervention
          /\ InForce(staged[1].record, staged[1].memory, staged[1].instructions)
     ELSE applied # <<>> => InForce(applied[1], memory, instructions)

\* After its commit only the evidence is missing.
CommittedInv ==
  /\ Len(days) = Len(before.store.days) + 1
  /\ staged = <<>>
  /\ Len(days) >= ShockDay => shock = ShockDay
  /\ Len(applied) = IF Len(days) >= ActivationDay THEN 1 ELSE 0
  /\ applied # <<>> =>
       /\ applied[1].condition = cell.intervention
       /\ InForce(applied[1], memory, instructions)

DayInv ==
  /\ StoreInv(cell, before.store)
  /\ Len(before.store.days) < LastDay
  /\ evidence = before.store.evidence
  /\ treatment = before.store.treatment
  /\ PendingInv
  /\ TracesInv
  /\ pc # "attest" => UncommittedInv
  /\ pc = "attest" => CommittedInv

IdleInv ==
  /\ StoreInv(cell, Store)
  /\ staged = <<>> /\ pending = {}
  /\ TracesDated(traces, Len(days))

CellInv ==
  /\ TypeOK
  /\ IsMemory(memory)
  /\ ArchiveInv
  /\ pc = "idle" => IdleInv
  /\ pc # "idle" => DayInv

\* The executions that can be compared: the live one and the captured ones.
Chains ==
  {[cell |-> cell, evidence |-> evidence]} \cup
  {[cell |-> b.cell, evidence |-> b.evidence] : b \in archive}

\* Executions of one cell, resumed or not, whatever days failed in them,
\* produce the same evidence, so the comparison of an uninterrupted, a
\* resumed and a replayed execution cannot fail (runner.py, _cell_manifest).
Reproducible ==
  \A a, b \in Chains : a.cell = b.cell =>
    \A i \in DOMAIN a.evidence \cap DOMAIN b.evidence : a.evidence[i] = b.evidence[i]

\* The arms of one formation cannot be told apart before the activation day
\* (runner.py, _validate_pre_intervention_matching).
ArmsMatch ==
  \A a, b \in Chains : a.cell.formation = b.cell.formation =>
    \A i \in DOMAIN a.evidence \cap DOMAIN b.evidence : i < ActivationDay =>
      LET x == a.evidence[i]
          y == b.evidence[i]
      IN x.days = y.days /\ x.input = y.input /\ x.memory = y.memory /\ x.ledger = y.ledger

\* Whether a treatment is in force on a day, that of its activation included.
TreatedBy(c, day, condition) == day >= ActivationDay /\ c.intervention = condition

\* What the model was shown on a day, by the evidence of that day: each layer as
\* it started, but for the one that the cell's intervention is about.
ShownItsLayer(c, day, e) ==
  LET old == PartnerTargets(e.memory)
  IN /\ e.input.instructions =
            InitialInstructions(c) \
              (IF TreatedBy(c, day, "instruction_removal") THEN TargetInstructions ELSE {})
     /\ \A s \in e.input.selected :
          /\ TreatedBy(c, day, "memory_blocking") => s[1] \notin old
          /\ (s[2] > 1) = (TreatedBy(c, day, "memory_reframing") /\ s[1] \in old /\ s[2] # 0)

\* What the model is shown changes from the activation day on, that day
\* included, in the layer of the cell's intervention and in no other:
\* blocked memories are not selected, reframed ones carry the new revision,
\* removed instructions are gone (interventions/runtime.py, context_for_action).
OnlyItsLayer == \A i \in DOMAIN evidence : ShownItsLayer(cell, i, evidence[i])

\* Once a day is over, the one treatment that is on record is in force in the
\* live stores, through failed days, checkpoints and resumes.
TreatmentLasts ==
  pc = "idle" /\ Len(days) >= ActivationDay =>
    /\ applied[1].condition = cell.intervention
    /\ InForce(applied[1], memory, instructions)

\* The episodes that a day leaves, by the record of that day.
EpisodesOfDay(c, history, day) ==
  LET candidates == Candidates(c.formation, day)
  IN [i \in DOMAIN candidates |->
        [id |-> candidates[i], day |-> day, action |-> Action(history[day].decision),
         source |-> SubSeq(history, 1, day)]]

TellsDays(c, mem, history) ==
  /\ mem.episodes = FlattenSeq([d \in DOMAIN history |-> EpisodesOfDay(c, history, d)])
  /\ Len(mem.retrievals) = Len(history)
  /\ \A d \in DOMAIN history :
       /\ mem.retrievals[d].query.day = d
       /\ mem.retrievals[d].selected = history[d].retrieved
  /\ mem.accesses = UNION {Accesses(mem.retrievals[d]) : d \in DOMAIN history}
  /\ Belief(mem).supporting = StoredIds(mem) \cap Supporting
  /\ Belief(mem).contradicting = StoredIds(mem) \cap Contradicting

\* Between days the memory tells the history of the days and nothing else:
\* every candidate is stored once, with the record it came from; every
\* retrieval and access belongs to a recorded day; the belief cites exactly
\* the stored evidence (memory/integration.py, commit_after_step).
MemoryTellsDays == pc = "idle" => TellsDays(cell, memory, days)

\* What the scenarios of the repository have and no check demands: a memory is
\* a candidate of one day (data/generation.py:127 and :147 put the event's
\* day into its id) and does not both support and contradict the belief.
SoundScenario ==
  /\ \A c \in Cells : \A d1, d2 \in 1..LastDay : d1 # d2 =>
       Range(Candidates(c.formation, d1)) \cap Range(Candidates(c.formation, d2)) = {}
  /\ Supporting \cap Contradicting = {}

\* None of the cross-checks of a day - of the runtime, the model, the memory
\* and the harness - can refuse a day, whatever failed before it and
\* wherever the execution was resumed.
NoCheckRefuses ==
  /\ pc = "idle" /\ Today <= LastDay => SnapshotValid
  /\ pc = "retrieve" => TreatmentAccepted
  /\ pc = "select" => ContextAccepted
  /\ pc = "speak" => \E p \in pending : p.input = decision
  /\ pc = "commit" => ~RetrievalCollides(SourceMemory, context.retrieval)
  /\ pc = "append" => IF drafts # <<>>
                      THEN ~EpisodeClashes(SourceMemory, NextEpisode)
                      ELSE BeliefAccepted
  /\ pc = "attest" => \E i \in DOMAIN traces : CallAccepted(i)

\* The evidence chain of an execution changes by one day, or it is a new
\* execution: a fresh one, or one whose stores all come from one captured
\* bundle of that cell (runner.py, restore_composite_checkpoint).
ResumesWhole ==
  [][evidence' # evidence =>
       \/ evidence' = <<>>
       \/ Front(evidence') = evidence
       \/ \E b \in archive :
            /\ cell' = b.cell /\ evidence' = b.evidence
            /\ days' = b.simulation.days /\ ledger' = b.ledger
            /\ treatment' = b.runtime.treatment /\ memory' = b.runtime.memory
            /\ instructions' = b.runtime.instructions /\ applied' = b.runtime.applied
            /\ shock' = b.runtime.shock]_vars
=============================================================================
