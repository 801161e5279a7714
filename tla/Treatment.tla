----------------------------- MODULE Treatment -----------------------------
(***************************************************************************)
(* What the four interventions of interventions/runtime.py do to a memory  *)
(* and to the instructions in force, and what the validator of an          *)
(* intervention record demands (interventions/contracts.py).               *)
(***************************************************************************)
EXTENDS MemoryLedger

CONSTANTS
  ShockDay,          \* the day of the reality shock (26 in the code)
  ActivationDay,     \* the day of the intervention (30)
  TargetsThrough,    \* the last day whose memories are targets (25)
  TargetInstructions \* the directives that instruction removal names

ASSUME CalendarAssumption ==
  /\ TargetsThrough \in Nat \ {0}
  /\ ShockDay \in Nat /\ TargetsThrough < ShockDay
  /\ ActivationDay \in Nat /\ ShockDay < ActivationDay

Conditions == {"none", "instruction_removal", "memory_blocking", "memory_reframing"}

PartnerTargets(memory) ==
  {e.id : e \in {x \in Range(memory.episodes) :
                   x.id \in Partner /\ x.day <= TargetsThrough}}

ReframeTargets(memory) ==
  {id \in PartnerTargets(memory) : Revision(memory, id) # 0}

Targets(condition, memory, instructions) ==
  CASE condition = "none" -> {}
    [] condition = "instruction_removal" -> TargetInstructions \cap instructions
    [] condition = "memory_blocking" -> PartnerTargets(memory)
    [] condition = "memory_reframing" -> ReframeTargets(memory)

\* No target: the assignment is recorded and nothing else changes.
TreatedMemory(condition, memory, targets) ==
  CASE targets = {} -> memory
    [] targets # {} /\ condition = "memory_blocking" -> Block(memory, targets)
    [] targets # {} /\ condition = "memory_reframing" -> Reframe(memory, targets)
    [] OTHER -> memory

TreatedInstructions(condition, instructions, targets) ==
  IF condition = "instruction_removal" THEN instructions \ targets ELSE instructions

\* What a record keeps of each layer before and after.
LayerSnapshot(memory, instructions) ==
  [instructions |-> instructions,
   blocked |-> memory.blocked,
   episodes |-> memory.episodes,
   interpretations |-> [i \in DOMAIN memory.episodes |->
                          Revision(memory, memory.episodes[i].id)],
   beliefs |-> memory.beliefs]

\* The treatment of a memory and instructions, and its record.
Treated(condition, memory, instructions, shock) ==
  LET targets == Targets(condition, memory, instructions)
      treatedMemory == TreatedMemory(condition, memory, targets)
      treatedInstructions == TreatedInstructions(condition, instructions, targets)
  IN [memory |-> treatedMemory,
      instructions |-> treatedInstructions,
      record |-> [condition |-> condition,
                  shock |-> shock,
                  targets |-> targets,
                  before |-> LayerSnapshot(memory, instructions),
                  after |-> LayerSnapshot(treatedMemory, treatedInstructions)]]

\* The validator of an intervention record: one condition, one layer.
Isolated(record) ==
  LET before == record.before
      after == record.after
  IN /\ record.targets = {} => before = after
     /\ before.episodes = after.episodes
     /\ before.beliefs = after.beliefs
     /\ record.condition # "instruction_removal" => before.instructions = after.instructions
     /\ record.condition # "memory_blocking" => before.blocked = after.blocked
     /\ record.condition # "memory_reframing" =>
          before.interpretations = after.interpretations
=============================================================================
