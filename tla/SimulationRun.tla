--------------------------- MODULE SimulationRun ---------------------------
(***************************************************************************)
(* One simulation without the Gate 2 harness (simulation/engine.py): the   *)
(* days of a trajectory, its checkpoint, and the files that                *)
(* run_and_write_simulation leaves in its output directory.  The memory is *)
(* the caller's object: it outlives a run that raises, not the process,    *)
(* and only its sidecar of a finished run is on the disk.                  *)
(*                                                                         *)
(* A run is sequential; a crash may come between any two of its steps, a   *)
(* model or an operating system error ends it at the steps that meet one.  *)
(* A hash stands for the value it is taken of.  The model is deterministic.*)
(***************************************************************************)
EXTENDS MemoryLedger

CONSTANTS
  LastDay,          \* 40
  Cadence,          \* checkpoint_cadence_steps
  Candidates(_),    \* the memory candidates of a day's event
  Action(_),        \* the model's choice for a request
  None,             \* nothing: a file that is absent, or no memory passed
  MaxInterruptions  \* bound: crashes, errors and pauses

ASSUME SimulationRunAssumption ==
  /\ LastDay \in Nat \ {0}
  /\ Cadence \in Nat \ {0}
  /\ \A d \in 1..LastDay : Candidates(d) \in Seq(MemoryIds)
  /\ MaxInterruptions \in Nat

VARIABLES
  pc,        \* "down" is no run
  records,   \* engine: state.records
  sequence,  \* engine: checkpoint_sequence
  hasMemory, \* whether the caller passes a memory, as it does on every start and resume
  memory,    \* the caller's memory, None in a run without one
  disk,      \* the output directory
  interruptions

vars == <<pc, records, sequence, hasMemory, memory, disk, interruptions>>

EmptyDisk ==
  [directory |-> FALSE, checkpoint |-> None, records |-> None, report |-> None,
   sidecar |-> None, manifest |-> None]

\* A new memory, if the run has one.
Fresh(with) == IF with THEN EmptyMemory ELSE None

Init ==
  /\ pc = "down"
  /\ records = <<>>
  /\ sequence = 0
  /\ hasMemory \in BOOLEAN
  /\ memory = Fresh(hasMemory)
  /\ disk = EmptyDisk
  /\ interruptions = 0

Completed(days) == Len(days) = LastDay

-----------------------------------------------------------------------------
(* One day, as a function of the memory and of the records before it *)

\* The request: what is retrieved and the belief, or nothing without a memory.
Request(mem, day) ==
  [day |-> day,
   selected |-> IF mem = None THEN {} ELSE Rank(mem, Query(mem, day)).selected,
   belief |-> IF mem = None THEN None ELSE Belief(mem)]

Record(mem, day) == [request |-> Request(mem, day), action |-> Action(Request(mem, day))]

\* An episode carries the hash of its day's record, which chains the days before.
Episodes(days) ==
  LET day == Len(days)
  IN [i \in DOMAIN Candidates(day) |->
        [id |-> Candidates(day)[i], day |-> day, action |-> Last(days).action, source |-> days]]

KeepEpisodes(mem, episodes) == FoldLeft(AppendEpisode, mem, episodes)

\* append refuses a version of the belief that is older than the current one.
BeliefGoesBack(mem, day, ids) ==
  /\ ids \cap (Supporting \cup Contradicting) # {}
  /\ UpdatedBelief(mem, day, ids) # Belief(mem)
  /\ day < Belief(mem).day

\* commit_after_step, in its order: the audit, the episodes, the belief.  What was
\* kept when one of them is refused stays.
CommitToMemory(mem, days) ==
  LET day == Len(days)
      retrieval == Rank(mem, Query(mem, day))
      episodes == Episodes(days)
      audited == CommitRetrieval(mem, retrieval)
      clashes == {i \in DOMAIN episodes : EpisodeClashes(audited, episodes[i])}
      kept == KeepEpisodes(audited,
                IF clashes = {} THEN episodes ELSE SubSeq(episodes, 1, Min(clashes) - 1))
      ids == ToSet(Candidates(day))
  IN IF RetrievalCollides(mem, retrieval) THEN [ok |-> FALSE, memory |-> mem]
     ELSE IF clashes # {} \/ BeliefGoesBack(kept, day, ids) THEN [ok |-> FALSE, memory |-> kept]
     ELSE [ok |-> TRUE, memory |-> UpdateBelief(kept, day, ids)]

Commit(mem, days) ==
  IF mem = None THEN [ok |-> TRUE, memory |-> None] ELSE CommitToMemory(mem, days)

\* One day on top of a state: the record, then the commit.
Lived(state, day) ==
  LET days == Append(state.records, Record(state.memory, day))
  IN [records |-> days, memory |-> Commit(state.memory, days).memory]

\* The first n days of a run, with or without memory, that nothing interrupts.
Trajectory(with, n) ==
  FoldLeft(Lived, [records |-> <<>>, memory |-> Fresh(with)], [day \in 1..n |-> day]).records

-----------------------------------------------------------------------------
(* Starting and resuming *)

\* The caller passes the memory object of the run that raised, one restored from the
\* sidecar, or a new one: nothing ties it to the checkpoint, or a new one to a new run.
Sources ==
  IF ~hasMemory THEN {None}
  ELSE {memory, EmptyMemory} \cup (IF disk.sidecar = None THEN {} ELSE {disk.sidecar})

\* A new run wants a directory that is absent or empty.  It takes the memory that it is
\* given, also one that an earlier run of the same caller has used.
Start ==
  /\ pc = "down"
  /\ disk = EmptyDisk
  /\ pc' = "step"
  /\ records' = <<>>
  /\ sequence' = 0
  /\ memory' \in Sources
  /\ UNCHANGED <<hasMemory, disk, interruptions>>

\* Mutant of Loaded: the engine starts from the expected initial state.
LoadedNothing == <<>>
\* The state of the checkpoint.
Loaded == disk.checkpoint.records

\* Mutant of Resume: a checkpoint of all days is taken for a finished run.
ResumeRefusesCompleted ==
  /\ pc = "down"
  /\ disk.checkpoint # None
  /\ ~Completed(Loaded)
  /\ pc' = "step"
  /\ records' = Loaded
  /\ sequence' = disk.checkpoint.sequence
  /\ memory' \in Sources
  /\ UNCHANGED <<hasMemory, disk, interruptions>>
\* Only the checkpoint is looked at: a completed run can be resumed as well.
Resume ==
  /\ pc = "down"
  /\ disk.checkpoint # None
  /\ pc' = IF Completed(Loaded) THEN "records" ELSE "step"
  /\ records' = Loaded
  /\ sequence' = disk.checkpoint.sequence
  /\ memory' \in Sources
  /\ UNCHANGED <<hasMemory, disk, interruptions>>

-----------------------------------------------------------------------------
(* The days *)

Due(days) == Completed(days) \/ Len(days) % Cadence = 0

\* step: everything before the commit is local, and the state follows the memory.
Step ==
  /\ pc = "step"
  /\ LET days == Append(records, Record(memory, Len(records) + 1))
         commit == Commit(memory, days)
     IN /\ memory' = commit.memory
        /\ records' = IF commit.ok THEN days ELSE records
        /\ pc' = IF ~commit.ok THEN "down"
                 ELSE IF Due(records') THEN "checkpoint" ELSE "step"
  /\ UNCHANGED <<hasMemory, sequence, disk, interruptions>>

\* Mutant of Pause: only the cadence writes checkpoints.
PauseUnsaved ==
  /\ pc = "step"
  /\ disk.checkpoint # None
  /\ interruptions < MaxInterruptions
  /\ interruptions' = interruptions + 1
  /\ pc' = "records"
  /\ UNCHANGED <<hasMemory, records, sequence, memory, disk>>
\* max_steps: a pause between days writes a checkpoint too.
Pause ==
  /\ pc = "step"
  /\ interruptions < MaxInterruptions
  /\ interruptions' = interruptions + 1
  /\ pc' = "pausing"
  /\ UNCHANGED <<hasMemory, records, sequence, memory, disk>>

\* The directory appears before the file that is moved into place.
MakeDirectory ==
  /\ pc \in {"checkpoint", "pausing"}
  /\ ~disk.directory
  /\ disk' = [disk EXCEPT !.directory = TRUE]
  /\ UNCHANGED <<hasMemory, pc, records, sequence, memory, interruptions>>

\* Mutant of WriteCheckpoint: a resumed run adds its days to the file.
WriteCheckpointAppends ==
  /\ pc \in {"checkpoint", "pausing"}
  /\ disk.directory
  /\ sequence' = sequence + 1
  /\ disk' = [disk EXCEPT !.checkpoint =
                [sequence |-> sequence',
                 records |-> (IF disk.checkpoint = None THEN <<>> ELSE disk.checkpoint.records)
                             \o records]]
  /\ pc' = IF pc = "pausing" \/ Completed(records) THEN "records" ELSE "step"
  /\ UNCHANGED <<hasMemory, records, memory, interruptions>>
\* The file is moved into place; a finished or paused run goes on to its other files.
WriteCheckpoint ==
  /\ pc \in {"checkpoint", "pausing"}
  /\ disk.directory
  /\ sequence' = sequence + 1
  /\ disk' = [disk EXCEPT !.checkpoint = [sequence |-> sequence', records |-> records]]
  /\ pc' = IF pc = "pausing" \/ Completed(records) THEN "records" ELSE "step"
  /\ UNCHANGED <<hasMemory, records, memory, interruptions>>

-----------------------------------------------------------------------------
(* The files of the run, each written next to its place and moved *)

WriteRecords ==
  /\ pc = "records"
  /\ disk' = [disk EXCEPT !.records = records]
  /\ pc' = "replay"
  /\ UNCHANGED <<hasMemory, records, sequence, memory, interruptions>>

\* Mutant of Replays: the replay only counts the days.
ReplaysAnyway(days) == Len(days) <= LastDay
\* The replay starts from day 1 with a fresh memory and must reach the same records.
Replays(days) == days = Trajectory(hasMemory, Len(days))

Replay ==
  /\ pc = "replay"
  /\ IF Replays(records)
     THEN pc' = "memory" /\ disk' = [disk EXCEPT !.report = records]
     ELSE pc' = "down" /\ UNCHANGED disk
  /\ UNCHANGED <<hasMemory, records, sequence, memory, interruptions>>

WriteMemory ==
  /\ pc = "memory"
  /\ disk' = [disk EXCEPT !.sidecar = memory]
  /\ pc' = "manifest"
  /\ UNCHANGED <<hasMemory, records, sequence, memory, interruptions>>

WriteManifest ==
  /\ pc = "manifest"
  /\ disk' = [disk EXCEPT !.manifest =
                [status |-> IF Completed(records) THEN "completed" ELSE "paused",
                 records |-> disk.records, checkpoint |-> disk.checkpoint,
                 report |-> disk.report, sidecar |-> disk.sidecar]]
  /\ pc' = "down"
  /\ UNCHANGED <<hasMemory, records, sequence, memory, interruptions>>

-----------------------------------------------------------------------------
(* Failures *)

\* The model, a validation or the file system raises: the caller keeps its memory.
Raise ==
  /\ pc \notin {"down"}
  /\ interruptions < MaxInterruptions
  /\ interruptions' = interruptions + 1
  /\ pc' = "down"
  /\ UNCHANGED <<hasMemory, records, sequence, memory, disk>>

\* The process dies: so does the memory.
Crash ==
  /\ pc # "down"
  /\ interruptions < MaxInterruptions
  /\ interruptions' = interruptions + 1
  /\ pc' = "down"
  /\ memory' = Fresh(hasMemory)
  /\ UNCHANGED <<hasMemory, records, sequence, disk>>

Run ==
  \/ Step \/ MakeDirectory \/ WriteCheckpoint \/ WriteRecords \/ Replay
  \/ WriteMemory \/ WriteManifest

Next == Start \/ Resume \/ Pause \/ Run \/ Raise \/ Crash

Spec == Init /\ [][Next]_vars

\* The process makes progress, and someone starts it again.  It is asked only of the
\* runs that RunCompletes is about, those without a memory.
FairSpec ==
  /\ Spec
  /\ WF_vars(~hasMemory /\ Run)
  /\ WF_vars(~hasMemory /\ (Start \/ Resume))

-----------------------------------------------------------------------------
Stages == {"down", "step", "checkpoint", "pausing", "records", "replay", "memory",
           "manifest"}

(* The cursor and the files: no more records than days, a checkpoint only  *)
(* in its directory, and no later file without the earlier ones.           *)
TypeOK ==
  /\ pc \in Stages
  /\ Len(records) <= LastDay
  /\ \A i \in DOMAIN records : records[i].request.day = i
  /\ sequence \in Nat
  /\ disk.checkpoint # None => disk.directory
  /\ disk.records # None => disk.checkpoint # None
  /\ disk.report # None => disk.records # None
  /\ disk.manifest # None => disk.report # None
  /\ interruptions <= MaxInterruptions
  /\ ~hasMemory => memory = None

\* The days of a run without a memory, each a function of its event alone.
MemoryFree(n) == [day \in 1..n |-> Record(None, day)]

(* docs/simulation-harness.md (uninterrupted, resumed and replayed hashes  *)
(* are equal): whatever failed on the way, and whatever memory the caller  *)
(* came back with, a manifest describes the trajectory that nothing        *)
(* interrupts.  It is the replay before the manifest that makes it so: the *)
(* checkpoint by itself does not, unless the run has no memory.            *)
ManifestIsUninterrupted ==
  /\ disk.manifest # None =>
       disk.manifest.records = Trajectory(hasMemory, Len(disk.manifest.records))
  /\ ~hasMemory /\ disk.checkpoint # None =>
       disk.checkpoint.records = MemoryFree(Len(disk.checkpoint.records))

(* Durable progress is never undone: a checkpoint is replaced only by one  *)
(* with a higher sequence that continues the same records, and no file     *)
(* gets ahead of it, so that what is reported of a run, paused or          *)
(* finished, can always be resumed from.                                   *)
RecordsBehindCheckpoint ==
  disk.records # None => IsPrefix(disk.records, disk.checkpoint.records)

CheckpointGrows ==
  [][/\ RecordsBehindCheckpoint'
     /\ disk.checkpoint # None /\ disk'.checkpoint # disk.checkpoint =>
          /\ disk'.checkpoint.sequence > disk.checkpoint.sequence
          /\ IsPrefix(disk.checkpoint.records, disk'.checkpoint.records)]_vars

\* The crash that neither a new run nor a resume accepts: the directory is no longer
\* empty, and the first checkpoint is not there yet.
Stranded == pc = "down" /\ disk.directory /\ disk.checkpoint = None

(* With finitely many interruptions and a caller that comes back, a run    *)
(* without a memory completes, or a crash inside its very first checkpoint *)
(* stranded it.  With a memory of the wrong day it may never complete.     *)
RunCompletes ==
  ~hasMemory =>
    <>(Stranded \/ (disk.manifest # None /\ disk.manifest.status = "completed"))
=============================================================================
