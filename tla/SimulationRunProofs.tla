------------------------ MODULE SimulationRunProofs ------------------------
(***************************************************************************)
(* Proofs about SimulationRun, for any number of days, any cadence, model, *)
(* memory and number of interruptions.  What a manifest describes rests on *)
(* what each file holds at each stage of a run, and that stage on what an  *)
(* earlier run left on the disk.                                           *)
(***************************************************************************)
EXTENDS SimulationRun, TLAPS, SequenceTheorems

\* A list of records of some kind.
Records(s) == s \in Seq(Range(s))

\* A list of records that is all that a list begins with, as positions.
Begins(s, t) == Len(s) <= Len(t) /\ \A i \in 1..Len(s) : s[i] = t[i]

DiskShape ==
  DOMAIN disk = {"directory", "checkpoint", "records", "report", "sidecar", "manifest"}

Lists ==
  /\ Records(records)
  /\ disk.checkpoint # None \/ disk.records # None =>
       Records(disk.checkpoint.records) /\ disk.checkpoint.sequence \in Nat
  /\ disk.records # None => Records(disk.records)
  /\ sequence \in Nat

\* A run continues its checkpoint, or nothing is saved yet; a file is never ahead.
Continues ==
  /\ pc # "down" =>
       \/ disk.checkpoint = None /\ disk.records = None
       \/ Begins(disk.checkpoint.records, records) /\ disk.checkpoint.sequence = sequence
  /\ pc \in {"records", "replay", "memory", "manifest"} =>
       disk.checkpoint.records = records /\ disk.checkpoint.sequence = sequence
  /\ disk.records # None => Begins(disk.records, disk.checkpoint.records)

\* What follows a replay describes what was replayed.
Replayed ==
  /\ pc \in {"replay", "memory", "manifest"} => disk.records = records
  /\ pc \in {"memory", "manifest"} => records = Trajectory(hasMemory, Len(records))
  /\ disk.manifest # None =>
       disk.manifest.records = Trajectory(hasMemory, Len(disk.manifest.records))

\* Without a memory every list of records is the one that nothing interrupts.
Memoryless ==
  ~hasMemory =>
    /\ memory = None
    /\ records = MemoryFree(Len(records))
    /\ disk.checkpoint # None =>
         disk.checkpoint.records = MemoryFree(Len(disk.checkpoint.records))

RunInv == DiskShape /\ Lists /\ Continues /\ Replayed /\ Memoryless

-----------------------------------------------------------------------------
(* Lists of records *)

\* Begins is the prefix relation.
LEMMA BeginsIsPrefix ==
  ASSUME NEW s, NEW t, Records(s), Records(t), Begins(s, t)
  PROVE  IsPrefix(s, t)
<1>1. PICK S : s \in Seq(S) /\ t \in Seq(S)
  <2>1. s \in Seq(Range(s) \cup Range(t)) /\ t \in Seq(Range(s) \cup Range(t))
    BY SeqMonotonic DEF Records
  <2>. QED BY <2>1
<1>2. Len(s) \in Nat /\ Len(t) \in Nat /\ Len(s) <= Len(t)
  BY <1>1 DEF Begins
<1>3. SubSeq(s, 1, Len(s)) = s
  BY <1>1
<1>4. SubSeq(t, 1, Len(s)) = s
  BY <1>1, <1>2 DEF Begins
<1>. QED BY <1>2, <1>3, <1>4 DEF IsPrefix

\* A day more is a list that begins with the days before.
LEMMA OneMore ==
  ASSUME NEW s, NEW e, Records(s)
  PROVE  /\ Records(Append(s, e))
         /\ Begins(s, Append(s, e))
         /\ Len(Append(s, e)) = Len(s) + 1
         /\ Append(s, e)[Len(s) + 1] = e
<1>1. PICK S : S = Range(s) \cup {e}
  OBVIOUS
<1>2. s \in Seq(S) /\ e \in S /\ Len(s) \in Nat
  BY <1>1, SeqMonotonic DEF Records
<1>3. /\ Append(s, e) \in Seq(S)
      /\ Len(Append(s, e)) = Len(s) + 1
      /\ \A i \in 1..Len(s) : Append(s, e)[i] = s[i]
      /\ Append(s, e)[Len(s) + 1] = e
  BY <1>2, AppendProperties
<1>4. Records(Append(s, e))
  <2>1. PICK t : t = Append(s, e)
    OBVIOUS
  <2>2. t \in Seq(S) /\ Len(t) \in Nat /\ DOMAIN t = 1..Len(t)
    BY <1>3, <2>1
  <2>3. \A i \in 1..Len(t) : t[i] \in Range(t)
    BY <2>2 DEF Range
  <2>. QED BY <2>1, <2>2, <2>3, SeqDef DEF Records
<1>. QED BY <1>2, <1>3, <1>4 DEF Begins

\* Begins is transitive and reflexive.
LEMMA BeginsOrder ==
  /\ \A s : Records(s) => Begins(s, s)
  /\ \A s, t, u : Records(s) /\ Records(t) /\ Records(u) /\ Begins(s, t) /\ Begins(t, u)
                    => Begins(s, u)
<1>1. \A s : Records(s) => Len(s) \in Nat
  BY DEF Records
<1>. QED BY <1>1 DEF Begins

\* A run without a memory goes on with a function of the day.
LEMMA MemoryFreeGoesOn ==
  ASSUME NEW s, Records(s), s = MemoryFree(Len(s))
  PROVE  Append(s, Record(None, Len(s) + 1)) = MemoryFree(Len(s) + 1)
<1>1. PICK n \in Nat : n = Len(s)
  BY DEF Records
<1>2. PICK e : e = Record(None, n + 1)
  OBVIOUS
<1>3. PICK t : t = Append(s, e)
  OBVIOUS
<1>4. /\ Records(t) /\ Len(t) = n + 1 /\ t[n + 1] = e
      /\ \A i \in 1..n : t[i] = s[i]
  BY <1>1, <1>3, OneMore DEF Begins
<1>5. DOMAIN t = 1..(n + 1) /\ t = [i \in DOMAIN t |-> t[i]]
  BY <1>1, <1>4 DEF Records
<1>6. \A i \in 1..n : s[i] = Record(None, i)
  BY <1>1 DEF MemoryFree
<1>7. \A i \in 1..(n + 1) : t[i] = Record(None, i)
  BY <1>1, <1>2, <1>4, <1>6
<1>8. t = [i \in 1..(n + 1) |-> Record(None, i)]
  BY <1>5, <1>7
<1>. QED BY <1>1, <1>2, <1>3, <1>8 DEF MemoryFree

-----------------------------------------------------------------------------
(* The steps *)

\* A checkpoint is replaced by one that continues it.
Grows ==
  disk'.checkpoint # disk.checkpoint =>
    \/ disk.checkpoint = None
    \/ /\ disk'.checkpoint.sequence > disk.checkpoint.sequence
       /\ Begins(disk.checkpoint.records, disk'.checkpoint.records)
       /\ Records(disk.checkpoint.records) /\ Records(disk'.checkpoint.records)

\* A new run begins with nothing.
LEMMA StartRun ==
  ASSUME RunInv, Start
  PROVE  RunInv' /\ Grows
<1>1. /\ disk' = disk /\ disk.checkpoint = None /\ disk.records = None /\ disk.manifest = None
      /\ records' = <<>> /\ sequence' = 0 /\ pc' = "step"
      /\ hasMemory' = hasMemory /\ memory' \in Sources
  BY DEF Start, EmptyDisk
<1>2. Records(<<>>) /\ Len(<<>>) = 0
  BY DEF Records
<1>3. <<>> = MemoryFree(0)
  BY DEF MemoryFree
<1>4. Lists'
  BY <1>1, <1>2 DEF Lists, RunInv
<1>5. Continues' /\ Replayed'
  BY <1>1 DEF Continues, Replayed, RunInv
<1>6. Memoryless'
  BY <1>1, <1>2, <1>3 DEF Memoryless, Sources
<1>. QED BY <1>1, <1>4, <1>5, <1>6 DEF RunInv, DiskShape, Grows

\* A resumed run begins with what its checkpoint holds.
LEMMA ResumeRun ==
  ASSUME RunInv, Resume
  PROVE  RunInv' /\ Grows
<1>1. /\ disk' = disk /\ disk.checkpoint # None
      /\ records' = disk.checkpoint.records /\ sequence' = disk.checkpoint.sequence
      /\ pc' \in {"records", "step"}
      /\ hasMemory' = hasMemory /\ memory' \in Sources
  BY DEF Resume, Loaded
<1>2. Records(records') /\ sequence' \in Nat
  BY <1>1 DEF RunInv, Lists
<1>3. Lists'
  BY <1>1, <1>2 DEF Lists, RunInv
<1>4. Begins(disk'.checkpoint.records, records')
  BY <1>1, <1>2, BeginsOrder
<1>5. Continues' /\ Replayed'
  BY <1>1, <1>4 DEF Continues, Replayed, RunInv
<1>6. Memoryless'
  BY <1>1 DEF Memoryless, RunInv, Sources
<1>. QED BY <1>1, <1>3, <1>5, <1>6 DEF RunInv, DiskShape, Grows

\* A day is added, or refused by the memory.
LEMMA StepRun ==
  ASSUME RunInv, Step
  PROVE  RunInv' /\ Grows
<1>1. /\ disk' = disk /\ sequence' = sequence /\ hasMemory' = hasMemory
      /\ pc = "step" /\ pc' \in {"down", "checkpoint", "step"}
  BY DEF Step
<1>2. PICK e : e = Record(memory, Len(records) + 1)
  OBVIOUS
<1>3. \/ records' = Append(records, e)
      \/ records' = records
  BY <1>2 DEF Step
<1>4. /\ Records(records) /\ Records(records')
      /\ Begins(records, records')
  BY <1>3, OneMore, BeginsOrder DEF RunInv, Lists
<1>5. Lists'
  BY <1>1, <1>4 DEF Lists, RunInv
<1>6. \/ disk.checkpoint = None /\ disk.records = None
      \/ Begins(disk.checkpoint.records, records')
  <2>1. CASE disk.checkpoint = None /\ disk.records = None
    BY <2>1
  <2>2. CASE ~(disk.checkpoint = None /\ disk.records = None)
    <3>1. Records(disk.checkpoint.records)
      BY <2>2 DEF RunInv, Lists
    <3>2. Begins(disk.checkpoint.records, records)
      BY <1>1, <2>2 DEF RunInv, Continues
    <3>. QED BY <1>4, <3>1, <3>2, BeginsOrder
  <2>. QED BY <2>1, <2>2
<1>7. Continues' /\ Replayed'
  BY <1>1, <1>6 DEF Continues, Replayed, RunInv
<1>8. Memoryless'
  <2>. SUFFICES ASSUME ~hasMemory
               PROVE  memory' = None /\ records' = MemoryFree(Len(records'))
    BY <1>1 DEF Memoryless, RunInv
  <2>1. memory = None /\ records = MemoryFree(Len(records))
    BY DEF RunInv, Memoryless
  <2>2. memory' = None
    BY <2>1 DEF Step, Commit
  <2>3. Append(records, e) = MemoryFree(Len(Append(records, e)))
    BY <1>2, <1>4, <2>1, MemoryFreeGoesOn, OneMore
  <2>. QED BY <1>3, <2>1, <2>2, <2>3
<1>. QED BY <1>1, <1>5, <1>7, <1>8 DEF RunInv, DiskShape, Grows

\* A pause is announced, and the directory appears: no list changes.
LEMMA PauseRun ==
  ASSUME RunInv, Pause \/ MakeDirectory
  PROVE  RunInv' /\ Grows
<1>1. /\ UNCHANGED <<records, sequence, hasMemory, memory>>
      /\ disk'.checkpoint = disk.checkpoint /\ disk'.records = disk.records
      /\ disk'.manifest = disk.manifest /\ DOMAIN disk' = DOMAIN disk
      /\ pc \in {"step", "checkpoint", "pausing"}
      /\ pc' \in {"checkpoint", "pausing"}
  BY DEF Pause, MakeDirectory, RunInv, DiskShape
<1>2. DiskShape' /\ Lists'
  BY <1>1 DEF RunInv, DiskShape, Lists
<1>3. Continues' /\ Replayed' /\ Memoryless'
  BY <1>1 DEF Continues, Replayed, Memoryless, RunInv
<1>. QED BY <1>1, <1>2, <1>3 DEF RunInv, Grows

\* A checkpoint takes the place of one that it continues.
LEMMA WriteCheckpointRun ==
  ASSUME RunInv, WriteCheckpoint
  PROVE  RunInv' /\ Grows
<1>1. /\ UNCHANGED <<records, hasMemory, memory>>
      /\ sequence' = sequence + 1
      /\ disk'.checkpoint.sequence = sequence' /\ disk'.checkpoint.records = records
      /\ disk'.records = disk.records
      /\ disk'.manifest = disk.manifest /\ DOMAIN disk' = DOMAIN disk
      /\ pc \in {"checkpoint", "pausing"}
      /\ pc' \in {"records", "step"}
  BY DEF WriteCheckpoint, RunInv, DiskShape
<1>2. Records(records) /\ sequence \in Nat /\ sequence + 1 \in Nat /\ sequence + 1 > sequence
  BY DEF RunInv, Lists
<1>3. DiskShape' /\ Lists'
  <2>1. Records(disk'.checkpoint.records) /\ disk'.checkpoint.sequence \in Nat
    BY <1>1, <1>2, Zenon
  <2>2. disk'.records # None => Records(disk'.records)
    BY <1>1 DEF RunInv, Lists
  <2>3. Records(records') /\ sequence' \in Nat
    BY <1>1, <1>2, Zenon
  <2>. QED BY <1>1, <2>1, <2>2, <2>3 DEF RunInv, DiskShape, Lists
<1>4. Begins(records, records)
  BY <1>2, BeginsOrder
<1>5. \/ disk.checkpoint = None /\ disk.records = None
      \/ /\ Records(disk.checkpoint.records)
         /\ Begins(disk.checkpoint.records, records) /\ disk.checkpoint.sequence = sequence
  BY <1>1 DEF RunInv, Continues, Lists
<1>6. disk.records # None => Begins(disk.records, records)
  <2>. SUFFICES ASSUME disk.records # None PROVE Begins(disk.records, records)
    OBVIOUS
  <2>1. Records(disk.records) /\ Begins(disk.records, disk.checkpoint.records)
    BY DEF RunInv, Lists, Continues
  <2>. QED BY <1>2, <1>5, <2>1, BeginsOrder
<1>7. Continues'
  BY <1>1, <1>4, <1>6 DEF Continues
<1>8. Replayed' /\ Memoryless'
  BY <1>1 DEF Replayed, Memoryless, RunInv
<1>9. Grows
  <2>1. disk'.checkpoint.sequence = sequence + 1 /\ Records(disk'.checkpoint.records)
    BY <1>1, <1>2, Zenon
  <2>. QED BY <1>1, <1>2, <1>5, <2>1 DEF Grows
<1>. QED BY <1>3, <1>7, <1>8, <1>9 DEF RunInv

\* The records of the checkpoint reach their file.
LEMMA WriteRecordsRun ==
  ASSUME RunInv, WriteRecords
  PROVE  RunInv' /\ Grows
<1>1. /\ UNCHANGED <<records, sequence, hasMemory, memory>>
      /\ disk'.checkpoint = disk.checkpoint /\ disk'.records = records
      /\ disk'.manifest = disk.manifest /\ DOMAIN disk' = DOMAIN disk
      /\ pc = "records" /\ pc' = "replay"
  BY DEF WriteRecords, RunInv, DiskShape
<1>2. /\ Records(records) /\ sequence \in Nat
      /\ disk.checkpoint.records = records /\ disk.checkpoint.sequence = sequence
  BY <1>1 DEF RunInv, Lists, Continues
<1>3. DiskShape' /\ Lists'
  BY <1>1, <1>2 DEF RunInv, DiskShape, Lists
<1>4. Begins(records, records)
  BY <1>2, BeginsOrder
<1>5. Continues' /\ Replayed' /\ Memoryless'
  BY <1>1, <1>2, <1>4 DEF Continues, Replayed, Memoryless, RunInv
<1>. QED BY <1>1, <1>3, <1>5 DEF RunInv, Grows

\* The replay, the sidecar and the manifest: what is described was replayed.
LEMMA ReportRun ==
  ASSUME RunInv, Replay \/ WriteMemory \/ WriteManifest
  PROVE  RunInv' /\ Grows
<1>1. /\ UNCHANGED <<records, sequence, hasMemory, memory>>
      /\ disk'.checkpoint = disk.checkpoint /\ disk'.records = disk.records
      /\ DOMAIN disk' = DOMAIN disk
      /\ pc \in {"replay", "memory", "manifest"}
      /\ pc' \in {"memory", "down", "manifest"}
  BY DEF Replay, WriteMemory, WriteManifest, RunInv, DiskShape
<1>2. DiskShape' /\ Lists'
  BY <1>1 DEF RunInv, DiskShape, Lists
<1>3. Continues' /\ Memoryless'
  BY <1>1 DEF Continues, Memoryless, RunInv
<1>4. /\ disk.records = records
      /\ pc' \in {"memory", "manifest"} => records = Trajectory(hasMemory, Len(records))
  BY <1>1 DEF Replay, WriteMemory, WriteManifest, Replays, RunInv, Replayed
<1>5. \/ disk'.manifest = disk.manifest
      \/ disk'.manifest.records = records /\ records = Trajectory(hasMemory, Len(records))
  <2>1. CASE Replay \/ WriteMemory
    BY <2>1 DEF Replay, WriteMemory, RunInv, DiskShape
  <2>2. CASE WriteManifest
    BY <2>2, <1>4 DEF WriteManifest, RunInv, DiskShape, Replayed
  <2>. QED BY <2>1, <2>2
<1>6. Replayed'
  BY <1>1, <1>4, <1>5 DEF Replayed, RunInv
<1>. QED BY <1>1, <1>2, <1>3, <1>6 DEF RunInv, Grows

\* A run that ends early leaves the disk as it is.
LEMMA EndRun ==
  ASSUME RunInv, Raise \/ Crash
  PROVE  RunInv' /\ Grows
<1>1. /\ UNCHANGED <<records, sequence, hasMemory, disk>>
      /\ pc' = "down"
      /\ memory' = memory \/ memory' = Fresh(hasMemory)
  BY DEF Raise, Crash
<1>2. DiskShape' /\ Lists'
  BY <1>1 DEF RunInv, DiskShape, Lists
<1>3. Continues' /\ Replayed'
  BY <1>1 DEF Continues, Replayed, RunInv
<1>4. Memoryless'
  BY <1>1 DEF Memoryless, Fresh, RunInv
<1>. QED BY <1>1, <1>2, <1>3, <1>4 DEF RunInv, Grows

-----------------------------------------------------------------------------
(* The theorems *)

\* There are no files at first.
LEMMA InitRun == Init => RunInv
<1>. SUFFICES ASSUME Init PROVE RunInv
  OBVIOUS
<1>1. /\ disk.checkpoint = None /\ disk.records = None /\ disk.manifest = None
      /\ records = <<>> /\ sequence = 0 /\ pc = "down" /\ memory = Fresh(hasMemory)
      /\ DiskShape
  BY DEF Init, EmptyDisk, DiskShape
<1>2. Records(<<>>) /\ Len(<<>>) = 0
  BY DEF Records
<1>3. <<>> = MemoryFree(0)
  BY DEF MemoryFree
<1>4. Lists /\ Continues /\ Replayed
  BY <1>1, <1>2 DEF Lists, Continues, Replayed
<1>5. Memoryless
  BY <1>1, <1>2, <1>3 DEF Memoryless, Fresh
<1>. QED BY <1>1, <1>4, <1>5 DEF RunInv

\* Every step keeps the invariant and lets the checkpoint grow.
LEMMA NextRun == RunInv /\ [Next]_vars => RunInv' /\ Grows
<1>. SUFFICES ASSUME RunInv, [Next]_vars PROVE RunInv' /\ Grows
  OBVIOUS
<1>1. CASE UNCHANGED vars
  <2>1. UNCHANGED <<pc, records, sequence, hasMemory, memory, disk>>
    BY <1>1 DEF vars
  <2>2. DiskShape' /\ Lists' /\ Continues'
    BY <2>1 DEF RunInv, DiskShape, Lists, Continues
  <2>3. Replayed' /\ Memoryless'
    BY <2>1 DEF RunInv, Replayed, Memoryless
  <2>. QED BY <2>1, <2>2, <2>3 DEF RunInv, Grows
<1>2. CASE Next
  <2>1. CASE Start \/ Resume \/ Step
    BY <2>1, StartRun, ResumeRun, StepRun
  <2>2. CASE Pause \/ MakeDirectory \/ WriteCheckpoint \/ WriteRecords
    BY <2>2, PauseRun, WriteCheckpointRun, WriteRecordsRun
  <2>3. CASE Replay \/ WriteMemory \/ WriteManifest \/ Raise \/ Crash
    BY <2>3, ReportRun, EndRun
  <2>. QED BY <1>2, <2>1, <2>2, <2>3 DEF Next, Run
<1>. QED BY <1>1, <1>2

\* Whatever raised, crashed or was paused, and whichever memory the caller came back
\* with, a manifest describes the trajectory that nothing interrupts
\* (simulation/engine.py, run_and_write_simulation and its replay).
THEOREM ManifestsAreUninterrupted == Spec => []ManifestIsUninterrupted
<1>1. RunInv => ManifestIsUninterrupted
  BY DEF RunInv, Replayed, Memoryless, ManifestIsUninterrupted
<1>. QED BY InitRun, NextRun, <1>1, PTL DEF Spec

\* A checkpoint only ever gives way to one that continues it, and the records' file is
\* never ahead of it (simulation/engine.py, _checkpoint and resume).
THEOREM CheckpointsGrow == Spec => CheckpointGrows
<1>1. RunInv => RecordsBehindCheckpoint
  BY BeginsIsPrefix DEF RunInv, Lists, Continues, RecordsBehindCheckpoint
<1>2. RunInv' => RecordsBehindCheckpoint'
  BY <1>1, PTL
<1>3. Grows => (disk.checkpoint # None /\ disk'.checkpoint # disk.checkpoint =>
                  /\ disk'.checkpoint.sequence > disk.checkpoint.sequence
                  /\ IsPrefix(disk.checkpoint.records, disk'.checkpoint.records))
  BY BeginsIsPrefix DEF Grows
<1>4. RunInv /\ [Next]_vars =>
        [/\ RecordsBehindCheckpoint'
         /\ disk.checkpoint # None /\ disk'.checkpoint # disk.checkpoint =>
              /\ disk'.checkpoint.sequence > disk.checkpoint.sequence
              /\ IsPrefix(disk.checkpoint.records, disk'.checkpoint.records)]_vars
  BY NextRun, <1>2, <1>3
<1>. QED BY InitRun, NextRun, <1>4, PTL DEF Spec, CheckpointGrows

-----------------------------------------------------------------------------
(* Every run comes to its end *)

\* How many steps a run can still take: a day, its directory and its checkpoint for each
\* day that is left, then its other files.
StepsLeft ==
  LET days == LastDay - Len(records)
      files == IF disk.directory THEN 1 ELSE 2
  IN CASE pc = "step" -> 3 * days + 6
       [] pc = "checkpoint" -> 3 * days + 6 + files
       [] pc = "pausing" -> 4 + files
       [] pc = "records" -> 4
       [] pc = "replay" -> 3
       [] pc = "memory" -> 2
       [] pc = "manifest" -> 1
       [] OTHER -> 0

\* No step of a run leaves as many steps as there were.
RunsDown == [][Run => StepsLeft' < StepsLeft]_vars

\* A run has at most LastDay days, and less when it goes on.
DaysInv ==
  /\ pc \in Stages
  /\ Len(records) <= LastDay
  /\ pc = "step" => Len(records) < LastDay
  /\ disk.checkpoint # None => Len(disk.checkpoint.records) <= LastDay

\* Days are added one at a time, and only while some are left.
LEMMA NextDays == RunInv /\ DaysInv /\ [Next]_vars => DaysInv'
<1>. SUFFICES ASSUME RunInv, DaysInv, [Next]_vars PROVE DaysInv'
  OBVIOUS
<1>1. LastDay \in Nat \ {0} /\ Records(records) /\ Len(records) \in Nat
  BY SimulationRunAssumption DEF RunInv, Lists, Records
<1>2. disk.checkpoint # None => Len(disk.checkpoint.records) \in Nat
  BY DEF RunInv, Lists, Records
<1>3. CASE UNCHANGED vars
  <2>1. UNCHANGED <<pc, records, disk>>
    BY <1>3 DEF vars
  <2>. QED BY <2>1 DEF DaysInv
<1>4. CASE Start
  <2>1. pc' = "step" /\ records' = <<>> /\ disk' = disk
    BY <1>4 DEF Start
  <2>. QED BY <1>1, <2>1 DEF DaysInv, Stages
<1>5. CASE Resume
  <2>1. /\ pc' = IF Len(records') = LastDay THEN "records" ELSE "step"
        /\ records' = disk.checkpoint.records /\ disk' = disk /\ disk.checkpoint # None
    BY <1>5 DEF Resume, Loaded, Completed
  <2>. QED BY <1>1, <1>2, <2>1 DEF DaysInv, Stages
<1>6. CASE Step
  <2>1. pc = "step" /\ disk' = disk /\ pc' \in {"down", "checkpoint", "step"}
    BY <1>6 DEF Step
  <2>2. \/ records' = records /\ pc' = "down"
        \/ /\ \E e : records' = Append(records, e)
           /\ pc' = "step" => Len(records') # LastDay
    BY <1>6 DEF Step, Due, Completed
  <2>3. CASE records' = records /\ pc' = "down"
    BY <2>1, <2>3 DEF DaysInv, Stages
  <2>4. CASE /\ \E e : records' = Append(records, e)
             /\ pc' = "step" => Len(records') # LastDay
    <3>1. Len(records') = Len(records) + 1
      BY <1>1, <2>4, OneMore
    <3>. QED BY <1>1, <2>1, <2>4, <3>1 DEF DaysInv, Stages
  <2>. QED BY <2>2, <2>3, <2>4
<1>7. CASE Pause \/ MakeDirectory \/ WriteRecords \/ Replay \/ WriteMemory \/ WriteManifest
  <2>1. /\ disk'.checkpoint = disk.checkpoint /\ records' = records
        /\ pc' = pc \/ pc' \in Stages \ {"step"}
    BY <1>7 DEF Pause, MakeDirectory, WriteRecords, Replay, WriteMemory, WriteManifest,
                RunInv, DiskShape, Stages
  <2>. QED BY <2>1 DEF DaysInv
<1>8. CASE WriteCheckpoint
  <2>1. /\ disk'.checkpoint = [sequence |-> sequence', records |-> records]
        /\ records' = records
        /\ pc' \in {"records", "step"}
        /\ pc' = "step" => Len(records) # LastDay
    BY <1>8 DEF WriteCheckpoint, Completed, RunInv, DiskShape
  <2>. QED BY <1>1, <2>1 DEF DaysInv, Stages
<1>9. CASE Raise \/ Crash
  <2>1. pc' = "down" /\ records' = records /\ disk' = disk
    BY <1>9 DEF Raise, Crash
  <2>. QED BY <2>1 DEF DaysInv, Stages
<1>. QED BY <1>3, <1>4, <1>5, <1>6, <1>7, <1>8, <1>9 DEF Next, Run

\* Each step of a run takes it closer to its end.
LEMMA RunGoesDown ==
  ASSUME RunInv, DaysInv, DaysInv', Run
  PROVE  StepsLeft' < StepsLeft
<1>1. LastDay \in Nat \ {0} /\ Records(records) /\ Len(records) \in Nat /\ Len(records) <= LastDay
  BY SimulationRunAssumption DEF RunInv, Lists, Records, DaysInv
<1>2. CASE Step
  <2>1. /\ pc = "step" /\ disk' = disk
        /\ \/ pc' = "down"
           \/ pc' \in {"checkpoint", "step"} /\ \E e : records' = Append(records, e)
    BY <1>2 DEF Step
  <2>2. CASE pc' = "down"
    BY <1>1, <2>1, <2>2 DEF StepsLeft
  <2>3. CASE pc' \in {"checkpoint", "step"} /\ \E e : records' = Append(records, e)
    <3>1. PICK d : d = LastDay - Len(records')
      OBVIOUS
    <3>2. Len(records') = Len(records) + 1
      BY <1>1, <2>3, OneMore
    <3>3. d \in Int /\ LastDay - Len(records) = d + 1
      BY <1>1, <3>1, <3>2
    <3>4. StepsLeft = 3 * (d + 1) + 6
      BY <2>1, <3>3 DEF StepsLeft
    <3>5. StepsLeft' \in {3 * d + 6, 3 * d + 6 + 1, 3 * d + 6 + 2}
      BY <2>3, <3>1 DEF StepsLeft
    <3>. QED BY <3>3, <3>4, <3>5
  <2>. QED BY <2>1, <2>2, <2>3
<1>3. CASE MakeDirectory
  <2>1. /\ pc \in {"checkpoint", "pausing"} /\ pc' = pc /\ records' = records
        /\ ~disk.directory /\ disk'.directory
    BY <1>3 DEF MakeDirectory, RunInv, DiskShape
  <2>. QED BY <1>1, <2>1 DEF StepsLeft
<1>4. CASE WriteCheckpoint
  <2>1. /\ records' = records /\ disk.directory
        /\ \/ pc = "pausing" /\ pc' = "records"
           \/ pc = "checkpoint" /\ pc' \in {"records", "step"}
    BY <1>4 DEF WriteCheckpoint
  <2>. QED BY <1>1, <2>1 DEF StepsLeft
<1>5. CASE WriteRecords
  BY <1>5 DEF WriteRecords, StepsLeft
<1>6. CASE Replay
  <2>1. pc = "replay" /\ pc' \in {"memory", "down"}
    BY <1>6 DEF Replay
  <2>. QED BY <2>1 DEF StepsLeft
<1>7. CASE WriteMemory \/ WriteManifest
  BY <1>7 DEF WriteMemory, WriteManifest, StepsLeft
<1>. QED BY <1>2, <1>3, <1>4, <1>5, <1>6, <1>7 DEF Run

\* No run goes on for ever, with a memory or without: each of its steps lowers a number
\* that is zero when it has ended (simulation/engine.py:350-371, 441-560).
THEOREM RunsComeDown ==
  Spec => [](StepsLeft \in Nat /\ (StepsLeft = 0 <=> pc = "down")) /\ RunsDown
<1>1. Init => DaysInv
  BY SimulationRunAssumption DEF Init, DaysInv, Stages, EmptyDisk
<1>2. RunInv /\ DaysInv => StepsLeft \in Nat /\ (StepsLeft = 0 <=> pc = "down")
  <2>. SUFFICES ASSUME RunInv, DaysInv
               PROVE  StepsLeft \in Nat /\ (StepsLeft = 0 <=> pc = "down")
    OBVIOUS
  <2>1. LastDay \in Nat /\ Len(records) \in Nat /\ Len(records) <= LastDay
    BY SimulationRunAssumption DEF RunInv, Lists, Records, DaysInv
  <2>2. PICK d \in Nat : d = LastDay - Len(records)
    BY <2>1
  <2>3. /\ pc = "down" => StepsLeft = 0
        /\ pc # "down" => \/ StepsLeft \in {1, 2, 3, 4, 5, 6}
                         \/ StepsLeft \in {3 * d + 6, 3 * d + 6 + 1, 3 * d + 6 + 2}
    BY <2>2 DEF DaysInv, Stages, StepsLeft
  <2>. QED BY <2>2, <2>3
<1>3. RunInv /\ DaysInv /\ [Next]_vars => DaysInv' /\ [Run => StepsLeft' < StepsLeft]_vars
  BY NextDays, RunGoesDown
<1>. QED BY InitRun, NextRun, <1>1, <1>2, <1>3, PTL DEF Spec, RunsDown
=============================================================================
