---------------------------- MODULE FuzzerProofs ----------------------------
(***************************************************************************)
(* Proofs about hls-fuzzer, for any number of workers, programs and I/O    *)
(* failures.                                                               *)
(***************************************************************************)
EXTENDS Fuzzer, CountingLemmas

Counts == [programs : Nat, bugs : Nat]
Reports == {NoReport, Progress(1, 0), Progress(1, 1)}

\* Where a worker has a program in hand that is not in the total yet.
InHand == {"start", "run", "save", "copy", "add"}

FlagsOK ==
  /\ singleProcess \in BOOLEAN /\ jsonOutput \in BOOLEAN
  /\ quit \in BOOLEAN /\ interrupted \in BOOLEAN /\ remainingPrograms \in Int
  /\ main \in {"loop", "heartbeat", "join", "last", "exited", "aborted"}
  /\ pending \subseteq Threads /\ signalled \in BOOLEAN
  /\ failures \in Nat /\ found \in Nat /\ unrecorded \in Nat

LoopOK ==
  /\ pc \in [Workers -> InHand \cup {"loop", "claim", "report", "finished"}]
  /\ made \in [Workers -> [programs : {0, 1}, bugs : {0, 1}]]
  /\ destination \in [Workers -> 0 .. NumPrograms]
  /\ process \in [Workers -> {"none", "boot", "wipe", "make", "record", "generate", "verify",
                          "exit 0", "dead"}]

DiskOK ==
  /\ directory \in [Workers -> [program : {"absent", "stale", "none", "current"},
                                report : Reports]]
  /\ bug \in [0 .. NumPrograms -> {"free", "empty", "stale", "none", "current"}]

ReportOK ==
  /\ totalProgress \in Counts /\ progressMutex \in Threads \cup {Free}
  /\ temp \in [Threads -> Counts \cup {NoReport}] /\ file \in Counts \cup {NoReport}

TypeOK == FlagsOK /\ LoopOK /\ DiskOK /\ ReportOK

\* Whoever has a sample in its temporary file holds the lock, so the sample is
\* the total, and the file is behind it at most.
LockInv ==
  /\ \A t \in Threads : temp[t] # NoReport =>
       progressMutex = t /\ temp[t] = totalProgress /\ (Running => Reporting(t))
  /\ file.programs <= totalProgress.programs /\ file.bugs <= totalProgress.bugs

\* Nothing has happened that may cost a program its result.
Undisturbed == ~signalled /\ failures = 0

\* How the phases of workers, processes and the main thread go together.
WorkerPhase(w) ==
  /\ pc[w] = "run" <=> process[w] # "none"
  /\ process[w] \in {"make", "record", "generate", "verify"} => directory[w].report = NoReport
  /\ process[w] = "exit 0" /\ directory[w].report = NoReport => failures > 0
  /\ pc[w] \in {"save", "copy", "add"} /\ Undisturbed => made[w].programs = 1

MainPhase ==
  /\ signalled <=> interrupted \/ "main" \in pending
  /\ quit /\ Undisturbed => remainingPrograms <= 0
  /\ main \in {"join", "last", "exited"} => quit
  /\ main \in {"last", "exited"} => \A w \in Workers : pc[w] = "finished"
  /\ main = "exited" /\ jsonOutput /\ failures = 0 => file = totalProgress

PhaseInv == MainPhase /\ \A w \in Workers : WorkerPhase(w)

\* Every program asked for is counted, in a worker's hand, or still unclaimed.
Busy == {w \in Workers : pc[w] \in InHand}
Left == IF remainingPrograms > 0 THEN remainingPrograms ELSE 0
CountInv ==
  /\ totalProgress.programs + Cardinality(Busy) + Left <= NumPrograms
  /\ Undisturbed => totalProgress.programs + Cardinality(Busy) + Left = NumPrograms

\* There is a name for every reproducer that may still be saved, and no two
\* workers copy to the same one.
Unsaved == {w \in Workers : pc[w] \in {"start", "run", "save"}}
Used == {i \in Names : bug[i] # "free"}
Room == Cardinality(Used) + Cardinality(Unsaved) + Left <= NumPrograms + 1
Apart ==
  /\ \A w \in Workers : pc[w] = "copy" => bug[destination[w]] = "empty"
  /\ \A v, w \in Workers :
       pc[v] = "copy" /\ pc[w] = "copy" /\ v # w => destination[v] # destination[w]
NamesInv == Room /\ Apart

IInv == TypeOK /\ LockInv /\ PhaseInv /\ CountInv /\ NamesInv

\* What the directory of a worker with a program in hand holds: the program, or
\* at least not nothing at all, unless a program went unrecorded.
Recorded(w) == directory[w].program \in {"current", "none"}
RecordPhase(w) ==
  /\ pc[w] \in {"save", "copy"} => (Recorded(w) \/ unrecorded > 0) /\ made[w].bugs = 1
  /\ process[w] \in {"record", "generate"} => Recorded(w)
  /\ process[w] \in {"verify", "exit 0"} => directory[w].program = "current"
  /\ process[w] = "dead" /\ ~signalled => Recorded(w) \/ unrecorded > 0
RecordInv ==
  /\ \A w \in Workers : RecordPhase(w)
  /\ pending # {} => signalled
  /\ ~singleProcess /\ main = "aborted" => failures > 0 \/ unrecorded > 0

\* The workers with a bug in hand that is not in the total yet.
IsGuilty(w) ==
  \/ process[w] = "exit 0" /\ directory[w].report = Progress(1, 1)
  \/ process[w] = "dead" /\ ~signalled
  \/ pc[w] \in {"save", "copy", "add"} /\ made[w].bugs = 1
Guilty == {w \in Workers : IsGuilty(w)}
FoundInv == totalProgress.bugs + Cardinality(Guilty) <= found

\* The workers whose bug, if it is one, has its reproducer already, or has none
\* to save as the program was not recorded.
IsExcused(w) ==
  \/ pc[w] = "add" /\ made[w].bugs = 1
  \/ /\ directory[w].program # "current"
     /\ \/ pc[w] \in {"save", "copy"}
        \/ process[w] = "generate"
        \/ process[w] = "dead" /\ ~signalled
Excused == {w \in Workers : IsExcused(w)}
Current == {i \in Names : bug[i] = "current"}
KeptInv == totalProgress.bugs + Cardinality(Excused) <= Cardinality(Current) + unrecorded

BugInv == RecordInv /\ FoundInv /\ KeptInv

\* A step is a worker's, with its program and its report, or the main thread's.
Acts(w) ==
  \/ Work(w) \/ StartFails(w) \/ SaveFails(w) \/ Program(w) \/ Crash(w) \/ SignalProcess(w)
  \/ Report(w) \/ ReportFails(w)
MainActs == Main \/ Signal \/ Handler \/ Report("main") \/ ReportFails("main")

\* What a step leaves alone of a worker, and of the history.
Same(v) ==
  /\ pc'[v] = pc[v] /\ made'[v] = made[v] /\ destination'[v] = destination[v]
  /\ process'[v] = process[v] /\ directory'[v] = directory[v]
Later ==
  /\ failures' \in Nat /\ failures' >= failures
  /\ found' \in Nat /\ found' >= found
  /\ unrecorded' \in Nat /\ unrecorded' >= unrecorded
  /\ signalled => signalled'
-----------------------------------------------------------------------------
(* Counting workers and names.                                             *)

LEMMA WorkersFinite ==
  ASSUME NEW S, S \subseteq Workers
  PROVE  IsFiniteSet(S) /\ Cardinality(S) \in Nat
  BY FuzzerAssumption, FS_Subset, FS_CardinalityType

\* A worker that wants to save a reproducer finds a name.
LEMMA FreeNameLemma ==
  ASSUME TypeOK, NamesInv, NEW w \in Workers, pc[w] = "save"
  PROVE  FreeName \in 0 .. NumPrograms /\ bug[FreeName] = "free"
  <1> DEFINE F == {i \in 0 .. NumPrograms : bug[i] = "free"}
  <1>1. Names = 0 .. NumPrograms
    BY DEF Names, TypeOK, DiskOK
  <1>2. Cardinality(Unsaved) \in Nat /\ Cardinality(Unsaved) # 0
    <2>1. Unsaved \subseteq Workers /\ w \in Unsaved
      BY DEF Unsaved
    <2> QED
      BY <2>1, WorkersFinite, FS_EmptySet
  <1>3. NumPrograms \in Nat /\ Left \in Nat
    BY FuzzerAssumption DEF Left, TypeOK, FlagsOK
  <1>4. Used \subseteq 0 .. NumPrograms /\ Used # 0 .. NumPrograms
    <2>1. Used \subseteq 0 .. NumPrograms
      BY <1>1 DEF Used
    <2>2. Cardinality(Used) \in Nat
      BY <1>3, <2>1, InIntervalFinite
    <2>3. Cardinality(Used) # NumPrograms + 1
      BY <1>2, <1>3, <2>2 DEF NamesInv, Room
    <2> QED
      BY <1>3, <2>1, <2>3, InIntervalFinite
  <1>5. F # {} /\ F \subseteq Nat
    BY <1>1, <1>4 DEF Used
  <1>6. PICK i \in F : \A j \in F : i <= j
    BY <1>5, LeastNatural
  <1>7. \E k \in Names : bug[k] = "free" /\ \A j \in Names : j < k => bug[j] # "free"
    <2>1. \A j \in Names : j < i => bug[j] # "free"
      BY <1>1, <1>3, <1>6
    <2> QED
      BY <1>1, <1>6, <2>1
  <1> QED
    BY <1>1, <1>7 DEF FreeName
-----------------------------------------------------------------------------
(* Types.                                                                  *)

\* The flags, the main thread and the history keep their types.
LEMMA FlagsStep ==
  ASSUME FlagsOK, Step
  PROVE  FlagsOK'
  <1> USE DEF FlagsOK
  <1>1. ASSUME NEW w \in Workers, CheckQuit(w) \/ Start(w) PROVE FlagsOK'
    BY <1>1, FuzzerAssumption DEF CheckQuit, Goes, Start, Threads, flags, options,
      signals
  <1>2. ASSUME NEW w \in Workers, Claim(w) PROVE FlagsOK'
    BY <1>2, FuzzerAssumption DEF Claim, Claimed, Goes, Threads, flags, options, signals
  <1>3. ASSUME NEW w \in Workers, StartFails(w) PROVE FlagsOK'
    BY <1>3, FuzzerAssumption DEF StartFails, Goes, Threads, flags, options, signals
  <1>4. ASSUME NEW w \in Workers,
               Reap(w) \/ ClaimName(w) \/ CopyReproducer(w) \/ AddProgress(w)
       PROVE  FlagsOK'
    BY <1>4, FuzzerAssumption DEF Reap, Goes, ClaimName, CopyReproducer, AddProgress,
      Threads, flags, options, signals
  <1>s. ASSUME NEW w \in Workers, SaveFails(w) PROVE FlagsOK'
    BY <1>s, FuzzerAssumption DEF SaveFails, Threads, flags, options, signals
  <1>5. ASSUME NEW w \in Workers,
               Boot(w) \/ Wipe(w) \/ MakeDirectory(w) \/ Record(w) \/ Generate(w)
       PROVE  FlagsOK'
    BY <1>5, FuzzerAssumption DEF Boot, ProcessStep, Wipe, MakeDirectory, Record, Generate,
      Threads, flags, options, signals
  <1>6. ASSUME NEW w \in Workers, Verify(w) PROVE FlagsOK'
    <2>1. PICK bugs \in {0, 1} : /\ found' = found + bugs
                                 /\ failures' = failures \/ failures' = failures + 1
      BY <1>6 DEF Verify
    <2>2. found' \in Nat /\ failures' \in Nat
      BY <2>1
    <2> QED
      BY <1>6, <2>2 DEF Verify, flags, options, signals
  <1>7. ASSUME NEW w \in Workers, Crash(w) PROVE FlagsOK'
    BY <1>7, FuzzerAssumption DEF Crash, Unrecorded, Threads, flags, options, signals
  <1>8. ASSUME NEW w \in Workers, SignalProcess(w) PROVE FlagsOK'
    BY <1>8, FuzzerAssumption DEF SignalProcess, Threads, flags, options, signals
  <1>9. ASSUME NEW t \in Threads, WriteTemp(t) \/ KeepTemp(t) \/ ReportFails(t)
       PROVE  FlagsOK'
    BY <1>9, FuzzerAssumption DEF WriteTemp, KeepTemp, Reported, ReportFails, Threads,
      flags, options, signals
  <1>10. ASSUME ReportConsole \/ MainLoop \/ Join PROVE FlagsOK'
    BY <1>10, FuzzerAssumption DEF ReportConsole, Reported, MainLoop, Join, Threads,
      flags, options, signals
  <1>11. ASSUME Signal PROVE FlagsOK'
    BY <1>11, FuzzerAssumption DEF Signal, Threads, flags, options, signals
  <1>12. ASSUME Handler PROVE FlagsOK'
    BY <1>12, FuzzerAssumption DEF Handler, Threads, flags, options, signals
  <1> QED
    BY <1>1, <1>2, <1>3, <1>4, <1>s, <1>5, <1>6, <1>7, <1>8, <1>9, <1>10, <1>11, <1>12
    DEF Step, Work, Program, Report, Main

\* What comes of a program is at most one program and one bug.
LEMMA OutcomeLemma ==
  ASSUME DiskOK, NEW w \in Workers
  PROVE  Outcome(w) \in [programs : {0, 1}, bugs : {0, 1}]
  <1>1. directory[w].report \in Reports
    BY DEF DiskOK
  <1>2. {Nothing, Progress(1, 0), Progress(1, 1)} \subseteq [programs : {0, 1}, bugs : {0, 1}]
    BY DEF Nothing, Progress
  <1>3. Outcome(w) \in {Nothing, Progress(1, 0), Progress(1, 1)}
    BY <1>1 DEF Outcome, Reports
  <1> QED
    BY <1>2, <1>3

\* So do the workers and their processes.
LEMMA LoopStep ==
  ASSUME TypeOK, NamesInv, Step
  PROVE  LoopOK'
  <1> USE DEF LoopOK, InHand
  <1> LoopOK
    BY DEF TypeOK
  <1>1. ASSUME NEW w \in Workers, CheckQuit(w) \/ Claim(w) PROVE LoopOK'
    BY <1>1, FuzzerAssumption DEF CheckQuit, Goes, Claim, Claimed, loop, Threads
  <1>2. ASSUME NEW w \in Workers, Start(w) PROVE LoopOK'
    BY <1>2, FuzzerAssumption DEF Start, Goes, loop, Threads
  <1>3. ASSUME NEW w \in Workers, StartFails(w) PROVE LoopOK'
    BY <1>3, FuzzerAssumption DEF StartFails, Goes, loop, Threads, Nothing, Progress
  <1>4. ASSUME NEW w \in Workers, Reap(w) PROVE LoopOK'
    <2>1. Outcome(w) \in [programs : {0, 1}, bugs : {0, 1}]
      BY OutcomeLemma DEF TypeOK
    <2> QED
      BY <1>4, <2>1 DEF Reap, Goes
  <1>5. ASSUME NEW w \in Workers, ClaimName(w) PROVE LoopOK'
    <2>1. FreeName \in 0 .. NumPrograms
      BY <1>5, FreeNameLemma DEF ClaimName, Goes
    <2> QED
      BY <1>5, <2>1 DEF ClaimName, Goes
  <1>6. ASSUME NEW w \in Workers,
               CopyReproducer(w) \/ SaveFails(w) \/ AddProgress(w)
       PROVE  LoopOK'
    BY <1>6, FuzzerAssumption DEF CopyReproducer, SaveFails, Goes, AddProgress, loop, Threads
  <1>7. ASSUME NEW w \in Workers,
               Boot(w) \/ Wipe(w) \/ MakeDirectory(w) \/ Record(w) \/ Generate(w)
               \/ Verify(w) \/ Crash(w) \/ SignalProcess(w)
       PROVE  LoopOK'
    BY <1>7, FuzzerAssumption DEF Boot, ProcessStep, Wipe, MakeDirectory, Record,
      Generate, Verify, Crash, Unrecorded, SignalProcess, loop, Threads
  <1>8. ASSUME NEW t \in Threads, WriteTemp(t) \/ KeepTemp(t) \/ ReportFails(t)
       PROVE  LoopOK'
    BY <1>8, FuzzerAssumption DEF WriteTemp, KeepTemp, Reported, ReportFails, loop,
      Threads
  <1>9. ASSUME ReportConsole \/ MainLoop \/ Join \/ Signal \/ Handler PROVE LoopOK'
    BY <1>9, FuzzerAssumption DEF ReportConsole, Reported, MainLoop, Join, Signal,
      Handler, loop, Threads
  <1> QED
    BY <1>1, <1>2, <1>3, <1>4, <1>5, <1>6, <1>7, <1>8, <1>9
    DEF Step, Work, Program, Report, Main

\* The counts a worker adds to the total.
LEMMA MadeLemma ==
  ASSUME LoopOK, NEW w \in Workers
  PROVE  /\ made[w].programs \in {0, 1} /\ made[w].bugs \in {0, 1}
         /\ made[w].programs \in Nat /\ made[w].bugs \in Nat
  <1>1. made[w].programs \in {0, 1} /\ made[w].bugs \in {0, 1}
    BY DEF LoopOK
  <1> QED
    BY <1>1

\* So do the directories.
LEMMA DiskStep ==
  ASSUME TypeOK, NamesInv, Step
  PROVE  DiskOK'
  <1> USE DEF DiskOK, Reports, NoReport, Progress
  <1> DiskOK
    BY DEF TypeOK
  <1>1. ASSUME NEW w \in Workers, CheckQuit(w) \/ Claim(w) PROVE DiskOK'
    BY <1>1, FuzzerAssumption DEF CheckQuit, Goes, Claim, Claimed, disk
  <1>2. ASSUME NEW w \in Workers, Start(w) PROVE DiskOK'
    BY <1>2, FuzzerAssumption DEF Start, Goes, disk
  <1>3. ASSUME NEW w \in Workers, StartFails(w) \/ SaveFails(w) \/ Reap(w) \/ AddProgress(w)
       PROVE  DiskOK'
    BY <1>3, FuzzerAssumption DEF StartFails, SaveFails, Goes, Reap, AddProgress, disk
  <1>4. ASSUME NEW w \in Workers, ClaimName(w) PROVE DiskOK'
    <2>1. FreeName \in 0 .. NumPrograms
      BY <1>4, FreeNameLemma DEF ClaimName, Goes
    <2> QED
      BY <1>4, <2>1 DEF ClaimName
  <1>5. ASSUME NEW w \in Workers, CopyReproducer(w) PROVE DiskOK'
    BY <1>5, FuzzerAssumption DEF CopyReproducer, Goes, disk, TypeOK, LoopOK
  <1>6. ASSUME NEW w \in Workers, Boot(w) \/ Crash(w) \/ SignalProcess(w) PROVE DiskOK'
    BY <1>6, FuzzerAssumption DEF Boot, ProcessStep, Crash, Unrecorded, SignalProcess, disk
  <1>7. ASSUME NEW w \in Workers, Wipe(w) \/ MakeDirectory(w) \/ Record(w) PROVE DiskOK'
    <2>1. CASE Wipe(w)
      BY <2>1, FuzzerAssumption DEF Wipe, ProcessStep, disk
    <2>2. CASE MakeDirectory(w)
      BY <2>2, FuzzerAssumption DEF MakeDirectory, ProcessStep, disk
    <2>3. CASE Record(w)
      BY <2>3, FuzzerAssumption DEF Record, ProcessStep, disk
    <2> QED
      BY <1>7, <2>1, <2>2, <2>3
  <1>8. ASSUME NEW w \in Workers, Generate(w) PROVE DiskOK'
    BY <1>8, FuzzerAssumption DEF Generate, ProcessStep, disk
  <1>9. ASSUME NEW w \in Workers, Verify(w) PROVE DiskOK'
    <2>1. PICK bugs \in {0, 1} :
            \/ directory' = [directory EXCEPT ![w].report = Progress(1, bugs)]
            \/ UNCHANGED directory
      BY <1>9 DEF Verify
    <2>2. Progress(1, bugs) \in Reports
      OBVIOUS
    <2> HIDE DEF Reports, Progress
    <2>3. directory' \in [Workers -> [program : {"absent", "stale", "none", "current"},
                                      report : Reports]]
      BY <2>1, <2>2
    <2> QED
      BY <1>9, <2>3 DEF Verify
  <1>10. ASSUME NEW t \in Threads, WriteTemp(t) \/ KeepTemp(t) \/ ReportFails(t)
       PROVE  DiskOK'
    BY <1>10, FuzzerAssumption DEF WriteTemp, KeepTemp, Reported, ReportFails, disk
  <1>11. ASSUME ReportConsole \/ MainLoop \/ Join \/ Signal \/ Handler PROVE DiskOK'
    BY <1>11, FuzzerAssumption DEF ReportConsole, Reported, MainLoop, Join, Signal,
      Handler, disk
  <1> QED
    BY <1>1, <1>2, <1>3, <1>4, <1>5, <1>6, <1>7, <1>8, <1>9, <1>10, <1>11
    DEF Step, Work, Program, Report, Main

\* So do the report and its lock.
LEMMA ReportStep ==
  ASSUME TypeOK, Step
  PROVE  ReportOK'
  <1> USE DEF ReportOK, Counts, NoReport, Progress, Free, Threads
  <1> ReportOK
    BY DEF TypeOK
  <1>1. ASSUME NEW w \in Workers, CheckQuit(w) \/ Claim(w) PROVE ReportOK'
    BY <1>1, FuzzerAssumption DEF CheckQuit, Goes, Claim, Claimed, report
  <1>2. ASSUME NEW w \in Workers, Start(w) \/ StartFails(w) \/ Reap(w) PROVE ReportOK'
    BY <1>2, FuzzerAssumption DEF Start, Goes, StartFails, Reap, report
  <1>3. ASSUME NEW w \in Workers,
               ClaimName(w) \/ CopyReproducer(w) \/ SaveFails(w)
       PROVE  ReportOK'
    BY <1>3, FuzzerAssumption DEF ClaimName, Goes, CopyReproducer, SaveFails, report
  <1>4. ASSUME NEW w \in Workers, AddProgress(w) PROVE ReportOK'
    <2>1. made[w].programs \in Nat /\ made[w].bugs \in Nat
      BY MadeLemma DEF TypeOK
    <2>2. totalProgress' \in Counts
      BY <1>4, <2>1 DEF AddProgress
    <2>3. UNCHANGED <<progressMutex, temp, file>>
      BY <1>4 DEF AddProgress
    <2> HIDE DEF Counts, NoReport
    <2> QED
      BY <2>2, <2>3
  <1>5. ASSUME NEW w \in Workers,
               Boot(w) \/ Wipe(w) \/ MakeDirectory(w) \/ Record(w) \/ Generate(w)
               \/ Verify(w) \/ Crash(w) \/ SignalProcess(w)
       PROVE  ReportOK'
    BY <1>5, FuzzerAssumption DEF Boot, ProcessStep, Wipe, MakeDirectory, Record,
      Generate, Verify, Crash, Unrecorded, SignalProcess, report
  <1>6. ASSUME NEW t \in Threads, WriteTemp(t) PROVE ReportOK'
    BY <1>6, FuzzerAssumption DEF WriteTemp, report
  <1>7. ASSUME NEW t \in Threads, KeepTemp(t) PROVE ReportOK'
    BY <1>7, FuzzerAssumption DEF KeepTemp, Reported, report
  <1>8. ASSUME NEW t \in Threads, ReportFails(t) PROVE ReportOK'
    BY <1>8, FuzzerAssumption DEF ReportFails, Reported, report
  <1>9. ASSUME ReportConsole \/ MainLoop \/ Join \/ Signal \/ Handler PROVE ReportOK'
    BY <1>9, FuzzerAssumption DEF ReportConsole, Reported, MainLoop, Join, Signal,
      Handler, report
  <1> QED
    BY <1>1, <1>2, <1>3, <1>4, <1>5, <1>6, <1>7, <1>8, <1>9
    DEF Step, Work, Program, Report, Main

-----------------------------------------------------------------------------
(* The invariants.                                                         *)

\* The lock protects the sample from the total moving on.
LEMMA LockStep ==
  ASSUME TypeOK, LockInv, Running, Step
  PROVE  LockInv'
  <1> USE DEF LockInv, Running, Reporting, Free, Threads
  <1>a. /\ "main" \notin Workers /\ "free" \notin Workers
        /\ DOMAIN temp = Threads /\ DOMAIN pc = Workers
        /\ temp = [t \in Threads |-> temp[t]] /\ pc = [w \in Workers |-> pc[w]]
    BY FuzzerAssumption DEF TypeOK, ReportOK, LoopOK
  <1>1. ASSUME NEW w \in Workers, CheckQuit(w) PROVE LockInv'
    BY <1>1, <1>a DEF CheckQuit, Goes, report, loop
  <1>2. ASSUME NEW w \in Workers, Claim(w) PROVE LockInv'
    BY <1>2, <1>a DEF Claim, Claimed, Goes, report, loop
  <1>3. ASSUME NEW w \in Workers, Start(w) PROVE LockInv'
    BY <1>3, <1>a DEF Start, Goes, report, loop
  <1>4. ASSUME NEW w \in Workers, StartFails(w) PROVE LockInv'
    BY <1>4, <1>a DEF StartFails, Goes, report, loop
  <1>5. ASSUME NEW w \in Workers, Reap(w) PROVE LockInv'
    BY <1>5, <1>a DEF Reap, Goes, report, loop
  <1>6. ASSUME NEW w \in Workers, ClaimName(w) PROVE LockInv'
    BY <1>6, <1>a DEF ClaimName, Goes, report, loop
  <1>7. ASSUME NEW w \in Workers, CopyReproducer(w) \/ SaveFails(w) PROVE LockInv'
    BY <1>7, <1>a DEF CopyReproducer, SaveFails, Goes, report, loop
  <1>8. ASSUME NEW w \in Workers, AddProgress(w) PROVE LockInv'
    <2>1. \A t \in Threads : temp'[t] = NoReport
      BY <1>8, <1>a DEF AddProgress
    <2>2. /\ made[w].programs \in Nat /\ made[w].bugs \in Nat
          /\ totalProgress.programs \in Nat /\ totalProgress.bugs \in Nat
      BY MadeLemma DEF TypeOK, ReportOK, Counts
    <2>3. file.programs \in Int /\ file.bugs \in Int
      BY DEF TypeOK, ReportOK, Counts, NoReport, Progress
    <2>4. file'.programs <= totalProgress'.programs /\ file'.bugs <= totalProgress'.bugs
      BY <1>8, <2>2, <2>3 DEF AddProgress, Progress
    <2> QED
      BY <2>1, <2>4
  <1>9. ASSUME NEW w \in Workers,
               Boot(w) \/ Wipe(w) \/ MakeDirectory(w) \/ Record(w) \/ Generate(w)
               \/ Verify(w)
       PROVE  LockInv'
    BY <1>9, <1>a DEF Boot, ProcessStep, Wipe, MakeDirectory, Record, Generate, Verify,
      report, loop
  <1>10. ASSUME NEW w \in Workers, Crash(w) PROVE LockInv'
    BY <1>10, <1>a DEF Crash, Unrecorded, report, loop
  <1>11. ASSUME NEW w \in Workers, SignalProcess(w) PROVE LockInv'
    BY <1>11, <1>a DEF SignalProcess, report, loop
  <1>12. ASSUME NEW t \in Threads, WriteTemp(t) PROVE LockInv'
    BY <1>12, <1>a DEF WriteTemp, report, loop
  <1>13. ASSUME NEW t \in Threads, KeepTemp(t) PROVE LockInv'
    <2>1. \A s \in Threads : s # t => temp[s] = NoReport
      BY <1>13, <1>a DEF KeepTemp
    <2>2. \A s \in Threads : temp'[s] = NoReport
      BY <1>13, <1>a, <2>1 DEF KeepTemp
    <2>3. file' = totalProgress /\ totalProgress' = totalProgress
      BY <1>13 DEF KeepTemp
    <2>4. totalProgress.programs \in Nat /\ totalProgress.bugs \in Nat
      BY DEF TypeOK, ReportOK, Counts
    <2> QED
      BY <2>2, <2>3, <2>4
  <1>14. ASSUME NEW t \in Threads, ReportFails(t) PROVE LockInv'
    <2>1. \A s \in Threads : s # t => temp[s] = NoReport
      BY <1>14, <1>a DEF ReportFails
    <2>2. \A s \in Threads : temp'[s] = NoReport
      BY <1>14, <1>a, <2>1 DEF ReportFails
    <2> QED
      BY <1>14, <2>2 DEF ReportFails
  <1>15. ASSUME ReportConsole PROVE LockInv'
    BY <1>15, <1>a DEF ReportConsole, Reported, report, loop
  <1>16. ASSUME MainLoop PROVE LockInv'
    BY <1>16, <1>a DEF MainLoop, report, loop
  <1>17. ASSUME Join PROVE LockInv'
    BY <1>17, <1>a DEF Join, report, loop
  <1>18. ASSUME Signal \/ Handler PROVE LockInv'
    BY <1>18, <1>a DEF Signal, Handler, report, loop
  <1> QED
    BY <1>1, <1>2, <1>3, <1>4, <1>5, <1>6, <1>7, <1>8, <1>9, <1>10, <1>11, <1>12, <1>13,
       <1>14, <1>15, <1>16, <1>17, <1>18
    DEF Step, Work, Program, Report, Main

\* What has failed, what was found and a signal sent stay so.
LEMMA HistoryStep ==
  ASSUME TypeOK, Step
  PROVE  Later
  <1> USE DEF Later
  <1>a. failures \in Nat /\ found \in Nat /\ unrecorded \in Nat
    BY DEF TypeOK, FlagsOK
  <1>1. ASSUME NEW w \in Workers, CheckQuit(w) \/ Claim(w) \/ Start(w) PROVE Later
    BY <1>1, <1>a DEF CheckQuit, Goes, Claim, Claimed, Start, signals
  <1>2. ASSUME NEW w \in Workers, StartFails(w) PROVE Later
    BY <1>2, <1>a DEF StartFails, Goes, signals
  <1>3. ASSUME NEW w \in Workers, Reap(w) PROVE Later
    <2>1. UNCHANGED <<failures, found, unrecorded, signalled>>
      BY <1>3 DEF Reap, signals
    <2> QED
      BY <1>a, <2>1
  <1>4. ASSUME NEW w \in Workers, ClaimName(w) PROVE Later
    BY <1>4, <1>a DEF ClaimName, Goes, signals
  <1>5. ASSUME NEW w \in Workers, CopyReproducer(w) \/ SaveFails(w) PROVE Later
    BY <1>5, <1>a DEF CopyReproducer, SaveFails, Goes, signals
  <1>6. ASSUME NEW w \in Workers, AddProgress(w) PROVE Later
    BY <1>6, <1>a DEF AddProgress, Goes, signals
  <1>7. ASSUME NEW w \in Workers, Boot(w) \/ Generate(w) PROVE Later
    BY <1>7, <1>a DEF Boot, ProcessStep, Generate, signals
  <1>8. ASSUME NEW w \in Workers, Wipe(w) \/ MakeDirectory(w) \/ Record(w) PROVE Later
    BY <1>8, <1>a DEF Wipe, MakeDirectory, Record, ProcessStep, signals
  <1>9. ASSUME NEW w \in Workers, Verify(w) PROVE Later
    <2>1. PICK bugs \in {0, 1} : /\ found' = found + bugs
                                 /\ failures' = failures \/ failures' = failures + 1
      BY <1>9 DEF Verify
    <2>2. (signalled => signalled') /\ UNCHANGED unrecorded
      BY <1>9 DEF Verify, signals
    <2>3. /\ failures' \in Nat /\ failures' >= failures
          /\ found' \in Nat /\ found' >= found
      BY <1>a, <2>1
    <2> QED
      BY <1>a, <2>2, <2>3
  <1>10. ASSUME NEW w \in Workers, Crash(w) PROVE Later
    BY <1>10, <1>a DEF Crash, Unrecorded, signals
  <1>11. ASSUME NEW w \in Workers, SignalProcess(w) PROVE Later
    BY <1>11, <1>a DEF SignalProcess, signals
  <1>12. ASSUME NEW t \in Threads, WriteTemp(t) \/ KeepTemp(t) PROVE Later
    BY <1>12, <1>a DEF WriteTemp, KeepTemp, Reported, signals
  <1>13. ASSUME NEW t \in Threads, ReportFails(t) PROVE Later
    BY <1>13, <1>a DEF ReportFails, Reported, signals
  <1>14. ASSUME ReportConsole \/ MainLoop \/ Join PROVE Later
    BY <1>14, <1>a DEF ReportConsole, Reported, MainLoop, Join, signals
  <1>15. ASSUME Signal PROVE Later
    <2>1. signalled'
      BY <1>15 DEF Signal
    <2>2. UNCHANGED <<failures, found, unrecorded>>
      BY <1>15 DEF Signal
    <2> QED
      BY <1>a, <2>1, <2>2
  <1>16. ASSUME Handler PROVE Later
    BY <1>16, <1>a DEF Handler, signals
  <1> QED
    BY <1>1, <1>2, <1>3, <1>4, <1>5, <1>6, <1>7, <1>8, <1>9, <1>10, <1>11, <1>12, <1>13,
       <1>14, <1>15, <1>16
    DEF Step, Work, Program, Report, Main

LEMMA Actors ==
  /\ \A w \in Workers : Acts(w) => Step
  /\ Step => MainActs \/ \E w \in Workers : Acts(w)
  BY DEF Step, Acts, MainActs, Threads

\* A step of one worker, its process or its report leaves the others alone.
LEMMA OthersStep ==
  ASSUME TypeOK, NEW w \in Workers, Acts(w)
  PROVE  \A v \in Workers \ {w} : Same(v)
  <1>a. /\ "main" \notin Workers /\ DOMAIN pc = Workers /\ DOMAIN process = Workers
        /\ DOMAIN directory = Workers /\ DOMAIN made = Workers /\ DOMAIN destination = Workers
    BY FuzzerAssumption DEF TypeOK, LoopOK, DiskOK
  <1> USE DEF Same, loop, disk
  <1>1. ASSUME CheckQuit(w) \/ Claim(w) \/ Start(w) \/ StartFails(w)
        PROVE  \A v \in Workers \ {w} : Same(v)
    BY <1>1, <1>a DEF CheckQuit, Claim, Claimed, Start, StartFails, Goes
  <1>2. ASSUME Reap(w) \/ ClaimName(w) \/ CopyReproducer(w) \/ SaveFails(w) \/ AddProgress(w)
        PROVE  \A v \in Workers \ {w} : Same(v)
    BY <1>2, <1>a DEF Reap, ClaimName, CopyReproducer, SaveFails, AddProgress, Goes
  <1>3. ASSUME Boot(w) \/ Wipe(w) \/ MakeDirectory(w) \/ Record(w) \/ Generate(w)
       PROVE  \A v \in Workers \ {w} : Same(v)
    BY <1>3, <1>a DEF Boot, Wipe, MakeDirectory, Record, Generate, ProcessStep
  <1>4. ASSUME Verify(w) PROVE \A v \in Workers \ {w} : Same(v)
    <2>1. PICK bugs \in {0, 1} :
            \/ directory' = [directory EXCEPT ![w].report = Progress(1, bugs)]
            \/ UNCHANGED directory
      BY <1>4 DEF Verify
    <2> QED
      BY <1>4, <1>a, <2>1 DEF Verify, ProcessStep
  <1>5. ASSUME Crash(w) \/ SignalProcess(w) PROVE \A v \in Workers \ {w} : Same(v)
    BY <1>5, <1>a DEF Crash, Unrecorded, SignalProcess, ProcessStep
  <1>6. ASSUME WriteTemp(w) \/ KeepTemp(w) \/ ReportFails(w)
        PROVE  \A v \in Workers \ {w} : Same(v)
    BY <1>6, <1>a DEF WriteTemp, KeepTemp, ReportFails, Reported
  <1> QED
    BY <1>1, <1>2, <1>3, <1>4, <1>5, <1>6 DEF Acts, Work, Program, Report

\* The main thread, a signal and a report of the main thread leave all alone.
LEMMA MainLeaves ==
  ASSUME TypeOK, MainActs
  PROVE  \A v \in Workers : Same(v)
  BY DEF Same, MainActs, Main, MainLoop, Join, ReportConsole, Signal, Handler, Report,
    WriteTemp, KeepTemp, ReportFails, Reported, loop, disk

\* The main thread and the run.
LEMMA MainPhaseStep ==
  ASSUME TypeOK, LockInv, PhaseInv, Running, Step
  PROVE  MainPhase'
  <1> USE DEF Running, Reporting, Undisturbed
  <1>a. /\ "main" \notin Workers /\ DOMAIN pc = Workers
        /\ remainingPrograms \in Int /\ quit \in BOOLEAN /\ failures \in Nat /\ MainPhase
    BY FuzzerAssumption DEF TypeOK, LoopOK, FlagsOK, PhaseInv
  <1>b. \A t \in Threads : temp[t] # NoReport => temp[t] = totalProgress /\ Reporting(t)
    BY DEF LockInv
  <1> USE DEF MainPhase
  <1>1. ASSUME NEW w \in Workers, CheckQuit(w) \/ Start(w) PROVE MainPhase'
    BY <1>1, <1>a, <1>b DEF CheckQuit, Goes, Start, report, loop, signals, flags,
      options
  <1>2. ASSUME NEW w \in Workers, Claim(w) PROVE MainPhase'
    BY <1>2, <1>a, <1>b DEF Claim, Claimed, Goes, report, loop, signals, flags, options
  <1>3. ASSUME NEW w \in Workers, StartFails(w) PROVE MainPhase'
    BY <1>3, <1>a, <1>b DEF StartFails, Goes, report, loop, signals, flags, options
  <1>4. ASSUME NEW w \in Workers, Reap(w) PROVE MainPhase'
    BY <1>4, <1>a, <1>b DEF Reap, Goes, report, loop, signals, flags, options
  <1>5. ASSUME NEW w \in Workers,
               ClaimName(w) \/ CopyReproducer(w) \/ SaveFails(w) \/ AddProgress(w)
       PROVE  MainPhase'
    BY <1>5, <1>a, <1>b DEF ClaimName, Goes, CopyReproducer, SaveFails, AddProgress,
      report, loop, signals, flags, options
  <1>6. ASSUME NEW w \in Workers,
               Boot(w) \/ Wipe(w) \/ MakeDirectory(w) \/ Record(w) \/ Generate(w)
       PROVE  MainPhase'
    BY <1>6, <1>a, <1>b DEF Boot, ProcessStep, Wipe, MakeDirectory, Record, Generate,
      report, loop, signals, flags, options
  <1>7. ASSUME NEW w \in Workers, Verify(w) PROVE MainPhase'
    <2>1. failures' \in Nat /\ failures' >= failures
      BY <1>7, HistoryStep DEF Later, Step, Program
    <2>2. UNCHANGED <<quit, interrupted, remainingPrograms, main, pc, jsonOutput, pending,
                      signalled, file, totalProgress>>
      BY <1>7 DEF Verify, report, loop, signals, flags, options
    <2> QED
      BY <1>a, <2>1, <2>2
  <1>8. ASSUME NEW w \in Workers, Crash(w) PROVE MainPhase'
    BY <1>8, <1>a, <1>b DEF Crash, Unrecorded, report, loop, signals, flags, options
  <1>9. ASSUME NEW w \in Workers, SignalProcess(w) PROVE MainPhase'
    BY <1>9, <1>a, <1>b DEF SignalProcess, report, loop, signals, flags, options
  <1>10. ASSUME NEW t \in Threads, WriteTemp(t) PROVE MainPhase'
    BY <1>10, <1>a, <1>b DEF WriteTemp, report, loop, signals, flags, options
  <1>11. ASSUME NEW t \in Threads, KeepTemp(t) PROVE MainPhase'
    BY <1>11, <1>a, <1>b DEF KeepTemp, Reported, report, loop, signals, flags, options
  <1>12. ASSUME NEW t \in Threads, ReportFails(t) PROVE MainPhase'
    BY <1>12, <1>a, <1>b DEF ReportFails, Reported, report, loop, signals, flags,
      options
  <1>13. ASSUME ReportConsole \/ MainLoop \/ Join PROVE MainPhase'
    BY <1>13, <1>a, <1>b DEF ReportConsole, Reported, MainLoop, Join, report, loop,
      signals, flags, options
  <1>14. ASSUME Signal PROVE MainPhase'
    BY <1>14, <1>a, <1>b DEF Signal, report, loop, signals, flags, options
  <1>15. ASSUME Handler PROVE MainPhase'
    BY <1>15, <1>a, <1>b DEF Handler, report, loop, signals, flags, options
  <1> QED
    BY <1>1, <1>2, <1>3, <1>4, <1>5, <1>6, <1>7, <1>8, <1>9, <1>10, <1>11, <1>12, <1>13,
       <1>14, <1>15
    DEF Step, Work, Program, Report, Main

\* The workers and their processes: only the one that takes a step matters.
LEMMA WorkerSame ==
  ASSUME TypeOK, NEW v \in Workers, WorkerPhase(v), Same(v), Later
  PROVE  WorkerPhase(v)'
  <1>1. Undisturbed' => Undisturbed
    BY DEF Later, Undisturbed, TypeOK, FlagsOK
  <1>2. failures > 0 => failures' > 0
    BY DEF Later, TypeOK, FlagsOK
  <1> QED
    BY <1>1, <1>2 DEF WorkerPhase, Same

\* The worker that takes a step.
LEMMA WorkerPhaseActs ==
  ASSUME TypeOK, LockInv, PhaseInv, Running, NEW w \in Workers, Acts(w)
  PROVE  WorkerPhase(w)'
  <1>a. /\ w # "main" /\ DOMAIN pc = Workers /\ DOMAIN process = Workers
        /\ DOMAIN directory = Workers /\ DOMAIN made = Workers
        /\ failures \in Nat /\ WorkerPhase(w)
    BY FuzzerAssumption DEF TypeOK, LoopOK, FlagsOK, DiskOK, PhaseInv
  <1>b. KeepTemp(w) \/ ReportFails(w) => pc[w] = "report"
    BY <1>a DEF KeepTemp, ReportFails, LockInv, Reporting, Threads
  <1> USE DEF WorkerPhase, Undisturbed
  <1>1. CASE CheckQuit(w)
    BY <1>1, <1>a DEF CheckQuit, Goes, report, loop, signals, flags, options, disk
  <1>2. CASE Claim(w)
    BY <1>2, <1>a DEF Claim, Claimed, Goes, report, loop, signals, flags, options, disk
  <1>3. CASE Start(w)
    BY <1>3, <1>a DEF Start, Goes, report, loop, signals, flags, options, disk
  <1>4. CASE StartFails(w)
    BY <1>4, <1>a DEF StartFails, Goes, report, loop, signals, flags, options, disk
  <1>5. CASE Reap(w)
    <2>1. Undisturbed => Outcome(w).programs = 1
      <3>1. SUFFICES ASSUME Undisturbed PROVE Outcome(w).programs = 1
        OBVIOUS
      <3>2. ~interrupted
        BY <3>1 DEF PhaseInv, MainPhase
      <3>3. CASE process[w] = "exit 0"
        <4>1. directory[w].report \in Reports
          BY DEF TypeOK, DiskOK
        <4>a. failures = 0
          BY <3>1
        <4>b. directory[w].report = NoReport => failures > 0
          BY <1>a, <3>3
        <4>2. directory[w].report # NoReport
          BY <4>a, <4>b
        <4>3. Outcome(w) = directory[w].report
          BY <3>3, <4>2 DEF Outcome
        <4> QED
          BY <4>1, <4>2, <4>3 DEF Reports, Progress
      <3>4. CASE process[w] # "exit 0"
        <4>1. Outcome(w) = Progress(1, 1)
          BY <3>2, <3>4 DEF Outcome
        <4> QED
          BY <4>1 DEF Progress
      <3> QED
        BY <3>3, <3>4
    <2> QED
      BY <1>5, <1>a, <2>1 DEF Reap, Goes, signals
  <1>6. CASE ClaimName(w)
    BY <1>6, <1>a DEF ClaimName, Goes, report, loop, signals, flags, options, disk
  <1>7. CASE CopyReproducer(w)
    BY <1>7, <1>a DEF CopyReproducer, Goes, report, loop, signals, flags, options, disk
  <1>s. CASE SaveFails(w)
    <2>a. failures \in Nat /\ failures' = failures + 1
      BY <1>s, <1>a DEF SaveFails
    <2>1. failures' \in Nat /\ failures' > 0
      BY <2>a
    <2>2. ~Undisturbed'
      BY <2>1 DEF Undisturbed
    <2>3. UNCHANGED <<pc, process, directory, made>>
      BY <1>s DEF SaveFails, loop, disk
    <2> QED
      BY <1>a, <2>1, <2>2, <2>3
  <1>8. CASE AddProgress(w)
    BY <1>8, <1>a DEF AddProgress, Goes, report, loop, signals, flags, options, disk
  <1>9. CASE Boot(w)
    BY <1>9, <1>a DEF Boot, ProcessStep, report, loop, signals, flags, options, disk
  <1>10. CASE Wipe(w) \/ MakeDirectory(w) \/ Record(w)
    <2>1. CASE Wipe(w)
      BY <2>1, <1>a DEF Wipe, ProcessStep, report, loop, signals, flags, options, disk
    <2>2. CASE MakeDirectory(w)
      BY <2>2, <1>a DEF MakeDirectory, ProcessStep, report, loop, signals, flags, options,
        disk
    <2>3. CASE Record(w)
      <3>1. /\ process[w] = "record" /\ process'[w] = "generate" /\ UNCHANGED <<pc, made>>
        BY <2>3, <1>a DEF Record, ProcessStep, loop
      <3>a. directory[w] \in [program : {"absent", "stale", "none", "current"}, report : Reports]
        BY DEF TypeOK, DiskOK
      <3>b. \/ directory' = [directory EXCEPT ![w].program = "current"]
            \/ directory' = directory
        BY <2>3 DEF Record
      <3>c. directory'[w].report = directory[w].report
        BY <1>a, <3>a, <3>b
      <3>2. pc[w] = "run" /\ directory[w].report = NoReport
        BY <1>a, <3>1
      <3> QED
        BY <3>1, <3>2, <3>c
    <2> QED
      BY <1>10, <2>1, <2>2, <2>3
  <1>11. CASE Generate(w)
    BY <1>11, <1>a DEF Generate, ProcessStep, report, loop, signals, flags, options,
      disk
  <1>12. CASE Verify(w)
    <2>1. PICK bugs \in {0, 1} :
            \/ directory' = [directory EXCEPT ![w].report = Progress(1, bugs)]
            \/ failures' = failures + 1
      BY <1>12 DEF Verify
    <2>2. Progress(1, bugs) # NoReport
      BY DEF Progress, NoReport
    <2>a. directory[w] \in [program : {"absent", "stale", "none", "current"}, report : Reports]
      BY DEF TypeOK, DiskOK
    <2>b. ASSUME directory' = [directory EXCEPT ![w].report = Progress(1, bugs)]
          PROVE  directory'[w].report = Progress(1, bugs)
      BY <1>a, <2>a, <2>b
    <2>c. failures' = failures + 1 => failures' > 0
      BY DEF TypeOK, FlagsOK
    <2>3. directory'[w].report = NoReport => failures' > 0
      BY <2>1, <2>2, <2>b, <2>c
    <2> QED
      BY <1>12, <1>a, <2>3 DEF Verify, ProcessStep, loop
  <1>13. CASE Crash(w)
    BY <1>13, <1>a DEF Crash, Unrecorded, report, loop, signals, flags, options, disk
  <1>14. CASE SignalProcess(w)
    BY <1>14, <1>a DEF SignalProcess, report, loop, signals, flags, options, disk
  <1>15. CASE WriteTemp(w)
    BY <1>15, <1>a DEF WriteTemp, report, loop, signals, flags, options, disk
  <1>16. CASE KeepTemp(w)
    BY <1>16, <1>a, <1>b DEF KeepTemp, Reported, report, loop, signals, flags, options,
      disk
  <1>17. CASE ReportFails(w)
    BY <1>17, <1>a, <1>b DEF ReportFails, Reported, report, loop, signals, flags,
      options, disk
  <1> QED
    BY <1>1, <1>2, <1>3, <1>4, <1>5, <1>6, <1>7, <1>s, <1>8, <1>9, <1>10, <1>11, <1>12,
      <1>13, <1>14, <1>15, <1>16, <1>17
    DEF Acts, Work, Program, Report

\* All of them.
LEMMA PhaseStep ==
  ASSUME TypeOK, LockInv, PhaseInv, Running, Step
  PROVE  PhaseInv'
  <1>1. Later /\ MainPhase'
    BY HistoryStep, MainPhaseStep
  <1>2. ASSUME NEW v \in Workers, Same(v) PROVE WorkerPhase(v)'
    BY <1>1, <1>2, WorkerSame DEF PhaseInv
  <1>3. CASE MainActs
    BY <1>1, <1>2, <1>3, MainLeaves DEF PhaseInv
  <1>4. ASSUME NEW w \in Workers, Acts(w) PROVE PhaseInv'
    <2>1. WorkerPhase(w)'
      BY <1>4, WorkerPhaseActs
    <2>2. \A v \in Workers \ {w} : WorkerPhase(v)'
      BY <1>2, <1>4, OthersStep
    <2> QED
      BY <1>1, <2>1, <2>2 DEF PhaseInv
  <1> QED
    BY <1>3, <1>4, Actors

\* How the sets of workers that are counted change with one worker.
LEMMA BusyStep ==
  ASSUME TypeOK, NEW w \in Workers, \A v \in Workers \ {w} : Same(v)
  PROVE  /\ Cardinality(Busy) \in Nat /\ Cardinality(Busy)' \in Nat
         /\ Cardinality(Busy)' = Cardinality(Busy) + Bit(pc'[w] \in InHand) - Bit(pc[w] \in InHand)
         /\ Cardinality(Unsaved) \in Nat /\ Cardinality(Unsaved)' \in Nat
         /\ Cardinality(Unsaved)' = Cardinality(Unsaved)
              + Bit(pc'[w] \in {"start", "run", "save"}) - Bit(pc[w] \in {"start", "run", "save"})
  <1>1. /\ Busy' \ {w} = Busy \ {w} /\ Unsaved' \ {w} = Unsaved \ {w}
        /\ w \in Busy <=> pc[w] \in InHand
        /\ w \in Busy' <=> pc'[w] \in InHand
        /\ w \in Unsaved <=> pc[w] \in {"start", "run", "save"}
        /\ w \in Unsaved' <=> pc'[w] \in {"start", "run", "save"}
    BY DEF Busy, Unsaved, Same
  <1>2. IsFiniteSet(Busy) /\ IsFiniteSet(Unsaved)
    BY WorkersFinite DEF Busy, Unsaved
  <1>3. /\ Cardinality(Busy) \in Nat /\ Cardinality(Busy') \in Nat
        /\ Cardinality(Busy') = Cardinality(Busy) + Bit(w \in Busy') - Bit(w \in Busy)
    BY <1>1, <1>2, OneDiffers
  <1>4. /\ Cardinality(Unsaved) \in Nat /\ Cardinality(Unsaved') \in Nat
        /\ Cardinality(Unsaved') = Cardinality(Unsaved) + Bit(w \in Unsaved') - Bit(w \in Unsaved)
    BY <1>1, <1>2, OneDiffers
  <1> QED
    BY <1>1, <1>3, <1>4 DEF Bit

\* Whatever a worker does, no program is lost or counted twice.
LEMMA CountActs ==
  ASSUME TypeOK, LockInv, PhaseInv, CountInv, Running, NEW w \in Workers, Acts(w)
  PROVE  CountInv'
  <1>a. /\ w # "main" /\ DOMAIN pc = Workers /\ remainingPrograms \in Int
        /\ totalProgress.programs \in Nat /\ NumPrograms \in Nat
    BY FuzzerAssumption DEF TypeOK, LoopOK, FlagsOK, ReportOK, Counts
  <1>b. Undisturbed' => Undisturbed
    BY Actors, HistoryStep DEF Later, Undisturbed, TypeOK, FlagsOK
  <1>c. /\ Cardinality(Busy) \in Nat /\ Cardinality(Busy)' \in Nat
        /\ Cardinality(Busy)' = Cardinality(Busy) + Bit(pc'[w] \in InHand) - Bit(pc[w] \in InHand)
    BY OthersStep, BusyStep
  <1>d. KeepTemp(w) \/ ReportFails(w) => pc[w] = "report"
    BY <1>a DEF KeepTemp, ReportFails, LockInv, Reporting, Threads
  <1>e. ASSUME UNCHANGED <<totalProgress, remainingPrograms>>,
               pc'[w] \in InHand <=> pc[w] \in InHand
        PROVE  CountInv'
    <2>1. Cardinality(Busy)' = Cardinality(Busy) /\ Left' = Left
      BY <1>c, <1>e DEF Bit, Left
    <2> QED
      BY <1>b, <1>e, <2>1 DEF CountInv
  <1>1. CASE CheckQuit(w) \/ Start(w) \/ StartFails(w)
    BY <1>1, <1>a, <1>e DEF CheckQuit, Goes, Start, StartFails, loop, report, flags,
      InHand
  <1>2. CASE Claim(w)
    <2>1. pc[w] = "claim" /\ UNCHANGED totalProgress
      BY <1>2 DEF Claim, Claimed, Goes, report
    <2>2. CASE remainingPrograms > 0
      <3>1. pc'[w] = "start" /\ remainingPrograms' = remainingPrograms - 1
        BY <1>2, <1>a, <2>2 DEF Claim, Claimed, Goes
      <3>2. Cardinality(Busy)' = Cardinality(Busy) + 1
        BY <1>c, <2>1, <3>1 DEF Bit, InHand
      <3>3. Left' = Left - 1 /\ Left \in Nat
        BY <1>a, <2>2, <3>1 DEF Left
      <3> QED
        BY <1>a, <1>b, <1>c, <2>1, <3>2, <3>3 DEF CountInv
    <2>3. CASE ~(remainingPrograms > 0)
      <3>1. pc'[w] = "finished" /\ remainingPrograms' = remainingPrograms - 1
        BY <1>2, <1>a, <2>3 DEF Claim, Claimed, Goes
      <3>2. Cardinality(Busy)' = Cardinality(Busy)
        BY <1>c, <2>1, <3>1 DEF Bit, InHand
      <3>3. Left' = Left
        BY <1>a, <2>3, <3>1 DEF Left
      <3> QED
        BY <1>b, <2>1, <3>2, <3>3 DEF CountInv
    <2> QED
      BY <2>2, <2>3
  <1>3. CASE Reap(w) \/ ClaimName(w) \/ CopyReproducer(w) \/ SaveFails(w)
    BY <1>3, <1>a, <1>e DEF Reap, Goes, ClaimName, CopyReproducer, SaveFails, loop,
      report, flags, InHand
  <1>4. CASE AddProgress(w)
    <2>1. pc[w] = "add" /\ pc'[w] \in {"report", "loop"} /\ UNCHANGED remainingPrograms
      BY <1>4, <1>a DEF AddProgress, Goes, flags
    <2>2. Cardinality(Busy)' = Cardinality(Busy) - 1
      BY <1>c, <2>1 DEF Bit, InHand
    <2>3. made[w].programs \in {0, 1} /\ (Undisturbed => made[w].programs = 1)
      BY <2>1, MadeLemma DEF TypeOK, PhaseInv, WorkerPhase
    <2>4. totalProgress'.programs = totalProgress.programs + made[w].programs
      BY <1>4 DEF AddProgress, Progress
    <2>5. Left' = Left /\ Left \in Nat
      BY <1>a, <2>1 DEF Left
    <2> QED
      BY <1>a, <1>b, <1>c, <2>2, <2>3, <2>4, <2>5 DEF CountInv
  <1>5. CASE Boot(w) \/ Wipe(w) \/ MakeDirectory(w) \/ Record(w) \/ Generate(w) \/ Verify(w)
    BY <1>5, <1>a, <1>e DEF Boot, ProcessStep, Wipe, MakeDirectory, Record, Generate,
      Verify, loop, report, flags, InHand
  <1>6. CASE Crash(w) \/ SignalProcess(w) \/ WriteTemp(w)
    BY <1>6, <1>a, <1>e DEF Crash, Unrecorded, SignalProcess, WriteTemp, loop, report,
      flags, InHand
  <1>7. CASE KeepTemp(w) \/ ReportFails(w)
    BY <1>7, <1>a, <1>e, <1>d DEF KeepTemp, Reported, ReportFails, loop, report, flags,
      InHand
  <1> QED
    BY <1>1, <1>2, <1>3, <1>4, <1>5, <1>6, <1>7
    DEF Acts, Work, Program, Report

\* There stays a name for every reproducer.
LEMMA RoomActs ==
  ASSUME TypeOK, LockInv, NamesInv, Running, NEW w \in Workers, Acts(w)
  PROVE  Room'
  <1>a. /\ w # "main" /\ DOMAIN pc = Workers /\ remainingPrograms \in Int
        /\ Names = 0 .. NumPrograms /\ NumPrograms \in Nat
    BY FuzzerAssumption DEF TypeOK, LoopOK, FlagsOK, DiskOK, Names
  <1>b. IsFiniteSet(Used) /\ Cardinality(Used) \in Nat
    BY <1>a, InIntervalFinite DEF Used
  <1>c. /\ Cardinality(Unsaved) \in Nat /\ Cardinality(Unsaved)' \in Nat
        /\ Cardinality(Unsaved)' = Cardinality(Unsaved)
             + Bit(pc'[w] \in {"start", "run", "save"}) - Bit(pc[w] \in {"start", "run", "save"})
    BY OthersStep, BusyStep
  <1>d. KeepTemp(w) \/ ReportFails(w) => pc[w] = "report"
    BY <1>a DEF KeepTemp, ReportFails, LockInv, Reporting, Threads
  <1>e. ASSUME UNCHANGED <<bug, remainingPrograms>>,
               pc'[w] \in {"start", "run", "save"} => pc[w] \in {"start", "run", "save"}
        PROVE  Room'
    <2>1. Cardinality(Used)' = Cardinality(Used)
      BY <1>e DEF Used, Names
    <2>2. Left' = Left /\ Left \in Nat
      BY <1>a, <1>e DEF Left
    <2>3. Cardinality(Unsaved)' <= Cardinality(Unsaved)
      BY <1>c, <1>e DEF Bit
    <2> QED
      BY <1>a, <1>b, <1>c, <2>1, <2>2, <2>3 DEF NamesInv, Room
  <1>1. CASE CheckQuit(w) \/ Start(w)
    BY <1>1, <1>a, <1>e DEF CheckQuit, Goes, Start, loop, disk, flags
  <1>2. CASE Claim(w)
    <2>1. pc[w] = "claim" /\ UNCHANGED bug
      BY <1>2 DEF Claim, Claimed, Goes, disk
    <2>2. Cardinality(Used)' = Cardinality(Used)
      BY <2>1 DEF Used, Names
    <2>3. CASE remainingPrograms > 0
      <3>1. pc'[w] = "start" /\ remainingPrograms' = remainingPrograms - 1
        BY <1>2, <1>a, <2>3 DEF Claim, Claimed, Goes
      <3>2. Cardinality(Unsaved)' = Cardinality(Unsaved) + 1
        BY <1>c, <2>1, <3>1 DEF Bit
      <3>3. Left' = Left - 1 /\ Left \in Nat
        BY <1>a, <2>3, <3>1 DEF Left
      <3> QED
        BY <1>a, <1>b, <1>c, <2>2, <3>2, <3>3 DEF NamesInv, Room
    <2>4. CASE ~(remainingPrograms > 0)
      <3>1. pc'[w] = "finished" /\ remainingPrograms' = remainingPrograms - 1
        BY <1>2, <1>a, <2>4 DEF Claim, Claimed, Goes
      <3>2. Cardinality(Unsaved)' = Cardinality(Unsaved)
        BY <1>c, <2>1, <3>1 DEF Bit
      <3>3. Left' = Left
        BY <1>a, <2>4, <3>1 DEF Left
      <3> QED
        BY <2>2, <3>2, <3>3 DEF NamesInv, Room
    <2> QED
      BY <2>3, <2>4
  <1>3. CASE StartFails(w) \/ Reap(w)
    BY <1>3, <1>a, <1>e DEF StartFails, Goes, Reap, loop, disk, flags
  <1>4. CASE ClaimName(w)
    <2>1. pc[w] = "save" /\ pc'[w] = "copy" /\ UNCHANGED remainingPrograms
      BY <1>4, <1>a DEF ClaimName, Goes, flags
    <2>2. FreeName \in 0 .. NumPrograms /\ bug[FreeName] = "free"
      BY <2>1, FreeNameLemma
    <2>3. bug' = [bug EXCEPT ![FreeName] = "empty"]
      BY <1>4 DEF ClaimName
    <2>4. /\ Used' \ {FreeName} = Used \ {FreeName} /\ FreeName \notin Used /\ FreeName \in Used'
      BY <1>a, <2>2, <2>3 DEF Used, Names
    <2>5. Cardinality(Used') = Cardinality(Used) + 1
      BY <1>b, <2>4, OneDiffers DEF Bit
    <2>6. Cardinality(Unsaved)' = Cardinality(Unsaved) - 1
      BY <1>c, <2>1 DEF Bit
    <2>7. Left' = Left /\ Left \in Nat
      BY <1>a, <2>1 DEF Left
    <2> QED
      BY <1>a, <1>b, <1>c, <2>5, <2>6, <2>7 DEF NamesInv, Room
  <1>5. CASE CopyReproducer(w)
    <2>1. pc[w] = "copy" /\ pc'[w] = "add" /\ UNCHANGED remainingPrograms
      BY <1>5, <1>a DEF CopyReproducer, Goes, flags
    <2>2. bug[destination[w]] = "empty" /\ destination[w] \in 0 .. NumPrograms
      BY <2>1 DEF NamesInv, Apart, TypeOK, LoopOK
    <2>3. directory[w].program # "free"
      BY DEF TypeOK, DiskOK
    <2>4. UNCHANGED bug \/ bug' = [bug EXCEPT ![destination[w]] = directory[w].program]
      BY <1>5 DEF CopyReproducer
    <2>5. Used' = Used
      BY <1>a, <2>2, <2>3, <2>4 DEF Used, Names
    <2>6. Cardinality(Unsaved)' = Cardinality(Unsaved)
      BY <1>c, <2>1 DEF Bit
    <2>7. Left' = Left
      BY <1>a, <2>1 DEF Left
    <2> QED
      BY <2>5, <2>6, <2>7 DEF NamesInv, Room
  <1>6. CASE AddProgress(w) \/ SaveFails(w)
    BY <1>6, <1>a, <1>e DEF AddProgress, SaveFails, Goes, loop, disk, flags
  <1>7. CASE Boot(w) \/ Wipe(w) \/ MakeDirectory(w) \/ Record(w) \/ Generate(w) \/ Verify(w)
    BY <1>7, <1>a, <1>e DEF Boot, ProcessStep, Wipe, MakeDirectory, Record, Generate,
      Verify, loop, disk, flags
  <1>8. CASE Crash(w) \/ SignalProcess(w) \/ WriteTemp(w)
    BY <1>8, <1>a, <1>e DEF Crash, Unrecorded, SignalProcess, WriteTemp, loop, disk,
      flags
  <1>9. CASE KeepTemp(w) \/ ReportFails(w)
    BY <1>9, <1>a, <1>e, <1>d DEF KeepTemp, Reported, ReportFails, loop, disk, flags
  <1> QED
    BY <1>1, <1>2, <1>3, <1>4, <1>5, <1>6, <1>7, <1>8, <1>9
    DEF Acts, Work, Program, Report

\* No two workers copy to the same name.
LEMMA ApartActs ==
  ASSUME TypeOK, LockInv, NamesInv, Running, NEW w \in Workers, Acts(w)
  PROVE  Apart'
  <1>a. /\ w # "main" /\ DOMAIN pc = Workers /\ DOMAIN destination = Workers
        /\ DOMAIN bug = 0 .. NumPrograms /\ destination \in [Workers -> 0 .. NumPrograms]
    BY FuzzerAssumption DEF TypeOK, LoopOK, DiskOK
  <1>b. \A v \in Workers \ {w} : pc'[v] = pc[v] /\ destination'[v] = destination[v]
    BY OthersStep DEF Same
  <1>c. KeepTemp(w) \/ ReportFails(w) => pc[w] = "report"
    BY <1>a DEF KeepTemp, ReportFails, LockInv, Reporting, Threads
  <1>d. ASSUME UNCHANGED <<bug, destination>>, pc'[w] = "copy" => pc[w] = "copy" PROVE Apart'
    BY <1>b, <1>d DEF NamesInv, Apart
  <1>1. CASE CheckQuit(w) \/ Claim(w)
    BY <1>1, <1>a, <1>d DEF CheckQuit, Goes, Claim, Claimed, loop, disk
  <1>2. CASE Start(w) \/ StartFails(w)
    BY <1>2, <1>a, <1>d DEF Start, Goes, StartFails, loop, disk
  <1>3. CASE Reap(w)
    BY <1>3, <1>a, <1>d DEF Reap, Goes, loop, disk
  <1>4. CASE ClaimName(w)
    <2>1. pc[w] = "save" /\ pc'[w] = "copy" /\ destination'[w] = FreeName
      BY <1>4, <1>a DEF ClaimName, Goes
    <2>2. FreeName \in 0 .. NumPrograms /\ bug[FreeName] = "free"
      BY <2>1, FreeNameLemma
    <2>3. bug' = [bug EXCEPT ![FreeName] = "empty"]
      BY <1>4 DEF ClaimName
    <2>4. \A v \in Workers \ {w} : pc[v] = "copy" => destination[v] # FreeName
      BY <2>2 DEF NamesInv, Apart
    <2> QED
      BY <1>a, <1>b, <2>1, <2>2, <2>3, <2>4 DEF NamesInv, Apart
  <1>5. CASE CopyReproducer(w)
    <2>1. pc[w] = "copy" /\ pc'[w] = "add" /\ UNCHANGED destination
      BY <1>5, <1>a DEF CopyReproducer, Goes
    <2>2. UNCHANGED bug \/ bug' = [bug EXCEPT ![destination[w]] = directory[w].program]
      BY <1>5 DEF CopyReproducer
    <2>3. \A v \in Workers : pc'[v] = "copy" => pc[v] = "copy" /\ v # w
      BY <1>b, <2>1
    <2>4. \A v \in Workers : pc'[v] = "copy" => bug[destination[v]] = "empty"
                                              /\ destination[v] # destination[w]
      BY <2>1, <2>3 DEF NamesInv, Apart
    <2>5. \A v \in Workers : pc'[v] = "copy" => bug'[destination[v]] = "empty"
      BY <1>a, <2>2, <2>4
    <2> QED
      BY <2>1, <2>3, <2>5 DEF NamesInv, Apart
  <1>6. CASE AddProgress(w) \/ SaveFails(w)
    BY <1>6, <1>a, <1>d DEF AddProgress, SaveFails, Goes, loop, disk
  <1>7. CASE Boot(w) \/ Wipe(w) \/ MakeDirectory(w) \/ Record(w) \/ Generate(w) \/ Verify(w)
    BY <1>7, <1>a, <1>d DEF Boot, ProcessStep, Wipe, MakeDirectory, Record, Generate,
      Verify, loop, disk
  <1>8. CASE Crash(w) \/ SignalProcess(w) \/ WriteTemp(w)
    BY <1>8, <1>a, <1>d DEF Crash, Unrecorded, SignalProcess, WriteTemp, loop, disk
  <1>9. CASE KeepTemp(w) \/ ReportFails(w)
    BY <1>9, <1>a, <1>d, <1>c DEF KeepTemp, Reported, ReportFails, loop, disk
  <1> QED
    BY <1>1, <1>2, <1>3, <1>4, <1>5, <1>6, <1>7, <1>8, <1>9
    DEF Acts, Work, Program, Report

\* The main thread takes no part in this.
LEMMA MainCounts ==
  ASSUME TypeOK, CountInv, NamesInv, MainActs, Later
  PROVE  CountInv' /\ NamesInv'
  <1>1. \A v \in Workers : pc'[v] = pc[v] /\ destination'[v] = destination[v]
    BY MainLeaves DEF Same
  <1>2. UNCHANGED <<bug, remainingPrograms, totalProgress>>
    BY DEF MainActs, Main, MainLoop, Join, ReportConsole, Signal, Handler, Report, WriteTemp,
       KeepTemp, ReportFails, disk, flags, report
  <1>3. Busy' = Busy /\ Unsaved' = Unsaved /\ Used' = Used /\ Left' = Left
    BY <1>1, <1>2 DEF Busy, Unsaved, Used, Names, Left
  <1>4. Undisturbed' => Undisturbed
    BY DEF Later, Undisturbed, TypeOK, FlagsOK
  <1>5. CountInv' /\ Room'
    BY <1>2, <1>3, <1>4 DEF CountInv, NamesInv, Room
  <1>6. Apart'
    BY <1>1, <1>2 DEF NamesInv, Apart
  <1> QED
    BY <1>5, <1>6 DEF NamesInv

-----------------------------------------------------------------------------
(* The invariant holds.                                                    *)

LEMMA IInvInit == Init => IInv
  <1> SUFFICES ASSUME Init PROVE IInv
    OBVIOUS
  <1> USE DEF Init, Nothing, NoReport, Progress, Free
  <1>e. FlagsOK
    <2>1. /\ singleProcess \in BOOLEAN /\ jsonOutput \in BOOLEAN /\ quit \in BOOLEAN
          /\ interrupted \in BOOLEAN /\ signalled \in BOOLEAN /\ pending \subseteq Threads
      OBVIOUS
    <2>2. remainingPrograms \in Int /\ failures \in Nat /\ found \in Nat /\ main = "loop"
      BY FuzzerAssumption
    <2> QED
      BY <2>1, <2>2 DEF FlagsOK
  <1>f. 0 \in 0 .. NumPrograms
    BY FuzzerAssumption
  <1>1. FlagsOK /\ LoopOK
    BY <1>e, <1>f DEF LoopOK
  <1>a. bug \in [0 .. NumPrograms -> {"free", "empty", "stale", "none", "current"}]
    OBVIOUS
  <1>b. ReportOK
    BY DEF ReportOK, Counts, Threads
  <1>c. PICK left \in {[program |-> "absent", report |-> NoReport],
                       [program |-> "stale", report |-> Progress(1, 0)]} :
          directory = [w \in Workers |-> left]
    OBVIOUS
  <1>d. left \in [program : {"absent", "stale", "none", "current"}, report : Reports]
    BY DEF Reports
  <1>2. DiskOK /\ ReportOK
    BY <1>a, <1>b, <1>c, <1>d DEF DiskOK
  <1>3. LockInv
    BY DEF LockInv
  <1>4. PhaseInv
    BY FuzzerAssumption DEF PhaseInv, MainPhase, WorkerPhase, Undisturbed
  <1>5. Busy = {} /\ Unsaved = {} /\ Used \subseteq {0}
    BY DEF Busy, Unsaved, Used, Names, InHand
  <1>6. CountInv
    BY <1>5, FuzzerAssumption, FS_EmptySet DEF CountInv, Left
  <1>7. Apart
    BY DEF Apart
  <1>8. Cardinality({0}) = 1 /\ IsFiniteSet({0})
    BY FS_Singleton
  <1>9. Cardinality(Used) <= 1 /\ Cardinality(Used) \in Nat
    BY <1>5, <1>8, FS_Subset, FS_CardinalityType
  <1>10. Room
    BY <1>5, <1>9, FuzzerAssumption, FS_EmptySet DEF Room, Left
  <1> QED
    BY <1>1, <1>2, <1>3, <1>4, <1>6, <1>7, <1>10 DEF IInv, TypeOK, NamesInv

LEMMA IInvStep == IInv /\ [Next]_vars => IInv'
  <1> SUFFICES ASSUME IInv, [Next]_vars PROVE IInv'
    OBVIOUS
  <1>1. TypeOK /\ LockInv /\ PhaseInv /\ CountInv /\ NamesInv
    BY DEF IInv
  <1>2. ASSUME Running, Step PROVE IInv'
    <2>1. TypeOK'
      BY <1>1, <1>2, FlagsStep, LoopStep, DiskStep, ReportStep DEF TypeOK
    <2>2. LockInv' /\ PhaseInv'
      BY <1>1, <1>2, LockStep, PhaseStep
    <2>3. CountInv' /\ NamesInv'
      BY <1>1, <1>2, Actors, HistoryStep, MainCounts, CountActs, RoomActs, ApartActs DEF
        NamesInv
    <2> QED
      BY <2>1, <2>2, <2>3 DEF IInv
  <1>3. ASSUME UNCHANGED vars PROVE IInv'
    <2> USE <1>3 DEF vars, options, flags, loop, disk, report, signals
    <2>1. TypeOK'
      BY <1>1 DEF TypeOK, FlagsOK, LoopOK, DiskOK, ReportOK
    <2>2. LockInv' /\ PhaseInv'
      BY <1>1 DEF LockInv, Running, Reporting, PhaseInv, MainPhase, WorkerPhase, Undisturbed
    <2>3. CountInv' /\ NamesInv'
      BY <1>1 DEF CountInv, Busy, Left, Undisturbed, NamesInv, Room, Apart, Used,
        Unsaved, Names
    <2> QED
      BY <2>1, <2>2, <2>3 DEF IInv
  <1> QED
    BY <1>2, <1>3 DEF Next

\* Every reachable state of the fuzzer satisfies the invariant: the lock covers
\* the sample it was taken for, every program is accounted for, and there is a
\* name for every reproducer.
THEOREM FuzzerInvariance == Spec => []IInv
  BY IInvInit, IInvStep, PTL DEF Spec

\* A run with a limit that nothing disturbs verifies exactly the programs asked
\* for, and its report says so (ExactCount), for any number of workers.
THEOREM CountIsExact == Spec => []ExactCount
  <1>1. IInv => ExactCount
    <2> SUFFICES ASSUME IInv PROVE ExactCount
      OBVIOUS
    <2>1. /\ Cardinality(Busy) \in Nat /\ Left \in Nat /\ totalProgress.programs \in Nat
          /\ NumPrograms \in Nat
      BY WorkersFinite, FuzzerAssumption
      DEF IInv, TypeOK, FlagsOK, ReportOK, Counts, Busy, Left
    <2>2. totalProgress.programs <= NumPrograms
      BY <2>1 DEF IInv, CountInv
    <2>3. ASSUME main = "exited", ~signalled, failures = 0
          PROVE  totalProgress.programs = NumPrograms /\ (jsonOutput => file = totalProgress)
      <3>a. Undisturbed /\ quit /\ (jsonOutput => file = totalProgress)
        BY <2>3 DEF Undisturbed, IInv, PhaseInv, MainPhase
      <3>b. remainingPrograms <= 0 /\ remainingPrograms \in Int
        BY <3>a DEF IInv, PhaseInv, MainPhase, TypeOK, FlagsOK
      <3>1. Undisturbed /\ Left = 0 /\ (jsonOutput => file = totalProgress)
        BY <3>a, <3>b DEF Left
      <3>2. Busy = {}
        BY <2>3 DEF IInv, PhaseInv, MainPhase, Busy, InHand
      <3>3. Cardinality(Busy) = 0
        BY <3>2, FS_EmptySet
      <3> QED
        BY <2>1, <3>1, <3>3 DEF IInv, CountInv
    <2> QED
      BY <2>2, <2>3 DEF ExactCount
  <1> QED
    BY <1>1, FuzzerInvariance, PTL

\* The report file never goes back to an older sample (ReportAdvances), however
\* many threads write it.
THEOREM ReportNeverGoesBack == Spec => ReportAdvances
  <1> DEFINE A == file' # file => /\ file'.programs >= file.programs /\ file'.bugs >= file.bugs
                                  /\ file' = totalProgress
  <1>1. IInv /\ [Next]_vars => [A]_vars
    <2> SUFFICES ASSUME IInv, Next, file' # file PROVE A
      BY DEF vars, report
    <2>1. Step
      BY DEF Next, vars, report
    <2>2. PICK t \in Threads : KeepTemp(t)
      BY <2>1 DEF Step, Work, Program, Report, Main, CheckQuit, Claim, Claimed, Start,
         StartFails, Reap, ClaimName, CopyReproducer, SaveFails, AddProgress, Boot,
         Wipe, MakeDirectory, Record, Generate, Verify, Crash, Unrecorded,
         SignalProcess, WriteTemp, ReportFails, ReportConsole, MainLoop, Join, Signal,
         Handler, report
    <2>3. file' = totalProgress
      BY <2>2 DEF KeepTemp, IInv, LockInv
    <2>4. /\ file.programs \in Int /\ file.bugs \in Int
          /\ totalProgress.programs \in Nat /\ totalProgress.bugs \in Nat
      BY DEF IInv, TypeOK, ReportOK, Counts, NoReport, Progress
    <2>5. file.programs <= totalProgress.programs /\ file.bugs <= totalProgress.bugs
      BY DEF IInv, LockInv
    <2> QED
      BY <2>3, <2>4, <2>5
  <1> QED
    BY <1>1, FuzzerInvariance, PTL DEF Spec, ReportAdvances
-----------------------------------------------------------------------------
(* Bugs and their reproducers, when the handler runs first.                *)

\* With HandlerFirst, a process is only found dead without a signal if the
\* program crashed, so what comes of it is a bug exactly if one was found.
LEMMA ReapLemma ==
  ASSUME HandlerFirst, TypeOK, LockInv, PhaseInv, RecordInv, NEW w \in Workers, Reap(w)
  PROVE  /\ Outcome(w).bugs \in {0, 1} /\ made'[w] = Outcome(w) /\ process'[w] = "none"
         /\ UNCHANGED <<directory, signalled, unrecorded>>
         /\ pc'[w] = IF Outcome(w).bugs = 1 THEN "save" ELSE "add"
         /\ Outcome(w).bugs = 1 => (Recorded(w) \/ unrecorded > 0) /\ IsGuilty(w)
         /\ Outcome(w).bugs = 1 /\ process[w] = "dead" => ~signalled
  <1>1. /\ DOMAIN pc = Workers /\ DOMAIN made = Workers /\ DOMAIN process = Workers
        /\ Outcome(w).bugs \in {0, 1}
    BY OutcomeLemma DEF TypeOK, LoopOK
  <1>a. UNCHANGED <<directory, signalled, unrecorded>>
    BY DEF Reap, disk, signals
  <1>b. pc'[w] = IF Outcome(w).bugs # 0 THEN "save" ELSE "add"
    BY <1>1 DEF Reap, Goes
  <1>c. made'[w] = Outcome(w) /\ process'[w] = "none"
    BY <1>1 DEF Reap
  <1>2. /\ made'[w] = Outcome(w) /\ process'[w] = "none"
        /\ UNCHANGED <<directory, signalled, unrecorded>>
        /\ pc'[w] = IF Outcome(w).bugs = 1 THEN "save" ELSE "add"
    BY <1>1, <1>a, <1>b, <1>c
  <1>3. RecordPhase(w) /\ directory[w].report \in Reports
    BY DEF RecordInv, TypeOK, DiskOK
  <1>4. CASE process[w] = "exit 0"
    <2>1. Outcome(w) = IF directory[w].report # NoReport THEN directory[w].report ELSE Nothing
      BY <1>4 DEF Outcome
    <2>2. Outcome(w) \in {Nothing, Progress(1, 0), Progress(1, 1)}
      BY <1>3, <2>1 DEF Reports
    <2>3. Outcome(w).bugs = 1 => Outcome(w) = Progress(1, 1)
      BY <2>2 DEF Nothing, Progress
    <2>4. Nothing # Progress(1, 1)
      BY DEF Nothing, Progress
    <2>5. Outcome(w).bugs = 1 => directory[w].report = Progress(1, 1)
      BY <2>1, <2>3, <2>4
    <2> QED
      BY <1>1, <1>2, <1>3, <1>4, <2>5 DEF RecordPhase, Recorded, IsGuilty
  <1>5. CASE process[w] = "dead"
    <2>1. Outcome(w).bugs = 1 => ~interrupted
      BY <1>5 DEF Outcome, Nothing, Progress
    <2>2. "main" \notin pending
      BY DEF Reap
    <2>3. Outcome(w).bugs = 1 => ~signalled
      BY <2>1, <2>2 DEF PhaseInv, MainPhase
    <2> QED
      BY <1>1, <1>2, <1>3, <1>5, <2>3 DEF RecordPhase, IsGuilty
  <1> QED
    BY <1>4, <1>5 DEF Reap

\* A program is recorded in its directory before it can crash, and stays there
\* until it is saved.
LEMMA RecordActs ==
  ASSUME HandlerFirst, TypeOK, LockInv, PhaseInv, RecordInv, Running, NEW w \in Workers, Acts(w)
  PROVE  RecordPhase(w)'
  <1>a. /\ w # "main" /\ DOMAIN pc = Workers /\ DOMAIN process = Workers
        /\ DOMAIN directory = Workers /\ DOMAIN made = Workers
        /\ RecordPhase(w) /\ (pc[w] = "run" <=> process[w] # "none")
        /\ directory[w] \in [program : {"absent", "stale", "none", "current"}, report : Reports]
    BY FuzzerAssumption DEF TypeOK, LoopOK, DiskOK, RecordInv, PhaseInv, WorkerPhase
  <1>b. KeepTemp(w) \/ ReportFails(w) => pc[w] = "report"
    BY <1>a DEF KeepTemp, ReportFails, LockInv, Reporting, Threads
  <1> USE DEF RecordPhase, Recorded
  <1>1. CASE CheckQuit(w) \/ Claim(w)
    BY <1>1, <1>a DEF CheckQuit, Goes, Claim, Claimed, loop, disk, signals, Nothing,
      Progress
  <1>2. CASE Start(w)
    BY <1>2, <1>a DEF Start, Goes, loop, disk, signals, Nothing, Progress
  <1>3. CASE StartFails(w)
    BY <1>3, <1>a DEF StartFails, Goes, loop, disk, signals, Nothing, Progress
  <1>4. CASE Reap(w)
    BY <1>4, <1>a, ReapLemma
  <1>5. CASE ClaimName(w)
    BY <1>5, <1>a DEF ClaimName, Goes, loop, disk, signals, Nothing, Progress
  <1>6. CASE CopyReproducer(w) \/ SaveFails(w)
    BY <1>6, <1>a DEF CopyReproducer, SaveFails, Goes, loop, disk, signals, Nothing, Progress
  <1>7. CASE AddProgress(w)
    BY <1>7, <1>a DEF AddProgress, Goes, loop, disk, signals, Nothing, Progress
  <1>8. CASE Boot(w)
    BY <1>8, <1>a DEF Boot, ProcessStep, loop, disk, signals, Nothing, Progress
  <1>9. CASE Wipe(w) \/ MakeDirectory(w) \/ Record(w)
    BY <1>9, <1>a DEF Wipe, MakeDirectory, Record, ProcessStep, loop, disk, signals,
      Nothing, Progress
  <1>10. CASE Generate(w)
    BY <1>10, <1>a DEF Generate, ProcessStep, loop, disk, signals, Nothing, Progress
  <1>11. CASE Verify(w)
    BY <1>11, <1>a DEF Verify, ProcessStep, loop, disk, signals, Nothing, Progress
  <1>12. CASE Crash(w)
    <2>1. unrecorded \in Nat
      BY DEF TypeOK, FlagsOK
    <2>2. CASE process[w] \in Unrecorded
      <3>1. unrecorded' > 0
        BY <1>12, <2>1, <2>2 DEF Crash
      <3> QED
        BY <1>12, <1>a, <2>2, <3>1 DEF Crash, Unrecorded, loop, signals, Nothing, Progress
    <2>3. CASE process[w] \in {"generate", "verify"}
      BY <1>12, <1>a, <2>1, <2>3 DEF Crash, Unrecorded, loop, signals, Nothing, Progress
    <2> QED
      BY <1>12, <2>2, <2>3 DEF Crash
  <1>13. CASE SignalProcess(w)
    <2>1. signalled /\ signalled'
      BY <1>13 DEF SignalProcess, RecordInv
    <2> QED
      BY <1>13, <1>a, <2>1 DEF SignalProcess, loop, disk
  <1>14. CASE WriteTemp(w)
    BY <1>14, <1>a DEF WriteTemp, loop, disk, signals, Nothing, Progress
  <1>15. CASE KeepTemp(w) \/ ReportFails(w)
    BY <1>15, <1>a, <1>b DEF KeepTemp, Reported, ReportFails, loop, disk, signals,
      Nothing, Progress
  <1> QED
    BY <1>1, <1>2, <1>3, <1>4, <1>5, <1>6, <1>7, <1>8, <1>9, <1>10, <1>11, <1>12, <1>13,
       <1>14, <1>15
    DEF Acts, Work, Program, Report

\* How the workers with a bug in hand change with one worker.
LEMMA GuiltyStep ==
  ASSUME TypeOK, NEW w \in Workers, Acts(w)
  PROVE  /\ Cardinality(Guilty) \in Nat /\ Cardinality(Guilty)' \in Nat
         /\ Cardinality(Guilty)' = Cardinality(Guilty) + Bit(IsGuilty(w)') - Bit(IsGuilty(w))
         /\ Cardinality(Excused) \in Nat /\ Cardinality(Excused)' \in Nat
         /\ Cardinality(Excused)' = Cardinality(Excused) + Bit(IsExcused(w)') - Bit(IsExcused(w))
  <1>1. signalled' = signalled
    BY DEF Acts, Work, Program, Report, CheckQuit, Claim, Claimed, Start, StartFails, Reap,
       ClaimName, CopyReproducer, SaveFails, AddProgress, Boot, Wipe, MakeDirectory,
       Record, Generate, Verify, Crash, Unrecorded, SignalProcess, WriteTemp, KeepTemp,
       ReportFails, signals
  <1>2. \A v \in Workers \ {w} : (IsGuilty(v)' <=> IsGuilty(v)) /\ (IsExcused(v)' <=> IsExcused(v))
    BY <1>1, OthersStep DEF Same, IsGuilty, IsExcused
  <1>3. /\ Guilty' \ {w} = Guilty \ {w} /\ Excused' \ {w} = Excused \ {w}
        /\ w \in Guilty <=> IsGuilty(w)
        /\ w \in Guilty' <=> IsGuilty(w)'
        /\ w \in Excused <=> IsExcused(w)
        /\ w \in Excused' <=> IsExcused(w)'
    BY <1>2 DEF Guilty, Excused
  <1>4. IsFiniteSet(Guilty) /\ IsFiniteSet(Excused)
    BY WorkersFinite DEF Guilty, Excused
  <1>5. /\ Cardinality(Guilty) \in Nat /\ Cardinality(Guilty') \in Nat
        /\ Cardinality(Guilty') = Cardinality(Guilty) + Bit(w \in Guilty') - Bit(w \in Guilty)
    BY <1>3, <1>4, OneDiffers
  <1>6. /\ Cardinality(Excused) \in Nat /\ Cardinality(Excused') \in Nat
        /\ Cardinality(Excused') = Cardinality(Excused) + Bit(w \in Excused') - Bit(w \in Excused)
    BY <1>3, <1>4, OneDiffers
  <1> QED
    BY <1>3, <1>5, <1>6 DEF Bit

\* A bug is in the total only after it was found.
LEMMA FoundActs ==
  ASSUME HandlerFirst, TypeOK, LockInv, PhaseInv, RecordInv, FoundInv, Running,
         NEW w \in Workers, Acts(w)
  PROVE  FoundInv'
  <1>a. /\ w # "main" /\ DOMAIN pc = Workers /\ DOMAIN process = Workers
        /\ DOMAIN directory = Workers /\ DOMAIN made = Workers
        /\ pc[w] = "run" <=> process[w] # "none"
    BY FuzzerAssumption DEF TypeOK, LoopOK, DiskOK, PhaseInv, WorkerPhase
  <1>b. /\ found \in Nat /\ found' \in Nat /\ found' >= found /\ totalProgress.bugs \in Nat
    BY Actors, HistoryStep DEF Later, TypeOK, FlagsOK, ReportOK, Counts
  <1>c. /\ Cardinality(Guilty) \in Nat /\ Cardinality(Guilty)' \in Nat
        /\ Cardinality(Guilty)' = Cardinality(Guilty) + Bit(IsGuilty(w)') - Bit(IsGuilty(w))
    BY GuiltyStep
  <1>d. KeepTemp(w) \/ ReportFails(w) => pc[w] = "report"
    BY <1>a DEF KeepTemp, ReportFails, LockInv, Reporting, Threads
  <1>e. ASSUME UNCHANGED totalProgress, IsGuilty(w)' => IsGuilty(w) PROVE FoundInv'
    BY <1>b, <1>c, <1>e DEF FoundInv, Bit
  <1>f. ASSUME UNCHANGED totalProgress, found' = found + 1 PROVE FoundInv'
    BY <1>b, <1>c, <1>f DEF FoundInv, Bit
  <1>1. CASE CheckQuit(w) \/ Claim(w)
    BY <1>1, <1>a, <1>e DEF CheckQuit, Goes, Claim, Claimed, IsGuilty, loop, disk,
      report, signals, Nothing, Progress
  <1>2. CASE Start(w)
    BY <1>2, <1>a, <1>e DEF Start, Goes, IsGuilty, loop, disk, report, signals, Nothing,
      Progress
  <1>3. CASE StartFails(w)
    BY <1>3, <1>a, <1>e DEF StartFails, Goes, IsGuilty, loop, disk, report, signals,
      Nothing, Progress
  <1>4. CASE Reap(w)
    <2>1. IsGuilty(w)' => IsGuilty(w)
      BY <1>4, ReapLemma DEF IsGuilty
    <2> QED
      BY <1>4, <1>e, <2>1 DEF Reap, report
  <1>5. CASE ClaimName(w) \/ CopyReproducer(w) \/ SaveFails(w)
    BY <1>5, <1>a, <1>e DEF ClaimName, Goes, CopyReproducer, SaveFails, IsGuilty, loop, disk,
      report, signals, Nothing, Progress
  <1>6. CASE AddProgress(w)
    <2>1. /\ pc[w] = "add" /\ pc'[w] \in {"report", "loop"} /\ process[w] = "none"
          /\ UNCHANGED <<process, found>>
      BY <1>6, <1>a DEF AddProgress, Goes
    <2>2. ~IsGuilty(w)' /\ (IsGuilty(w) <=> made[w].bugs = 1)
      BY <2>1 DEF IsGuilty
    <2>3. made[w].bugs \in {0, 1}
      BY MadeLemma DEF TypeOK
    <2>4. totalProgress'.bugs = totalProgress.bugs + made[w].bugs
      BY <1>6 DEF AddProgress, Progress
    <2> QED
      BY <1>b, <1>c, <2>1, <2>2, <2>3, <2>4 DEF FoundInv, Bit
  <1>7. CASE Boot(w) \/ Wipe(w) \/ MakeDirectory(w) \/ Record(w) \/ Generate(w)
    BY <1>7, <1>a, <1>e DEF Boot, ProcessStep, Wipe, MakeDirectory, Record, Generate,
      IsGuilty, loop, disk, report, signals, Nothing, Progress
  <1>8. CASE Verify(w)
    <2>1. PICK bugs \in {0, 1} :
            /\ found' = found + bugs
            /\ \/ directory' = [directory EXCEPT ![w].report = Progress(1, bugs)]
               \/ UNCHANGED directory
      BY <1>8 DEF Verify
    <2>2. CASE bugs = 1
      BY <1>8, <1>f, <2>1, <2>2 DEF Verify, report
    <2>3. CASE bugs = 0
      <3>1. directory[w] \in [program : {"absent", "stale", "none", "current"}, report : Reports]
        BY DEF TypeOK, DiskOK
      <3>2. process[w] = "verify" /\ process'[w] = "exit 0" /\ UNCHANGED <<pc, totalProgress>>
        BY <1>8, <1>a DEF Verify, ProcessStep, loop, report
      <3>3. directory[w].report = NoReport
        BY <3>2 DEF PhaseInv, WorkerPhase
      <3>4. directory'[w].report \in {NoReport, Progress(1, 0)}
        BY <1>a, <2>1, <2>3, <3>1, <3>3
      <3>5. NoReport # Progress(1, 1) /\ Progress(1, 0) # Progress(1, 1)
        BY DEF NoReport, Progress
      <3>6. ~IsGuilty(w)'
        BY <1>a, <3>2, <3>4, <3>5 DEF IsGuilty
      <3> QED
        BY <1>e, <3>2, <3>6
    <2> QED
      BY <2>2, <2>3
  <1>9. CASE Crash(w)
    BY <1>9, <1>f DEF Crash, Unrecorded, report
  <1>10. CASE SignalProcess(w)
    <2>1. signalled /\ signalled'
      BY <1>10 DEF SignalProcess, RecordInv
    <2> QED
      BY <1>10, <1>a, <1>e, <2>1 DEF SignalProcess, IsGuilty, loop, disk, report
  <1>11. CASE WriteTemp(w)
    BY <1>11, <1>a, <1>e DEF WriteTemp, IsGuilty, loop, disk, report, signals, Nothing,
      Progress
  <1>12. CASE KeepTemp(w) \/ ReportFails(w)
    BY <1>12, <1>a, <1>e, <1>d DEF KeepTemp, Reported, ReportFails, IsGuilty, loop,
      disk, report, signals, Nothing, Progress
  <1> QED
    BY <1>1, <1>2, <1>3, <1>4, <1>5, <1>6, <1>7, <1>8, <1>9, <1>10, <1>11, <1>12
    DEF Acts, Work, Program, Report

\* A bug is in the total only after its reproducer was saved.
LEMMA KeptActs ==
  ASSUME HandlerFirst, TypeOK, LockInv, PhaseInv, NamesInv, RecordInv, KeptInv, Running,
         NEW w \in Workers, Acts(w)
  PROVE  KeptInv'
  <1>a. /\ w # "main" /\ DOMAIN pc = Workers /\ DOMAIN process = Workers
        /\ DOMAIN directory = Workers /\ DOMAIN made = Workers
        /\ (pc[w] = "run" <=> process[w] # "none") /\ RecordPhase(w)
        /\ directory[w] \in [program : {"absent", "stale", "none", "current"}, report : Reports]
    BY FuzzerAssumption DEF TypeOK, LoopOK, DiskOK, PhaseInv, WorkerPhase, RecordInv
  <1>b. /\ unrecorded \in Nat /\ unrecorded' \in Nat /\ unrecorded' >= unrecorded
        /\ totalProgress.bugs \in Nat
        /\ Names = 0 .. NumPrograms /\ NumPrograms \in Nat
    BY FuzzerAssumption, Actors, HistoryStep DEF Later, TypeOK, FlagsOK, ReportOK,
      Counts, DiskOK, Names
  <1>c. /\ Cardinality(Excused) \in Nat /\ Cardinality(Excused)' \in Nat
        /\ Cardinality(Excused)' = Cardinality(Excused) + Bit(IsExcused(w)') - Bit(IsExcused(w))
        /\ IsFiniteSet(Current) /\ Cardinality(Current) \in Nat
    BY <1>b, GuiltyStep, InIntervalFinite DEF Current
  <1>d. KeepTemp(w) \/ ReportFails(w) => pc[w] = "report"
    BY <1>a DEF KeepTemp, ReportFails, LockInv, Reporting, Threads
  <1>e. ASSUME UNCHANGED <<totalProgress, bug>>, IsExcused(w)' => IsExcused(w) PROVE KeptInv'
    <2>1. Cardinality(Current)' = Cardinality(Current)
      BY <1>e DEF Current, Names
    <2>2. Cardinality(Excused)' <= Cardinality(Excused)
      BY <1>c, <1>e DEF Bit
    <2> QED
      BY <1>b, <1>c, <1>e, <2>1, <2>2 DEF KeptInv
  <1>f. ASSUME UNCHANGED <<totalProgress, bug>>, unrecorded' = unrecorded + 1 PROVE KeptInv'
    <2>1. Cardinality(Current)' = Cardinality(Current)
      BY <1>f DEF Current, Names
    <2>2. Cardinality(Excused)' <= Cardinality(Excused) + 1
      BY <1>c DEF Bit
    <2> QED
      BY <1>b, <1>c, <1>f, <2>1, <2>2 DEF KeptInv
  <1>1. CASE CheckQuit(w) \/ Claim(w)
    BY <1>1, <1>a, <1>e DEF CheckQuit, Goes, Claim, Claimed, IsExcused, loop, disk,
      report, signals, Nothing, Progress
  <1>2. CASE Start(w)
    BY <1>2, <1>a, <1>e DEF Start, Goes, IsExcused, loop, disk, report, signals,
      Nothing, Progress
  <1>3. CASE StartFails(w)
    BY <1>3, <1>a, <1>e DEF StartFails, Goes, IsExcused, loop, disk, report, signals,
      Nothing, Progress
  <1>4. CASE Reap(w)
    <2>1. IsExcused(w)' => IsExcused(w)
      BY <1>4, <1>a, ReapLemma DEF IsExcused, Reap, RecordPhase
    <2> QED
      BY <1>4, <1>e, <2>1 DEF Reap, report, disk
  <1>5. CASE ClaimName(w)
    <2>1. /\ pc[w] = "save" /\ pc'[w] = "copy" /\ UNCHANGED <<process, directory, signalled>>
          /\ UNCHANGED totalProgress
      BY <1>5, <1>a DEF ClaimName, Goes, signals, report
    <2>2. IsExcused(w)' => IsExcused(w)
      BY <2>1 DEF IsExcused
    <2>3. FreeName \in 0 .. NumPrograms /\ bug[FreeName] = "free"
      BY <2>1, FreeNameLemma
    <2>4. bug' = [bug EXCEPT ![FreeName] = "empty"]
      BY <1>5 DEF ClaimName
    <2>5. Current' = Current
      BY <1>b, <2>3, <2>4 DEF Current, Names
    <2>6. Cardinality(Excused)' <= Cardinality(Excused)
      BY <1>c, <2>2 DEF Bit
    <2> QED
      BY <1>b, <1>c, <2>1, <2>5, <2>6 DEF KeptInv
  <1>6. CASE CopyReproducer(w)
    <2>1. /\ pc[w] = "copy" /\ pc'[w] = "add" /\ UNCHANGED <<made, process, directory, signalled>>
          /\ UNCHANGED <<totalProgress, unrecorded>>
      BY <1>6, <1>a DEF CopyReproducer, Goes, signals, report
    <2>2. process[w] = "none" /\ made[w].bugs = 1
      BY <1>a, <2>1 DEF RecordPhase
    <2>3. IF directory[w].program = "absent"
            THEN UNCHANGED bug
            ELSE bug' = [bug EXCEPT ![destination[w]] = directory[w].program]
      BY <1>6 DEF CopyReproducer
    <2>4. bug[destination[w]] = "empty" /\ destination[w] \in 0 .. NumPrograms
      BY <2>1 DEF NamesInv, Apart, TypeOK, LoopOK
    <2>5. /\ Current' \ {destination[w]} = Current \ {destination[w]}
          /\ destination[w] \notin Current
          /\ destination[w] \in Current' <=> directory[w].program = "current"
      BY <1>b, <2>3, <2>4 DEF Current, Names
    <2>6. Cardinality(Current') = Cardinality(Current) + Bit(destination[w] \in Current')
      <3>1. Cardinality(Current') = Cardinality(Current) + Bit(destination[w] \in Current')
                                      - Bit(destination[w] \in Current)
        BY <1>c, <2>5, OneDiffers
      <3> QED
        BY <1>c, <2>5, <3>1 DEF Bit
    <2>7. IsExcused(w)' /\ (IsExcused(w) <=> directory[w].program # "current")
      BY <2>1, <2>2 DEF IsExcused
    <2>8. Cardinality(Excused)' - Cardinality(Excused) = Cardinality(Current') - Cardinality(Current)
      BY <1>c, <2>5, <2>6, <2>7 DEF Bit
    <2>9. Cardinality(Current') \in Nat
      BY <1>c, <2>6 DEF Bit
    <2> QED
      BY <1>b, <1>c, <2>1, <2>8, <2>9 DEF KeptInv
  <1>7. CASE AddProgress(w)
    <2>1. /\ pc[w] = "add" /\ pc'[w] \in {"report", "loop"} /\ process[w] = "none"
          /\ UNCHANGED <<process, unrecorded, bug>>
      BY <1>7, <1>a DEF AddProgress, Goes, disk
    <2>2. ~IsExcused(w)' /\ (IsExcused(w) <=> made[w].bugs = 1)
      BY <2>1 DEF IsExcused
    <2>3. made[w].bugs \in {0, 1}
      BY MadeLemma DEF TypeOK
    <2>4. totalProgress'.bugs = totalProgress.bugs + made[w].bugs
      BY <1>7 DEF AddProgress, Progress
    <2>5. Cardinality(Current)' = Cardinality(Current)
      BY <2>1 DEF Current, Names
    <2> QED
      BY <1>b, <1>c, <2>1, <2>2, <2>3, <2>4, <2>5 DEF KeptInv, Bit
  <1>8. CASE Boot(w)
    BY <1>8, <1>a, <1>e DEF Boot, ProcessStep, IsExcused, loop, disk, report, signals,
      Nothing, Progress
  <1>9. CASE Wipe(w) \/ MakeDirectory(w)
    <2>1. /\ pc'[w] = pc[w] /\ pc[w] = "run" /\ process'[w] \in {"make", "record"}
          /\ UNCHANGED <<totalProgress, bug>>
      BY <1>9, <1>a DEF Wipe, MakeDirectory, ProcessStep, loop, report
    <2> QED
      BY <1>e, <2>1 DEF IsExcused
  <1>16. CASE Record(w)
    <2>1. pc'[w] = pc[w] /\ pc[w] = "run" /\ UNCHANGED <<totalProgress, bug>>
      BY <1>16, <1>a DEF Record, ProcessStep, loop, report
    <2>2. CASE directory' = [directory EXCEPT ![w].program = "current"]
      <3>1. directory'[w].program = "current"
        BY <1>a, <2>2
      <3> QED
        BY <1>e, <2>1, <3>1 DEF IsExcused
    <2>3. CASE unrecorded' = unrecorded + 1
      BY <1>f, <2>1, <2>3
    <2> QED
      BY <1>16, <2>2, <2>3 DEF Record
  <1>17. CASE SaveFails(w)
    BY <1>17, <1>e DEF SaveFails, IsExcused, loop, disk, report, signals
  <1>10. CASE Generate(w)
    BY <1>10, <1>a, <1>e DEF Generate, ProcessStep, IsExcused, loop, disk, report,
      signals, Nothing, Progress
  <1>11. CASE Verify(w)
    <2>1. /\ pc[w] = "run" /\ UNCHANGED <<pc, totalProgress, bug>> /\ process'[w] = "exit 0"
      BY <1>11, <1>a DEF Verify, ProcessStep, loop, report
    <2> QED
      BY <1>e, <2>1 DEF IsExcused
  <1>12. CASE Crash(w)
    <2>1. UNCHANGED <<totalProgress, bug, pc, signalled>> /\ process'[w] = "dead" /\ pc[w] = "run"
      BY <1>12, <1>a DEF Crash, Unrecorded, loop, report, signals
    <2>2. CASE process[w] \in Unrecorded
      BY <1>12, <1>f, <2>1, <2>2 DEF Crash
    <2>3. CASE process[w] \in {"generate", "verify"}
      <3>1. UNCHANGED directory
        BY <1>12, <2>3 DEF Crash
      <3>2. IsExcused(w)' => IsExcused(w)
        BY <1>a, <2>1, <2>3, <3>1 DEF IsExcused, RecordPhase
      <3> QED
        BY <1>e, <2>1, <3>2
    <2> QED
      BY <1>12, <2>2, <2>3 DEF Crash
  <1>13. CASE SignalProcess(w)
    <2>1. signalled /\ signalled'
      BY <1>13 DEF SignalProcess, RecordInv
    <2> QED
      BY <1>13, <1>a, <1>e, <2>1 DEF SignalProcess, IsExcused, loop, disk, report
  <1>14. CASE WriteTemp(w)
    BY <1>14, <1>a, <1>e DEF WriteTemp, IsExcused, loop, disk, report, signals, Nothing,
      Progress
  <1>15. CASE KeepTemp(w) \/ ReportFails(w)
    BY <1>15, <1>a, <1>e, <1>d DEF KeepTemp, Reported, ReportFails, IsExcused, loop,
      disk, report, signals, Nothing, Progress
  <1> QED
    BY <1>1, <1>2, <1>3, <1>4, <1>5, <1>6, <1>7, <1>8, <1>9, <1>10, <1>11, <1>12, <1>13,
       <1>14, <1>15, <1>16, <1>17
    DEF Acts, Work, Program, Report

\* The fuzzer goes down only after a failure or an unrecorded program.
LEMMA NoAbortActs ==
  ASSUME TypeOK, LockInv, RecordInv, Later, NEW w \in Workers, Acts(w)
  PROVE  /\ pending' # {} => signalled'
         /\ ~singleProcess' /\ main' = "aborted" => failures' > 0 \/ unrecorded' > 0
  <1>a. /\ w # "main" /\ (pending # {} => signalled)
        /\ ~singleProcess /\ main = "aborted" => failures > 0 \/ unrecorded > 0
        /\ failures \in Nat /\ unrecorded \in Nat
        /\ failures' \in Nat /\ failures' >= failures
        /\ unrecorded' \in Nat /\ unrecorded' >= unrecorded
    BY FuzzerAssumption DEF RecordInv, TypeOK, FlagsOK, Later
  <1>b. ASSUME UNCHANGED singleProcess, main' = "aborted" => main = "aborted"
        PROVE  ~singleProcess' /\ main' = "aborted" => failures' > 0 \/ unrecorded' > 0
    BY <1>a, <1>b
  <1>1. CASE CheckQuit(w) \/ Claim(w) \/ Start(w) \/ StartFails(w)
    BY <1>1, <1>a, <1>b DEF CheckQuit, Goes, Claim, Claimed, Start, StartFails, signals,
      options
  <1>2. CASE Reap(w) \/ ClaimName(w) \/ AddProgress(w)
    BY <1>2, <1>a, <1>b DEF Reap, Goes, ClaimName, AddProgress, signals, options
  <1>3. CASE CopyReproducer(w)
    <2>1. UNCHANGED <<singleProcess, pending, signalled, unrecorded>>
      BY <1>3 DEF CopyReproducer, options, signals
    <2>2. CASE directory[w].program = "absent"
      <3>1. unrecorded > 0
        BY <1>3, <2>2 DEF CopyReproducer, Goes, RecordInv, RecordPhase, Recorded
      <3> QED
        BY <1>a, <2>1, <3>1
    <2>3. CASE directory[w].program # "absent"
      BY <1>3, <1>a, <1>b, <2>1, <2>3 DEF CopyReproducer
    <2> QED
      BY <2>2, <2>3
  <1>8. CASE SaveFails(w)
    BY <1>8, <1>a DEF SaveFails, signals
  <1>4. CASE Boot(w) \/ Wipe(w) \/ MakeDirectory(w) \/ Record(w) \/ Generate(w) \/ Verify(w)
    BY <1>4, <1>a, <1>b DEF Boot, ProcessStep, Wipe, MakeDirectory, Record, Generate, Verify,
      signals, options
  <1>5. CASE Crash(w)
    BY <1>5, <1>a, <1>b DEF Crash, signals, options
  <1>6. CASE SignalProcess(w)
    BY <1>6, <1>a, <1>b DEF SignalProcess, signals, options
  <1>7. CASE WriteTemp(w) \/ KeepTemp(w) \/ ReportFails(w)
    BY <1>7, <1>a, <1>b DEF WriteTemp, KeepTemp, Reported, ReportFails, signals, options
  <1> QED
    BY <1>1, <1>2, <1>3, <1>4, <1>5, <1>6, <1>7, <1>8
    DEF Acts, Work, Program, Report

\* The main thread takes no part in this either.
LEMMA MainBugs ==
  ASSUME TypeOK, BugInv, MainActs, Later
  PROVE  BugInv'
  <1>1. \A v \in Workers : Same(v)
    BY MainLeaves
  <1>2. UNCHANGED <<bug, totalProgress, singleProcess>>
    BY DEF MainActs, Main, MainLoop, Join, ReportConsole, Signal, Handler, Report, WriteTemp,
       KeepTemp, ReportFails, disk, report, options
  <1>a. /\ failures \in Nat /\ failures' \in Nat /\ failures' >= failures
        /\ unrecorded \in Nat /\ unrecorded' \in Nat /\ unrecorded' >= unrecorded
    BY DEF Later, TypeOK, FlagsOK
  <1>b. /\ unrecorded > 0 => unrecorded' > 0
        /\ signalled => signalled'
    BY <1>a DEF Later
  <1>3. \A v \in Workers : RecordPhase(v)'
    BY <1>1, <1>b DEF BugInv, RecordInv, RecordPhase, Recorded, Same
  <1>4. pending' # {} => signalled'
    BY DEF BugInv, RecordInv, MainActs, Main, MainLoop, Join, ReportConsole, Signal, Handler,
       Report, WriteTemp, KeepTemp, ReportFails, signals
  <1>5. main' = "aborted" => main = "aborted"
    BY DEF MainActs, Main, MainLoop, Join, ReportConsole, Signal, Handler, Report, WriteTemp,
       KeepTemp, ReportFails, Reported
  <1>6. RecordInv'
    BY <1>2, <1>3, <1>4, <1>5, <1>a DEF BugInv, RecordInv
  <1>7. Guilty' \subseteq Guilty /\ Excused' \subseteq Excused /\ Current' = Current
    BY <1>1, <1>2 DEF Guilty, IsGuilty, Excused, IsExcused, Same, Later, Current, Names
  <1>8. IsFiniteSet(Guilty) /\ IsFiniteSet(Excused)
    BY WorkersFinite DEF Guilty, Excused
  <1>9. /\ Cardinality(Guilty') \in Nat /\ Cardinality(Guilty) \in Nat
        /\ Cardinality(Guilty') <= Cardinality(Guilty)
    BY <1>7, <1>8, FS_Subset, FS_CardinalityType
  <1>10. /\ Cardinality(Excused') \in Nat /\ Cardinality(Excused) \in Nat
         /\ Cardinality(Excused') <= Cardinality(Excused)
    BY <1>7, <1>8, FS_Subset, FS_CardinalityType
  <1>11. /\ totalProgress.bugs \in Nat /\ unrecorded \in Nat /\ found \in Nat
         /\ Names = 0 .. NumPrograms /\ NumPrograms \in Nat
    BY FuzzerAssumption DEF TypeOK, FlagsOK, ReportOK, Counts, DiskOK, Names
  <1>12. Cardinality(Current) \in Nat
    BY <1>11, InIntervalFinite DEF Current
  <1>13. FoundInv'
    BY <1>2, <1>9, <1>11 DEF BugInv, FoundInv, Later
  <1>14. KeptInv'
    BY <1>2, <1>7, <1>10, <1>11, <1>12 DEF BugInv, KeptInv, Later
  <1> QED
    BY <1>6, <1>13, <1>14 DEF BugInv

LEMMA BugInvInit == Init => BugInv
  <1> SUFFICES ASSUME Init PROVE BugInv
    OBVIOUS
  <1>1. RecordInv
    BY DEF Init, RecordInv, RecordPhase
  <1>2. Guilty = {} /\ Excused = {} /\ Current = {}
    BY DEF Init, Guilty, IsGuilty, Excused, IsExcused, Current, Names
  <1>3. totalProgress.bugs = 0 /\ found = 0 /\ unrecorded = 0
    BY DEF Init, Nothing, Progress
  <1> QED
    BY <1>1, <1>2, <1>3, FS_EmptySet DEF BugInv, FoundInv, KeptInv

LEMMA BugInvStep ==
  ASSUME HandlerFirst
  PROVE  IInv /\ BugInv /\ [Next]_vars => BugInv'
  <1> SUFFICES ASSUME IInv, BugInv, [Next]_vars PROVE BugInv'
    OBVIOUS
  <1>1. /\ TypeOK /\ LockInv /\ PhaseInv /\ CountInv /\ NamesInv
        /\ RecordInv /\ FoundInv /\ KeptInv
    BY DEF IInv, BugInv
  <1>2. ASSUME Running, Step PROVE BugInv'
    <2>1. Later
      BY <1>1, <1>2, HistoryStep
    <2>2. CASE MainActs
      BY <1>1, <2>1, <2>2, MainBugs
    <2>3. ASSUME NEW w \in Workers, Acts(w) PROVE BugInv'
      <3>1. \A v \in Workers \ {w} : RecordPhase(v)'
        <4>1. \A v \in Workers \ {w} : Same(v)
          BY <1>1, <2>3, OthersStep
        <4>2. /\ unrecorded > 0 => unrecorded' > 0
              /\ signalled => signalled'
          BY <1>1, <2>1 DEF Later, TypeOK, FlagsOK
        <4> QED
          BY <1>1, <4>1, <4>2 DEF RecordInv, RecordPhase, Recorded, Same
      <3>2. RecordPhase(w)'
        BY <1>1, <1>2, <2>3, RecordActs
      <3>3. /\ pending' # {} => signalled'
            /\ ~singleProcess' /\ main' = "aborted" => failures' > 0 \/ unrecorded' > 0
        BY <1>1, <2>1, <2>3, NoAbortActs
      <3>4. FoundInv' /\ KeptInv'
        BY <1>1, <1>2, <2>3, FoundActs, KeptActs
      <3> QED
        BY <3>1, <3>2, <3>3, <3>4 DEF BugInv, RecordInv
    <2> QED
      BY <1>2, <2>2, <2>3, Actors
  <1>3. ASSUME UNCHANGED vars PROVE BugInv'
    <2> USE <1>3 DEF vars, options, flags, loop, disk, report, signals
    <2>1. RecordInv'
      BY <1>1 DEF RecordInv, RecordPhase, Recorded
    <2>2. FoundInv' /\ KeptInv'
      BY <1>1 DEF FoundInv, Guilty, IsGuilty, KeptInv, Excused, IsExcused, Current, Names
    <2> QED
      BY <2>1, <2>2 DEF BugInv
  <1> QED
    BY <1>2, <1>3 DEF Next

\* Where the fuzzer's handler runs before a worker sees its process killed,
\* nothing is counted as a bug that was none (NoFalseBugs), for any number of
\* workers and failures.
THEOREM BugsAreReal ==
  ASSUME HandlerFirst
  PROVE  Spec => []NoFalseBugs
  <1>1. IInv /\ BugInv => NoFalseBugs
    <2> SUFFICES ASSUME IInv, BugInv PROVE NoFalseBugs
      OBVIOUS
    <2>1. Cardinality(Guilty) \in Nat /\ totalProgress.bugs \in Nat /\ found \in Nat
      BY WorkersFinite DEF Guilty, IInv, TypeOK, FlagsOK, ReportOK, Counts
    <2> QED
      BY <2>1 DEF BugInv, FoundInv, NoFalseBugs
  <1> QED
    BY <1>1, BugInvInit, BugInvStep, FuzzerInvariance, PTL DEF Spec

\* There, every bug counted also has its reproducer, with an exception for every
\* program whose process could not record it or died before it did; and without
\* such programs and without I/O errors the fuzzer, if its programs have processes
\* of their own, is not taken down (ReproducersKept).
THEOREM BugsHaveReproducers ==
  ASSUME HandlerFirst
  PROVE  Spec => []ReproducersKept
  <1>1. IInv /\ BugInv => ReproducersKept
    <2> SUFFICES ASSUME IInv, BugInv PROVE ReproducersKept
      OBVIOUS
    <2>1. /\ Cardinality(Excused) \in Nat /\ totalProgress.bugs \in Nat /\ unrecorded \in Nat
          /\ Names = 0 .. NumPrograms /\ NumPrograms \in Nat
      BY WorkersFinite, FuzzerAssumption
      DEF Excused, IInv, TypeOK, FlagsOK, ReportOK, DiskOK, Counts, Names
    <2>2. Cardinality(Current) \in Nat /\ Current = {i \in DOMAIN bug : bug[i] = "current"}
      BY <2>1, InIntervalFinite DEF Current, Names
    <2>3. totalProgress.bugs <= Cardinality(Current) + unrecorded
      BY <2>1, <2>2 DEF BugInv, KeptInv
    <2> QED
      BY <2>2, <2>3 DEF BugInv, RecordInv, ReproducersKept
  <1> QED
    BY <1>1, BugInvInit, BugInvStep, FuzzerInvariance, PTL DEF Spec
=============================================================================
