------------------------------- MODULE Fuzzer -------------------------------
(***************************************************************************)
(* hls-fuzzer: worker threads generate and verify programs, each program   *)
(* in a process of its own (or, with --single-process, in the thread), and *)
(* count what comes of them; the main thread reports and joins.  The run   *)
(* ends when the programs asked for are done, when a process cannot be     *)
(* started, or by a signal, which goes to the whole process group.         *)
(*                                                                         *)
(* A directory holds a program, told apart only by whether it is the one   *)
(* its worker is on ("current") or an earlier one ("stale"), and what the  *)
(* program's process reported; it may also hold no program ("none") or not *)
(* exist ("absent").  errorMutex, taken only to print and never around     *)
(* another lock, is left out, and so are the statistics, which are merged  *)
(* along with the counts.                                                  *)
(***************************************************************************)
EXTENDS Integers, FiniteSets

CONSTANTS Workers,        \* the worker threads
          NumPrograms,    \* --num-programs
          MaxFailures,    \* bound on I/O errors a process survives or that end
                          \* the fuzzer (one that ends a process is a Crash)
          HandlerFirst    \* the fuzzer's own signal handler has run by the
                          \* time a worker sees its process killed

ASSUME FuzzerAssumption ==
  /\ Workers # {} /\ IsFiniteSet(Workers) /\ Workers \cap {"main", "free"} = {}
  /\ NumPrograms \in Nat /\ MaxFailures \in Nat /\ HandlerFirst \in BOOLEAN

VARIABLES singleProcess, jsonOutput,                    \* options
          quit, interrupted, remainingPrograms,
          totalProgress, progressMutex,                 \* the latter: its owner
          pc, made, destination,                        \* of a worker
          process,                                      \* of its program
          directory,                                    \* thread<i>
          bug,                                          \* bug<i>
          temp, file,                                   \* the JSON report
          main,
          pending,                                      \* undelivered signals
          signalled, failures, found, unrecorded        \* history

options == <<singleProcess, jsonOutput>>
flags == <<quit, interrupted, remainingPrograms>>
loop == <<pc, made, destination>>
disk == <<directory, bug>>
report == <<totalProgress, progressMutex, temp, file>>
signals == <<pending, signalled>>
vars == <<options, flags, loop, process, disk, report, main, signals, failures, found,
          unrecorded>>

Free == "free"
Progress(programs, bugs) == [programs |-> programs, bugs |-> bugs]
Nothing == Progress(0, 0)
NoReport == Progress(-1, 0)   \* no file, or one that cannot be parsed

Threads == Workers \cup {"main"}
Running == main \notin {"exited", "aborted"}
Goes(w, from, to) == pc[w] = from /\ pc' = [pc EXCEPT ![w] = to]
-----------------------------------------------------------------------------
(* A worker: `work`.                                                       *)

CheckQuit(w) ==
  /\ Goes(w, "loop", IF quit THEN "finished" ELSE "claim")
  /\ UNCHANGED <<options, flags, made, destination, process, disk, report, main,
                 signals, failures, found, unrecorded>>

Claimed(w, got, ends) ==
  /\ remainingPrograms' = remainingPrograms - 1
  /\ quit' = (quit \/ ends)
  /\ Goes(w, "claim", IF got THEN "start" ELSE "finished")
  /\ UNCHANGED <<options, interrupted, made, destination, process, disk, report, main,
                 signals, failures, found, unrecorded>>

\* Mutant: the count after the decrement is tested, so the last program is
\* never made.
Claim_AfterDecrement(w) == Claimed(w, remainingPrograms > 1, remainingPrograms <= 1)

\* Mutant: the last claim does not end the run.
Claim_NoQuit(w) == Claimed(w, remainingPrograms > 0, FALSE)

\* fetch_sub: a worker that fails to claim a program still decrements.  A run
\* without a limit behaves as one that has not reached its limit.
Claim(w) == Claimed(w, remainingPrograms > 0, remainingPrograms <= 0)

\* runProgram.  A process of its own starts with the default signal handlers.
Start(w) ==
  /\ Goes(w, "start", "run")
  /\ process' = [process EXCEPT ![w] = IF singleProcess THEN "wipe" ELSE "boot"]
  /\ directory' = [directory EXCEPT ![w].program = IF @ = "current" THEN "stale" ELSE @]
  /\ UNCHANGED <<options, flags, made, destination, bug, report, main, signals, failures,
                 found, unrecorded>>

\* The process cannot be started at all.
StartFails(w) ==
  /\ ~singleProcess /\ failures < MaxFailures /\ failures' = failures + 1
  /\ Goes(w, "start", "add")
  /\ quit' = TRUE /\ made' = [made EXCEPT ![w] = Nothing]
  /\ UNCHANGED <<options, interrupted, remainingPrograms, destination, process, disk,
                 report, main, signals, found, unrecorded>>

\* Mutant: a process that the signal killed counts as a crash.
Outcome_NoInterrupted(w) ==
  CASE process[w] = "exit 0" /\ directory[w].report # NoReport -> directory[w].report
    [] process[w] = "exit 0" /\ directory[w].report = NoReport -> Nothing
    [] OTHER -> Progress(1, 1)

\* What a process that has ended amounted to: what it reported if that can be
\* read, nothing if the run was interrupted, else a bug since it crashed.
Outcome(w) ==
  CASE process[w] = "exit 0" /\ directory[w].report # NoReport -> directory[w].report
    [] process[w] = "exit 0" /\ directory[w].report = NoReport -> Nothing
    [] process[w] = "dead" /\ interrupted -> Nothing
    [] OTHER -> Progress(1, 1)

\* ExecuteAndWait returns.
Reap(w) ==
  /\ process[w] \in {"exit 0", "dead"}
  /\ HandlerFirst => "main" \notin pending
  /\ Goes(w, "run", IF Outcome(w).bugs # 0 THEN "save" ELSE "add")
  /\ made' = [made EXCEPT ![w] = Outcome(w)]
  /\ process' = [process EXCEPT ![w] = "none"]
  /\ UNCHANGED <<options, flags, destination, disk, report, main, signals, failures, found,
                 unrecorded>>

Names == DOMAIN bug
FreeName == CHOOSE i \in Names : bug[i] = "free" /\ \A j \in Names : j < i => bug[j] # "free"

\* Mutant: the name is looked up and not taken until the copy.
ClaimName_Looks(w) ==
  /\ Goes(w, "save", "copy")
  /\ destination' = [destination EXCEPT ![w] = FreeName]
  /\ UNCHANGED <<options, flags, made, process, directory, bug, report, main, signals,
                 failures, found, unrecorded>>

\* saveReproducer: create_directory succeeds for the first name not in use.
ClaimName(w) ==
  /\ Goes(w, "save", "copy")
  /\ destination' = [destination EXCEPT ![w] = FreeName]
  /\ bug' = [bug EXCEPT ![FreeName] = "empty"]
  /\ UNCHANGED <<options, flags, made, process, directory, report, main, signals,
                 failures, found, unrecorded>>

\* ... and the copy, which throws if there is no directory to copy: nothing
\* catches that in a worker thread, and the fuzzer terminates.
CopyReproducer(w) ==
  /\ Goes(w, "copy", "add")
  /\ IF directory[w].program = "absent"
       THEN main' = "aborted" /\ UNCHANGED bug
       ELSE bug' = [bug EXCEPT ![destination[w]] = directory[w].program] /\ UNCHANGED main
  /\ UNCHANGED <<options, flags, made, destination, process, directory, report, signals,
                 failures, found, unrecorded>>

\* Both also throw on any other I/O error.
SaveFails(w) ==
  /\ pc[w] \in {"save", "copy"}
  /\ failures < MaxFailures /\ failures' = failures + 1
  /\ main' = "aborted"
  /\ UNCHANGED <<options, flags, loop, process, disk, report, signals, found, unrecorded>>

AddProgress(w) ==
  /\ progressMutex = Free
  /\ Goes(w, "add", IF jsonOutput THEN "report" ELSE "loop")
  /\ totalProgress' = Progress(totalProgress.programs + made[w].programs,
                               totalProgress.bugs + made[w].bugs)
  /\ UNCHANGED <<options, flags, made, destination, process, disk, progressMutex, temp, file,
                 main, signals, failures, found, unrecorded>>
-----------------------------------------------------------------------------
(* A program: `runSingleProgram` and the main function of its process.     *)

ProcessStep(w, from, to) == process[w] = from /\ process' = [process EXCEPT ![w] = to]

\* The process installs its signal handlers: from now on a signal kills
\* nothing but the tools it drives, which counts as success.
Boot(w) ==
  /\ ProcessStep(w, "boot", "wipe")
  /\ UNCHANGED <<options, flags, loop, disk, report, main, signals, failures, found,
                 unrecorded>>

\* createWorker and remove_all: the earlier program and its report are gone.
Wipe(w) ==
  /\ ProcessStep(w, "wipe", "make")
  /\ directory' = [directory EXCEPT ![w] = [program |-> "absent", report |-> NoReport]]
  /\ UNCHANGED <<options, flags, loop, bug, report, main, signals, failures, found,
                 unrecorded>>

MakeDirectory(w) ==
  /\ ProcessStep(w, "make", "record")
  /\ directory' = [directory EXCEPT ![w].program = "none"]
  /\ UNCHANGED <<options, flags, loop, bug, report, main, signals, failures, found,
                 unrecorded>>

\* The reproducer is recorded before the generation, which may crash; failing
\* to record it is not fatal.
Record(w) ==
  /\ ProcessStep(w, "record", "generate")
  /\ \/ /\ directory' = [directory EXCEPT ![w].program = "current"]
        /\ UNCHANGED <<failures, unrecorded>>
     \/ /\ failures < MaxFailures /\ failures' = failures + 1
        /\ unrecorded' = unrecorded + 1
        /\ UNCHANGED directory
  /\ UNCHANGED <<options, flags, loop, bug, report, main, signals, found>>

Generate(w) ==
  /\ ProcessStep(w, "generate", "verify")
  /\ directory' = [directory EXCEPT ![w].program = "current"]
  /\ UNCHANGED <<options, flags, loop, bug, report, main, signals, failures, found,
                 unrecorded>>

\* The result goes into the report that the process leaves in the directory,
\* or in a single process is returned.
Verify(w) ==
  /\ ProcessStep(w, "verify", "exit 0")
  /\ \E bugs \in {0, 1} :
       /\ found' = found + bugs
       /\ \/ /\ directory' = [directory EXCEPT ![w].report = Progress(1, bugs)]
             /\ UNCHANGED failures
          \/ /\ ~singleProcess /\ failures < MaxFailures /\ failures' = failures + 1
             /\ UNCHANGED directory
  /\ UNCHANGED <<options, flags, loop, bug, report, main, signals, unrecorded>>

Unrecorded == {"boot", "wipe", "make", "record"}

\* The process dies: the generator or a tool it drives crashes, a file
\* operation of the C++ library throws (a failing remove_all may have emptied
\* the directory in part), the system kills it.  In a process of its own that
\* ends only the program.
Crash(w) ==
  /\ process[w] \in Unrecorded \cup {"generate", "verify"}
  /\ process' = [process EXCEPT ![w] = "dead"]
  /\ \/ UNCHANGED directory
     \/ /\ process[w] = "wipe"
        /\ directory' = [directory EXCEPT ![w].program = IF @ = "absent" THEN @ ELSE "none"]
  /\ found' = found + 1
  /\ unrecorded' = IF process[w] \in Unrecorded THEN unrecorded + 1 ELSE unrecorded
  /\ main' = IF singleProcess THEN "aborted" ELSE main
  /\ UNCHANGED <<options, flags, loop, bug, report, signals, failures>>
-----------------------------------------------------------------------------
(* Reports, by a worker after each of its programs or by the main thread.  *)

Reporting(t) == IF t = "main" THEN main \in {"heartbeat", "last"} ELSE pc[t] = "report"

Reported(t) ==
  IF t = "main" THEN /\ main' = IF main = "last" THEN "exited" ELSE "loop"
                     /\ UNCHANGED pc
                ELSE pc' = [pc EXCEPT ![t] = "loop"] /\ UNCHANGED main

\* Mutant: the progress is sampled without keeping the lock.
WriteTemp_Unlocked(t) ==
  /\ Reporting(t) /\ jsonOutput /\ progressMutex = Free /\ temp[t] = NoReport
  /\ temp' = [temp EXCEPT ![t] = totalProgress]
  /\ UNCHANGED <<options, flags, loop, process, disk, totalProgress, progressMutex, file, main,
                 signals, failures, found, unrecorded>>

\* The report goes to a temporary file next to the report file ...
WriteTemp(t) ==
  /\ Reporting(t) /\ jsonOutput /\ progressMutex = Free
  /\ progressMutex' = t
  /\ temp' = [temp EXCEPT ![t] = totalProgress]
  /\ UNCHANGED <<options, flags, loop, process, disk, totalProgress, file, main, signals,
                 failures, found, unrecorded>>

\* ... which is then renamed onto it.
KeepTemp(t) ==
  /\ temp[t] # NoReport
  /\ file' = temp[t] /\ temp' = [temp EXCEPT ![t] = NoReport]
  /\ progressMutex' = Free
  /\ Reported(t)
  /\ UNCHANGED <<options, flags, made, destination, process, disk, totalProgress, signals,
                 failures, found, unrecorded>>

\* Either may fail, which leaves the file as it was.
ReportFails(t) ==
  /\ failures < MaxFailures /\ failures' = failures + 1
  /\ \/ Reporting(t) /\ jsonOutput /\ progressMutex = Free
     \/ temp[t] # NoReport
  /\ temp' = [temp EXCEPT ![t] = NoReport]
  /\ progressMutex' = Free
  /\ Reported(t)
  /\ UNCHANGED <<options, flags, made, destination, process, disk, totalProgress, file,
                 signals, found, unrecorded>>

ReportConsole ==
  /\ Reporting("main") /\ ~jsonOutput /\ progressMutex = Free
  /\ Reported("main")
  /\ UNCHANGED <<options, flags, made, destination, process, disk, report, signals,
                 failures, found, unrecorded>>
-----------------------------------------------------------------------------
(* The main thread, and signals.                                           *)

MainLoop ==
  /\ main = "loop" /\ (quit \/ ~jsonOutput)
  /\ main' = IF quit THEN "join" ELSE "heartbeat"
  /\ UNCHANGED <<options, flags, loop, process, disk, report, signals, failures, found,
                 unrecorded>>

Join ==
  /\ main = "join" /\ \A w \in Workers : pc[w] = "finished"
  /\ main' = "last"
  /\ UNCHANGED <<options, flags, loop, process, disk, report, signals, failures, found,
                 unrecorded>>

\* A signal is sent once, to the fuzzer and every process then alive.
Signal ==
  /\ ~signalled /\ signalled' = TRUE
  /\ pending' = {"main"} \cup {w \in Workers : ~singleProcess /\
                                process[w] \notin {"none", "exit 0", "dead"}}
  /\ UNCHANGED <<options, flags, loop, process, disk, report, main, failures, found,
                 unrecorded>>

Handler ==
  /\ "main" \in pending
  /\ interrupted' = TRUE /\ quit' = TRUE
  /\ pending' = pending \ {"main"}
  /\ UNCHANGED <<options, remainingPrograms, loop, process, disk, report, main, signalled,
                 failures, found, unrecorded>>

\* A process without handlers yet is killed, another goes on.
SignalProcess(w) ==
  /\ w \in pending /\ pending' = pending \ {w}
  /\ process' = [process EXCEPT ![w] = IF @ = "boot" THEN "dead" ELSE @]
  /\ UNCHANGED <<options, flags, loop, disk, report, main, signalled, failures, found,
                 unrecorded>>
-----------------------------------------------------------------------------
\* The directories may be left from an earlier run.
Init ==
  /\ singleProcess \in BOOLEAN /\ jsonOutput \in BOOLEAN
  /\ quit = FALSE /\ interrupted = FALSE /\ remainingPrograms = NumPrograms
  /\ totalProgress = Nothing /\ progressMutex = Free
  /\ pc = [w \in Workers |-> "loop"]
  /\ made = [w \in Workers |-> Nothing] /\ destination = [w \in Workers |-> 0]
  /\ process = [w \in Workers |-> "none"]
  /\ \E left \in {[program |-> "absent", report |-> NoReport],
                  [program |-> "stale", report |-> Progress(1, 0)]} :
       directory = [w \in Workers |-> left]
  /\ bug = [i \in 0 .. NumPrograms |-> IF i = 0 THEN "stale" ELSE "free"]
  /\ temp = [t \in Threads |-> NoReport] /\ file = NoReport
  /\ main = "loop" /\ pending = {} /\ signalled = FALSE
  /\ failures = 0 /\ found = 0 /\ unrecorded = 0

Work(w) ==
  \/ CheckQuit(w) \/ Claim(w) \/ Start(w) \/ Reap(w)
  \/ ClaimName(w) \/ CopyReproducer(w) \/ AddProgress(w)
Program(w) ==
  Boot(w) \/ Wipe(w) \/ MakeDirectory(w) \/ Record(w) \/ Generate(w) \/ Verify(w)
Report(t) == WriteTemp(t) \/ KeepTemp(t)
Main == MainLoop \/ Join \/ ReportConsole

Step ==
  \/ \E w \in Workers : \/ Work(w) \/ StartFails(w) \/ SaveFails(w)
                        \/ Program(w) \/ Crash(w) \/ SignalProcess(w)
  \/ \E t \in Threads : Report(t) \/ ReportFails(t)
  \/ Main \/ Signal \/ Handler

Next == \/ Running /\ Step
        \/ ~Running /\ UNCHANGED vars

\* Every thread and its process run, and a signal sent is delivered.  The
\* lock is fair enough: no thread takes it over and over while another waits.
Spec ==
  /\ Init /\ [][Next]_vars
  /\ \A w \in Workers :
       WF_vars(Running /\ (Work(w) \/ Program(w) \/ SignalProcess(w) \/ Report(w)))
  /\ WF_vars(Running /\ (Main \/ Report("main"))) /\ WF_vars(Running /\ Handler)
-----------------------------------------------------------------------------
\* Every bug counted has a reproducer of its own that holds the very program
\* that triggered it: saved before the worker's next program wipes the
\* directory, under a name no other worker and no earlier run uses.  Excepted
\* are as many bugs as programs were not recorded, because writeReproducer
\* failed or the process died before it.  And as long as every program was
\* recorded and no I/O error occurs, nothing takes the fuzzer down, however its
\* processes end.
ReproducersKept ==
  /\ totalProgress.bugs <= Cardinality({i \in DOMAIN bug : bug[i] = "current"}) + unrecorded
  /\ ~singleProcess /\ main = "aborted" => failures > 0 \/ unrecorded > 0

\* What runProgramProcess says of the process of its own: the fuzzer survives
\* the death of a process while generating or verifying a program, and can only
\* be taken down by an I/O error of its own.
CrashContained == ~singleProcess /\ failures = 0 => main # "aborted"

\* Nothing is counted as a bug that was none, in particular no program whose
\* process was taken down by the signal that ends the run.
NoFalseBugs == totalProgress.bugs <= found

\* A run with a limit that nothing disturbs verifies exactly the programs
\* asked for, and when it exits its report says so.
ExactCount ==
  /\ totalProgress.programs <= NumPrograms
  /\ main = "exited" /\ ~signalled /\ failures = 0 =>
       /\ totalProgress.programs = NumPrograms
       /\ jsonOutput => file = totalProgress

\* The report file never goes back to an older sample, however the threads
\* that write it interleave.
ReportAdvances ==
  [][file' # file => /\ file'.programs >= file.programs /\ file'.bugs >= file.bugs
                     /\ file' = totalProgress]_vars

\* The run ends, by the limit, a failure or a signal, and no worker is left
\* waiting for a claim, a lock or its process.
Terminates == <>~Running
=============================================================================
