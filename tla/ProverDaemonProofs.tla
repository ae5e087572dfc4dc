------------------------- MODULE ProverDaemonProofs -------------------------
(***************************************************************************)
(* The safety of the prover daemon, for any number of sequencers, batches   *)
(* and iterations and for either backend.                                   *)
(***************************************************************************)
EXTENDS ProverDaemon, TLAPS

Outcomes  == {"none", "Idle", "Proved", "Retry", "Cancelled"}
JobStates == {"pending", "unformed", "leased", "done"}
Awaits    == {"setup", "setup_aggregator", "setup_wait", "top", "sleep", "pick_range",
              "pick_batch", "skip", "prove", "resetup", "submit", "stopped"}

TypeInv ==
    /\ args \in CommandLines
    /\ unsupported \subseteq Sequencers
    /\ server \in [Jobs -> JobStates]
    /\ setups \subseteq Programs
    /\ cancelled \in BOOLEAN
    /\ pc \in Awaits
    /\ turn \in Sequencers
    /\ job \in Jobs \cup {NoJob}
    /\ retried \in BOOLEAN
    /\ dirs \in [WorkDirs -> Jobs \cup {NoJob}]
    /\ idle_streak \in Nat
    /\ proofs_generated \in Nat
    /\ last \in [Sequencers -> Outcomes]
    /\ faults \in 0..2

\* A job is in hand exactly while it is served; the directory of a run under
\* way is empty, that of a run being submitted holds its own proof, and every
\* proof on disk lies in its own job's directory.
DirsInv ==
    /\ pc \in {"skip", "prove", "resetup", "submit"} => job \in Jobs
    /\ Proving => dirs[work_dir(job)] = NoJob
    /\ pc = "submit" => dirs[work_dir(job)] = job
    /\ \A d \in WorkDirs : dirs[d] # NoJob => work_dir(dirs[d]) = d

\* The daemon only asks for and proves jobs of programs that it set up.
ProgramsInv ==
    /\ pc = "pick_range" => Proves(args, "aggregator")
    /\ pc = "pick_batch" => Proves(args, "guest")
    /\ Proving => Proves(args, Elf(job))
    /\ pc = "setup_wait" => args.coordinator
    /\ (~args.coordinator /\ pc \notin {"setup", "stopped"} /\ Proves(args, "guest"))
          => "guest" \in setups
    /\ (~args.coordinator /\ pc \notin {"setup", "setup_aggregator", "stopped"}
          /\ Proves(args, "aggregator"))
          => "aggregator" \in setups

\* How many faults a run has met by the time it reaches each stage.
FaultsInv ==
    /\ pc \notin {"prove", "resetup", "submit"} => ~retried
    /\ pc = "resetup" => args.coordinator /\ retried /\ faults >= 1
    /\ (pc = "prove" /\ retried) => args.coordinator /\ faults >= 1
    /\ (pc = "prove" /\ args.coordinator /\ Elf(job) \notin setups)
          => faults >= (IF retried THEN 2 ELSE 1)

DaemonInv == TypeInv /\ DirsInv /\ ProgramsInv /\ FaultsInv

-----------------------------------------------------------------------------
(* Jobs and their directories. *)

\* Every job has a sequencer, a kind and a directory; NoJob is none.
LEMMA JobFacts ==
    /\ NoJob \notin Jobs
    /\ \A j \in Jobs : /\ j.seq \in Sequencers
                        /\ j.kind \in {"batch", "range"}
                        /\ work_dir(j) \in WorkDirs
                        /\ Elf(j) \in Programs
<1>1. \A s \in Sequencers, n \in 1..NumBatches : BatchJob(s, n).kind = "batch" /\ BatchJob(s, n).seq = s
  BY DEF BatchJob
<1>2. \A s \in Sequencers : RangeJob(s).kind = "range" /\ RangeJob(s).seq = s
  BY DEF RangeJob
<1>3. \A j \in Jobs : j.seq \in Sequencers /\ j.kind \in {"batch", "range"}
  BY <1>1, <1>2 DEF Jobs
<1>4. NoJob.kind = "none"
  BY DEF NoJob
<1> QED
  BY <1>3, <1>4 DEF WorkDirs, Elf, Programs

\* The first client exists, and the iterator stays among the clients.
LEMMA ClientFacts ==
    /\ 1 \in Sequencers
    /\ \A t \in Sequencers : (t % NumSequencers) + 1 \in Sequencers
<1>1. NumSequencers \in Nat \ {0}
  BY DaemonAssumption
<1>2. ASSUME NEW t \in Nat PROVE t % NumSequencers \in 0..(NumSequencers - 1)
  BY <1>1
<1> QED
  BY <1>1, <1>2 DEF Sequencers

\* A poll that returns leaves the loop's own variables well typed and no job
\* in hand; it stops, sleeps or goes on.
LEMMA ReturnFacts ==
    ASSUME TypeInv, NEW outcome \in Outcomes, Return(outcome)
    PROVE  /\ job' = NoJob /\ retried' = FALSE
           /\ pc' \in {"stopped", "sleep", "top"}
           /\ turn' \in Sequencers
           /\ idle_streak' \in Nat /\ proofs_generated' \in Nat
           /\ last' \in [Sequencers -> Outcomes]
<1>1. idle_streak' \in Nat
  BY DEF Return, TypeInv, Streak
<1>2. turn' \in Sequencers
  BY ClientFacts DEF Return, TypeInv, NextClient
<1> QED
  BY <1>1, <1>2 DEF Return, TypeInv

LEMMA AddFaultType == faults \in 0..2 /\ faults' = AddFault(1) => faults' \in 0..2 /\ faults' >= 1
BY DEF AddFault

-----------------------------------------------------------------------------
(* Types. *)

LEMMA InitType == Init => TypeInv
<1> SUFFICES ASSUME Init PROVE TypeInv
  OBVIOUS
<1>1. server \in [Jobs -> JobStates] /\ dirs \in [WorkDirs -> Jobs \cup {NoJob}]
        /\ last \in [Sequencers -> Outcomes]
  BY DEF Init, JobStates, Outcomes
<1>2. idle_streak \in Nat /\ proofs_generated \in Nat /\ faults \in 0..2
  BY DEF Init
<1>3. args \in CommandLines /\ unsupported \subseteq Sequencers
  BY DEF Init
<1>4. cancelled \in BOOLEAN /\ retried \in BOOLEAN /\ pc \in Awaits /\ setups \subseteq Programs
  BY DEF Init, Awaits
<1> QED
  BY <1>1, <1>2, <1>3, <1>4, ClientFacts DEF Init, TypeInv

\* A pick request either leases a pending job or leaves the server alone.
LEMMA LeaseType ==
    ASSUME TypeInv
    PROVE  /\ \A j \in Jobs : Lease(j) => server' \in [Jobs -> JobStates]
           /\ \A kind : NoneReceived(kind) => server' \in [Jobs -> JobStates]
           /\ \A kind : Offers(kind) \subseteq Jobs
BY DEF TypeInv, Lease, NoneReceived, Offers, JobStates

LEMMA TakeJobType ==
    ASSUME TypeInv, NEW j \in Jobs, TakeJob(j), server' \in [Jobs -> JobStates]
    PROVE  TypeInv'
BY JobFacts DEF TypeInv, TakeJob, FreshDir, Awaits

LEMMA NextType == TypeInv /\ [Next]_vars => TypeInv'
<1> SUFFICES ASSUME TypeInv, [Next]_vars PROVE TypeInv'
  OBVIOUS
<1>r. \A o \in Outcomes : Return(o) =>
        /\ job' = NoJob /\ retried' = FALSE /\ pc' \in {"stopped", "sleep", "top"}
        /\ turn' \in Sequencers /\ idle_streak' \in Nat /\ proofs_generated' \in Nat
        /\ last' \in [Sequencers -> Outcomes]
  BY ReturnFacts
<1>o. {"Idle", "Proved", "Retry", "Cancelled"} \subseteq Outcomes
  BY DEF Outcomes
<1>1. CASE Signal
  BY <1>1 DEF Signal, TypeInv, external, history
<1>2. ASSUME NEW j \in Jobs, ServerMoves(j) PROVE TypeInv'
  BY <1>2 DEF ServerMoves, TypeInv, JobStates, history
<1>3. CASE CoordinatorRestarts
  BY <1>3, AddFaultType DEF CoordinatorRestarts, TypeInv, external
<1>4. CASE SetupNotNeeded
  BY <1>4 DEF SetupNotNeeded, OnlySetup, AfterSetup, TypeInv, Awaits, external, history
<1>5. CASE SetupCancelled
  BY <1>5 DEF SetupCancelled, OnlySetup, TypeInv, Awaits, external, history
<1>6. CASE SetupWait
  BY <1>6 DEF SetupWait, OnlySetup, TypeInv, Awaits, external, history
<1>7. CASE Top
  BY <1>7 DEF Top, FirstRequest, TypeInv, Awaits, external
<1>8. CASE Sleep
  BY <1>8 DEF Sleep, TypeInv, Awaits, external, Outcomes
<1>9. CASE PickRange
  <2>1. ASSUME NEW j \in Offers("range"), Lease(j), TakeJob(j) PROVE TypeInv'
    BY <2>1, LeaseType, TakeJobType
  <2>2. ASSUME NEW j \in Offers("range"), Lease(j), Return("Retry"),
               UNCHANGED <<args, unsupported, setups, cancelled, dirs, faults>>
        PROVE  TypeInv'
    BY <2>2, <1>r, <1>o, LeaseType DEF TypeInv, Awaits
  <2>3. ASSUME NoneReceived("range"), Return("Idle"),
               UNCHANGED <<args, unsupported, setups, cancelled, dirs, faults>>
        PROVE  TypeInv'
    BY <2>3, <1>r, <1>o, LeaseType DEF TypeInv, Awaits
  <2>4. ASSUME NoneReceived("range"), pc' = "pick_batch",
               UNCHANGED <<args, unsupported, setups, cancelled, turn, job, retried,
                           dirs, idle_streak, proofs_generated, history>>
        PROVE  TypeInv'
    BY <2>4, LeaseType DEF TypeInv, Awaits, history
  <2> QED
    BY <1>9, <2>1, <2>2, <2>3, <2>4 DEF PickRange
<1>10. CASE PickBatch
  <2>1. ASSUME NEW j \in Offers("batch"), Lease(j), TakeJob(j) PROVE TypeInv'
    BY <2>1, LeaseType, TakeJobType
  <2>2. ASSUME NoneReceived("batch"), Return("Idle"),
               UNCHANGED <<args, unsupported, setups, cancelled, dirs, faults>>
        PROVE  TypeInv'
    BY <2>2, <1>r, <1>o, LeaseType DEF TypeInv, Awaits
  <2> QED
    BY <1>10, <2>1, <2>2 DEF PickBatch
<1>11. CASE SkipPause
  BY <1>11, <1>r, <1>o DEF SkipPause, TypeInv, Awaits, external
<1>12. CASE RunCancelled
  BY <1>12, <1>r, <1>o DEF RunCancelled, finish_run, CleanedUp, TypeInv, Awaits, external
<1>13. CASE Submit
  <2>1. \A a \in send(job) : a.server \in [Jobs -> JobStates]
    BY DEF send, TypeInv, JobStates
  <2>2. server' \in [Jobs -> JobStates]
    BY <1>13, <2>1 DEF Submit, submit_zisk_proof, submit_aggregated_proof
  <2>3. dirs' \in [WorkDirs -> Jobs \cup {NoJob}]
    BY <1>13 DEF Submit, CleanedUp, TypeInv
  <2>4. Return("Proved") \/ Return("Retry")
    BY <1>13 DEF Submit
  <2> QED
    BY <1>13, <2>2, <2>3, <2>4, <1>r, <1>o DEF Submit, TypeInv, Awaits
<1>14. CASE SetupExits
  BY <1>14 DEF SetupExits, OnlySetup, AfterSetup, SetupProgram, TypeInv, Awaits, Programs,
               external, history
<1>15. CASE ProveSucceeds
  BY <1>15 DEF ProveSucceeds, TypeInv, Awaits, external, history
<1>16. CASE ProveWritesNothing
  <2>1. CASE dirs[work_dir(job)] # NoJob
    BY <1>16, <2>1 DEF ProveWritesNothing, TypeInv, Awaits, external, history
  <2>2. CASE dirs[work_dir(job)] = NoJob
    <3>1. Return("Retry") /\ dirs' = dirs /\ faults' = 2
            /\ UNCHANGED <<args, setups, cancelled, external>>
      BY <1>16, <2>2 DEF ProveWritesNothing, finish_run
    <3>2. faults' \in 0..2
      BY <3>1
    <3> QED
      BY <3>1, <3>2, <1>r, <1>o DEF TypeInv, Awaits, external
  <2> QED
    BY <2>1, <2>2
<1>17. CASE ProveFails
  <2>1. faults' \in 0..2
    BY <1>17, AddFaultType DEF ProveFails, TypeInv
  <2> QED
    BY <1>17, <2>1, <1>r, <1>o DEF ProveFails, Resetup, finish_run, TypeInv, Awaits, external
<1>18. CASE ResetupExits
  <2>1. faults' \in 0..2
    BY <1>18, AddFaultType DEF ResetupExits, TypeInv, history
  <2>2. Elf(job) \in Programs
    BY DEF Elf, Programs
  <2> QED
    BY <1>18, <2>1, <2>2, <1>r, <1>o DEF ResetupExits, finish_run, TypeInv, Awaits, external, history
<1>19. CASE UNCHANGED vars
  BY <1>19 DEF vars, TypeInv
<1> QED
  BY <1>1, <1>2, <1>3, <1>4, <1>5, <1>6, <1>7, <1>8, <1>9, <1>10, <1>11, <1>12, <1>13, <1>14,
     <1>15, <1>16, <1>17, <1>18, <1>19 DEF Next, DaemonStep, ChildExits

-----------------------------------------------------------------------------
(* The work directories. *)

\* Taking a job empties its directory and no other.
LEMMA TakeJobDirs ==
    ASSUME TypeInv, DirsInv, NEW j \in Jobs, TakeJob(j)
    PROVE  DirsInv'
<1>1. job' = j /\ work_dir(j) \in WorkDirs
  BY JobFacts DEF TakeJob
<1>2. CASE Skipped(j)
  BY <1>1, <1>2 DEF TakeJob, DirsInv, Proving
<1>3. CASE ~Skipped(j)
  <2>1. pc' = "prove" /\ dirs' = [dirs EXCEPT ![work_dir(j)] = NoJob]
    BY <1>3 DEF TakeJob, FreshDir
  <2> QED
    BY <1>1, <2>1 DEF DirsInv, Proving, TypeInv
<1> QED
  BY <1>2, <1>3

\* A step that leaves a poll keeps the directories in order if it empties at
\* most the directory of the job it leaves.
LEMMA ReturnDirs ==
    ASSUME TypeInv, DirsInv, NEW outcome \in Outcomes, Return(outcome),
           dirs' = dirs \/ (job \in Jobs /\ dirs' = CleanedUp)
    PROVE  DirsInv'
<1>1. pc' \in {"stopped", "sleep", "top"}
  BY ReturnFacts
<1>2. \A d \in WorkDirs : dirs'[d] # NoJob => work_dir(dirs'[d]) = d
  BY JobFacts DEF DirsInv, CleanedUp, TypeInv
<1> QED
  BY <1>1, <1>2 DEF DirsInv, Proving

LEMMA NextDirs == TypeInv /\ DirsInv /\ [Next]_vars => DirsInv'
<1> SUFFICES ASSUME TypeInv, DirsInv, [Next]_vars PROVE DirsInv'
  OBVIOUS
<1>o. {"Idle", "Proved", "Retry", "Cancelled"} \subseteq Outcomes
  BY DEF Outcomes
<1>f. finish_run("Retry") = dirs /\ finish_run("Cancelled") = CleanedUp
  BY DEF finish_run
<1>1. CASE Signal
  BY <1>1 DEF Signal, DirsInv, Proving
<1>2. ASSUME NEW j \in Jobs, ServerMoves(j) PROVE DirsInv'
  BY <1>2 DEF ServerMoves, DirsInv, Proving
<1>3. CASE CoordinatorRestarts
  BY <1>3 DEF CoordinatorRestarts, DirsInv, Proving
<1>4. CASE SetupNotNeeded
  BY <1>4 DEF SetupNotNeeded, OnlySetup, AfterSetup, DirsInv, Proving
<1>5. CASE SetupCancelled
  BY <1>5 DEF SetupCancelled, OnlySetup, DirsInv, Proving
<1>6. CASE SetupWait
  BY <1>6 DEF SetupWait, OnlySetup, DirsInv, Proving
<1>7. CASE Top
  BY <1>7 DEF Top, FirstRequest, DirsInv, Proving
<1>8. CASE Sleep
  BY <1>8 DEF Sleep, DirsInv, Proving
<1>9. CASE PickRange
  <2>1. ASSUME NEW j \in Offers("range"), TakeJob(j) PROVE DirsInv'
    BY <2>1, LeaseType, TakeJobDirs
  <2>2. ASSUME NEW o \in {"Retry", "Idle"}, Return(o), dirs' = dirs PROVE DirsInv'
    BY <2>2, <1>o, ReturnDirs
  <2>3. ASSUME pc' = "pick_batch", UNCHANGED <<job, dirs>> PROVE DirsInv'
    BY <2>3 DEF DirsInv, Proving
  <2> QED
    BY <1>9, <2>1, <2>2, <2>3 DEF PickRange
<1>10. CASE PickBatch
  <2>1. ASSUME NEW j \in Offers("batch"), TakeJob(j) PROVE DirsInv'
    BY <2>1, LeaseType, TakeJobDirs
  <2>2. ASSUME Return("Idle"), dirs' = dirs PROVE DirsInv'
    BY <2>2, <1>o, ReturnDirs
  <2> QED
    BY <1>10, <2>1, <2>2 DEF PickBatch
<1>11. CASE SkipPause
  BY <1>11, <1>o, ReturnDirs DEF SkipPause
<1>12. CASE RunCancelled
  BY <1>12, <1>o, <1>f, ReturnDirs DEF RunCancelled, DirsInv, Proving
<1>13. CASE Submit
  <2>1. job \in Jobs
    BY <1>13 DEF Submit, DirsInv
  <2>2. (Return("Proved") /\ dirs' = CleanedUp) \/ (Return("Retry") /\ dirs' = dirs)
    BY <1>13 DEF Submit
  <2> QED
    BY <2>1, <2>2, <1>o, ReturnDirs
<1>14. CASE SetupExits
  BY <1>14 DEF SetupExits, OnlySetup, AfterSetup, DirsInv, Proving
<1>15. CASE ProveSucceeds
  <2>1. job \in Jobs /\ work_dir(job) \in WorkDirs
    BY <1>15, JobFacts DEF ProveSucceeds, DirsInv
  <2>2. dirs' = [dirs EXCEPT ![work_dir(job)] = job] /\ pc' = "submit" /\ job' = job
    BY <1>15 DEF ProveSucceeds
  <2> QED
    BY <2>1, <2>2 DEF DirsInv, Proving, TypeInv
<1>16. CASE ProveWritesNothing
  <2>1. dirs[work_dir(job)] = NoJob
    BY <1>16 DEF ProveWritesNothing, DirsInv, Proving
  <2>2. Return("Retry") /\ dirs' = dirs
    BY <1>16, <2>1, <1>f DEF ProveWritesNothing
  <2> QED
    BY <2>2, <1>o, ReturnDirs
<1>17. CASE ProveFails
  <2>1. CASE args.coordinator /\ ~retried
    BY <1>17, <2>1 DEF ProveFails, Resetup, DirsInv, Proving
  <2>2. CASE ~(args.coordinator /\ ~retried)
    BY <1>17, <2>2, <1>o, <1>f, ReturnDirs DEF ProveFails
  <2> QED
    BY <2>1, <2>2
<1>18. CASE ResetupExits
  <2>1. ASSUME pc' = "prove", UNCHANGED <<job, dirs>> PROVE DirsInv'
    BY <1>18, <2>1 DEF ResetupExits, DirsInv, Proving
  <2>2. ASSUME Return("Retry"), dirs' = finish_run("Retry") PROVE DirsInv'
    BY <2>2, <1>o, <1>f, ReturnDirs
  <2> QED
    BY <1>18, <2>1, <2>2 DEF ResetupExits
<1>19. CASE UNCHANGED vars
  BY <1>19 DEF vars, DirsInv, Proving
<1> QED
  BY <1>1, <1>2, <1>3, <1>4, <1>5, <1>6, <1>7, <1>8, <1>9, <1>10, <1>11, <1>12, <1>13, <1>14,
     <1>15, <1>16, <1>17, <1>18, <1>19 DEF Next, DaemonStep, ChildExits

-----------------------------------------------------------------------------
(* The programs that are set up, and the faults of a run. *)

\* What the invariants on programs and faults are made of: a step that keeps
\* the command line and the programs and ends in the poll loop between two runs.
LEMMA BetweenRuns ==
    ASSUME ProgramsInv, args' = args, setups' = setups,
           pc \notin {"setup", "setup_aggregator", "setup_wait", "stopped"},
           pc' \in {"stopped", "sleep", "top", "skip"}, ~retried'
    PROVE  ProgramsInv' /\ FaultsInv'
BY DEF ProgramsInv, FaultsInv, Proving, Proves, TakesBatches, TakesRanges

\* The command line always names a kind of job that the first request asks for.
LEMMA FirstRequestFacts ==
    ASSUME args \in CommandLines
    PROVE  /\ FirstRequest(args) = "pick_range" => Proves(args, "aggregator")
           /\ FirstRequest(args) = "pick_batch" => Proves(args, "guest")
           /\ FirstRequest(args) \in {"pick_range", "pick_batch"}
<1>1. args.jobs \in {"All", "Batches", "Ranges"} /\ (args.jobs # "All" => args.aggregation)
  BY DEF CommandLines
<1> QED
  BY <1>1 DEF FirstRequest, Proves, TakesBatches, TakesRanges

\* A run starts with the program of its job set up, or against a coordinator
\* with the fault that lost it already counted.
LEMMA TakeJobStarts ==
    ASSUME TypeInv, ProgramsInv, FaultsInv, NEW j \in Jobs, TakeJob(j),
           Proves(args, Elf(j)), pc \in {"pick_range", "pick_batch"}
    PROVE  ProgramsInv' /\ FaultsInv'
<1>1. CASE Skipped(j)
  BY <1>1, BetweenRuns DEF TakeJob, FaultsInv
<1>2. CASE ~Skipped(j)
  <2>1. /\ job' = j /\ pc' = "prove" /\ args' = args /\ setups' = setups
        /\ ~retried /\ ~retried'
        /\ faults' = IF args.coordinator /\ Elf(j) \notin setups THEN 1 ELSE 0
    BY <1>2 DEF TakeJob, FaultsInv
  <2>2. ProgramsInv'
    BY <2>1 DEF ProgramsInv, Proving, Proves, TakesBatches, TakesRanges
  <2>3. FaultsInv'
    BY <2>1 DEF FaultsInv
  <2> QED
    BY <2>2, <2>3
<1> QED
  BY <1>1, <1>2

\* A run that ends in failure has met its faults: one without a coordinator,
\* two with one.
FailsOnlyFaulty == (Proving /\ pc' = "top") => faults' >= (IF args.coordinator THEN 2 ELSE 1)

LEMMA NextFaults ==
    ASSUME TypeInv, DirsInv, ProgramsInv, FaultsInv, [Next]_vars
    PROVE  ProgramsInv' /\ FaultsInv' /\ (FailsOnlyFaulty \/ UNCHANGED vars)
<1> DEFINE Goal == ProgramsInv' /\ FaultsInv' /\ (FailsOnlyFaulty \/ UNCHANGED vars)
<1>o. {"Idle", "Proved", "Retry", "Cancelled"} \subseteq Outcomes
  BY DEF Outcomes
<1>r. \A o \in Outcomes : Return(o) => pc' \in {"stopped", "sleep", "top"} /\ ~retried'
  BY ReturnFacts
<1>1. CASE Signal
  BY <1>1 DEF Signal, ProgramsInv, FaultsInv, FailsOnlyFaulty, Proving, history
<1>2. ASSUME NEW j \in Jobs, ServerMoves(j) PROVE Goal
  BY <1>2 DEF ServerMoves, ProgramsInv, FaultsInv, FailsOnlyFaulty, Proving, history
<1>3. CASE CoordinatorRestarts
  <2>1. args.coordinator /\ args' = args /\ UNCHANGED <<pc, job, retried>>
          /\ faults' = IF Proving THEN AddFault(1) ELSE faults
    BY <1>3 DEF CoordinatorRestarts
  <2>2. faults \in 0..2
    BY DEF TypeInv
  <2>3. ProgramsInv'
    BY <2>1 DEF ProgramsInv, Proving
  <2>4. FaultsInv'
    BY <2>1, <2>2 DEF FaultsInv, Proving, AddFault
  <2> QED
    BY <2>1, <2>3, <2>4 DEF FailsOnlyFaulty, Proving
<1>4. CASE SetupNotNeeded
  BY <1>4 DEF SetupNotNeeded, InSetup, SetupProgram, OnlySetup, AfterSetup, ProgramsInv, FaultsInv,
              FailsOnlyFaulty, Proving
<1>5. CASE SetupCancelled
  BY <1>5 DEF SetupCancelled, InSetup, OnlySetup, ProgramsInv, FaultsInv, FailsOnlyFaulty, Proving
<1>6. CASE SetupWait
  BY <1>6 DEF SetupWait, OnlySetup, ProgramsInv, FaultsInv, FailsOnlyFaulty, Proving
<1>7. CASE Top
  <2>1. args' = args /\ setups' = setups /\ retried' = retried /\ pc = "top"
          /\ (pc' = "stopped" \/ pc' = FirstRequest(args))
    BY <1>7 DEF Top
  <2>2. args \in CommandLines
    BY DEF TypeInv
  <2>3. ProgramsInv'
    BY <2>1, <2>2, FirstRequestFacts DEF ProgramsInv, Proving
  <2>4. FaultsInv'
    BY <2>1, <2>2, FirstRequestFacts DEF FaultsInv
  <2> QED
    BY <2>1, <2>3, <2>4 DEF FailsOnlyFaulty, Proving
<1>8. CASE Sleep
  BY <1>8, BetweenRuns DEF Sleep, FaultsInv, FailsOnlyFaulty, Proving
<1>9. CASE PickRange
  <2>1. pc = "pick_range" /\ Proves(args, "aggregator")
    BY <1>9 DEF PickRange, ProgramsInv
  <2>2. FailsOnlyFaulty
    BY <2>1 DEF FailsOnlyFaulty, Proving
  <2>3. ASSUME NEW j \in Offers("range"), TakeJob(j) PROVE Goal
    <3>1. j \in Jobs /\ Elf(j) = "aggregator"
      BY DEF Offers, Elf
    <3> QED
      BY <2>1, <2>2, <2>3, <3>1, TakeJobStarts
  <2>4. ASSUME NEW o \in {"Retry", "Idle"}, Return(o), UNCHANGED <<args, setups>> PROVE Goal
    BY <2>1, <2>2, <2>4, <1>o, <1>r, BetweenRuns
  <2>5. ASSUME TakesBatches(args), pc' = "pick_batch", UNCHANGED <<args, setups, retried>>
        PROVE  Goal
    BY <2>1, <2>2, <2>5 DEF ProgramsInv, FaultsInv, Proving, Proves
  <2> QED
    BY <1>9, <2>3, <2>4, <2>5 DEF PickRange
<1>10. CASE PickBatch
  <2>1. pc = "pick_batch" /\ Proves(args, "guest")
    BY <1>10 DEF PickBatch, ProgramsInv
  <2>2. FailsOnlyFaulty
    BY <2>1 DEF FailsOnlyFaulty, Proving
  <2>3. ASSUME NEW j \in Offers("batch"), TakeJob(j) PROVE Goal
    <3>1. j \in Jobs /\ Elf(j) = "guest"
      BY DEF Offers, Elf
    <3> QED
      BY <2>1, <2>2, <2>3, <3>1, TakeJobStarts
  <2>4. ASSUME Return("Idle"), UNCHANGED <<args, setups>> PROVE Goal
    BY <2>1, <2>2, <2>4, <1>o, <1>r, BetweenRuns
  <2> QED
    BY <1>10, <2>3, <2>4 DEF PickBatch
<1>11. CASE SkipPause
  BY <1>11, <1>o, <1>r, BetweenRuns DEF SkipPause, FailsOnlyFaulty, Proving
<1>12. CASE RunCancelled
  <2>1. Return("Cancelled") /\ UNCHANGED <<args, setups>> /\ pc \in {"prove", "resetup"}
    BY <1>12 DEF RunCancelled, Proving
  <2>2. pc' = "stopped"
    BY <2>1 DEF Return
  <2> QED
    BY <2>1, <2>2, <1>o, <1>r, BetweenRuns DEF FailsOnlyFaulty
<1>13. CASE Submit
  <2>1. (Return("Proved") \/ Return("Retry")) /\ UNCHANGED <<args, setups>> /\ pc = "submit"
    BY <1>13 DEF Submit
  <2> QED
    BY <2>1, <1>o, <1>r, BetweenRuns DEF FailsOnlyFaulty, Proving
<1>14. CASE SetupExits
  BY <1>14 DEF SetupExits, InSetup, SetupProgram, OnlySetup, AfterSetup, ProgramsInv, FaultsInv,
               FailsOnlyFaulty, Proving
<1>15. CASE ProveSucceeds
  BY <1>15 DEF ProveSucceeds, ProgramsInv, FaultsInv, FailsOnlyFaulty, Proving
<1>16. CASE ProveWritesNothing
  <2>1. pc = "prove" /\ dirs[work_dir(job)] = NoJob
    BY <1>16 DEF ProveWritesNothing, DirsInv, Proving
  <2>2. Return("Retry") /\ faults' = 2 /\ UNCHANGED <<args, setups>>
    BY <1>16, <2>1 DEF ProveWritesNothing
  <2>3. FailsOnlyFaulty
    BY <2>2 DEF FailsOnlyFaulty
  <2> QED
    BY <2>1, <2>2, <2>3, <1>o, <1>r, BetweenRuns
<1>17. CASE ProveFails
  <2>1. /\ pc = "prove" /\ UNCHANGED <<args, setups>> /\ faults \in 0..2
        /\ faults' = IF Elf(job) \in setups THEN AddFault(1) ELSE faults
    BY <1>17 DEF ProveFails, TypeInv
  <2>2. CASE args.coordinator /\ ~retried
    <3>1. pc' = "resetup" /\ retried' = TRUE /\ job' = job
      BY <1>17, <2>2 DEF ProveFails, Resetup
    <3>2. faults' >= 1
      BY <2>1, <2>2 DEF FaultsInv, AddFault
    <3> QED
      BY <2>1, <2>2, <3>1, <3>2 DEF ProgramsInv, FaultsInv, FailsOnlyFaulty, Proving
  <2>3. CASE ~(args.coordinator /\ ~retried)
    <3>1. Return("Retry")
      BY <1>17, <2>3 DEF ProveFails
    <3>2. ProgramsInv' /\ FaultsInv'
      BY <2>1, <3>1, <1>o, <1>r, BetweenRuns
    <3>3. CASE args.coordinator
      <4>1. retried
        BY <2>3, <3>3
      <4>2. faults' >= 2
        BY <2>1, <3>3, <4>1 DEF FaultsInv, AddFault
      <4> QED
        BY <3>2, <3>3, <4>2 DEF FailsOnlyFaulty
    <3>4. CASE ~args.coordinator
      <4>1. Elf(job) \in {"guest", "aggregator"}
        BY DEF Elf
      <4>2. Elf(job) \in setups
        BY <2>1, <3>4, <4>1 DEF ProgramsInv, Proving
      <4>3. faults' >= 1
        BY <2>1, <4>2 DEF AddFault
      <4> QED
        BY <3>2, <3>4, <4>3 DEF FailsOnlyFaulty
    <3> QED
      BY <3>3, <3>4
  <2> QED
    BY <2>2, <2>3
<1>18. CASE ResetupExits
  <2>1. pc = "resetup" /\ args' = args /\ args.coordinator /\ retried /\ faults \in 1..2
    BY <1>18 DEF ResetupExits, FaultsInv, TypeInv
  <2>2. ASSUME setups' = setups \cup {Elf(job)}, pc' = "prove", UNCHANGED <<job, retried, faults>>
        PROVE  Goal
    BY <2>1, <2>2 DEF ProgramsInv, FaultsInv, FailsOnlyFaulty, Proving
  <2>3. ASSUME setups' = setups, Return("Retry"), faults' = AddFault(1) PROVE Goal
    <3>1. faults' >= 2
      BY <2>1, <2>3 DEF AddFault
    <3> QED
      BY <2>1, <2>3, <3>1, <1>o, <1>r, BetweenRuns DEF FailsOnlyFaulty
  <2> QED
    BY <1>18, <2>2, <2>3 DEF ResetupExits, history
<1>19. CASE UNCHANGED vars
  BY <1>19 DEF vars, ProgramsInv, FaultsInv, Proving
<1> QED
  BY <1>1, <1>2, <1>3, <1>4, <1>5, <1>6, <1>7, <1>8, <1>9, <1>10, <1>11, <1>12, <1>13, <1>14,
     <1>15, <1>16, <1>17, <1>18, <1>19 DEF Next, DaemonStep, ChildExits

-----------------------------------------------------------------------------
(* When a proof leaves the disk. *)

\* One step of ProofKeptUntilRecorded, for one directory.
Kept(d) ==
    (dirs[d] # NoJob /\ dirs'[d] # dirs[d])
        => \/ server'[dirs[d]] = "done"
           \/ pc' = "prove" /\ work_dir(job') = d
           \/ Proving /\ cancelled /\ work_dir(job) = d

LEMMA NextKeeps ==
    ASSUME TypeInv, DirsInv, [Next]_vars, NEW d \in WorkDirs
    PROVE  Kept(d)
<1>c. ASSUME job \in Jobs PROVE \A e \in WorkDirs \ {work_dir(job)} : CleanedUp[e] = dirs[e]
  BY DEF CleanedUp, TypeInv
<1>s. ASSUME dirs' = dirs PROVE Kept(d)
  BY <1>s DEF Kept
<1>t. ASSUME NEW j \in Jobs, TakeJob(j) PROVE Kept(d)
  <2>1. dirs' = dirs \/ (pc' = "prove" /\ job' = j /\ dirs' = [dirs EXCEPT ![work_dir(j)] = NoJob])
    BY <1>t DEF TakeJob, FreshDir
  <2> QED
    BY <2>1, JobFacts DEF Kept, TypeInv
<1>1. CASE Signal \/ CoordinatorRestarts \/ SetupNotNeeded \/ SetupCancelled \/ SetupWait
             \/ Top \/ Sleep \/ SkipPause \/ SetupExits \/ UNCHANGED vars
  BY <1>1, <1>s DEF Signal, CoordinatorRestarts, SetupNotNeeded, SetupCancelled, SetupWait,
                    Top, Sleep, SkipPause, SetupExits, OnlySetup, vars
<1>2. ASSUME NEW j \in Jobs, ServerMoves(j) PROVE Kept(d)
  BY <1>2, <1>s DEF ServerMoves
<1>3. CASE PickRange
  <2>1. dirs' = dirs \/ \E j \in Jobs : TakeJob(j)
    BY <1>3, LeaseType DEF PickRange
  <2> QED
    BY <2>1, <1>s, <1>t
<1>4. CASE PickBatch
  <2>1. dirs' = dirs \/ \E j \in Jobs : TakeJob(j)
    BY <1>4, LeaseType DEF PickBatch
  <2> QED
    BY <2>1, <1>s, <1>t
<1>5. CASE RunCancelled
  <2>1. Proving /\ cancelled /\ job \in Jobs /\ dirs' = CleanedUp
    BY <1>5 DEF RunCancelled, finish_run, Proving, DirsInv
  <2> QED
    BY <2>1, <1>c DEF Kept
<1>6. CASE Submit
  <2>1. job \in Jobs /\ dirs[work_dir(job)] = job
    BY <1>6 DEF Submit, DirsInv
  <2>2. dirs' = dirs \/ (dirs' = CleanedUp /\ \E a \in send(job) : a.ok = TRUE /\ server' = a.server)
    BY <1>6 DEF Submit, submit_zisk_proof, submit_aggregated_proof, send
  <2>3. \A a \in send(job) : a.ok = TRUE => a.server[job] = "done"
    BY <2>1 DEF send, TypeInv
  <2> QED
    BY <2>1, <2>2, <2>3, <1>c, <1>s DEF Kept
<1>7. CASE ProveSucceeds
  <2>1. job \in Jobs /\ dirs[work_dir(job)] = NoJob
    BY <1>7 DEF ProveSucceeds, Proving, DirsInv
  <2>2. dirs' = [dirs EXCEPT ![work_dir(job)] = job]
    BY <1>7 DEF ProveSucceeds
  <2> QED
    BY <2>1, <2>2 DEF Kept, TypeInv
<1>8. CASE ProveWritesNothing
  BY <1>8, <1>s DEF ProveWritesNothing, finish_run
<1>9. CASE ProveFails
  BY <1>9, <1>s DEF ProveFails, finish_run
<1>10. CASE ResetupExits
  BY <1>10, <1>s DEF ResetupExits, finish_run
<1> QED
  BY <1>1, <1>2, <1>3, <1>4, <1>5, <1>6, <1>7, <1>8, <1>9, <1>10 DEF Next, DaemonStep, ChildExits

-----------------------------------------------------------------------------
(* The theorems. *)

LEMMA InitInv == Init => DaemonInv
<1> SUFFICES ASSUME Init PROVE DaemonInv
  OBVIOUS
<1>1. DirsInv
  BY DEF Init, DirsInv, Proving
<1>2. ProgramsInv /\ FaultsInv
  BY DEF Init, ProgramsInv, FaultsInv, Proving
<1> QED
  BY <1>1, <1>2, InitType DEF DaemonInv

LEMMA DaemonAlwaysInv == Spec => []DaemonInv
<1>1. DaemonInv /\ [Next]_vars => DaemonInv'
  BY NextType, NextDirs, NextFaults DEF DaemonInv
<1> QED
  BY <1>1, InitInv, PTL DEF Spec

\* prover.rs generate_*_proof: with any number of sequencers whose batches share
\* numbers, and so directories, the proof submitted is that of the job picked.
THEOREM AlwaysSubmitsOwnProof == Spec => []SubmitsOwnProof
<1>1. DaemonInv => SubmitsOwnProof
  BY DEF DaemonInv, DirsInv, SubmitsOwnProof
<1> QED
  BY <1>1, DaemonAlwaysInv, PTL

\* prover.rs finish_run and cleanup: a proof leaves the disk only once its
\* sequencer recorded it, or to make room for a run in the same directory.
THEOREM ProofsAlwaysKept == Spec => ProofKeptUntilRecorded
<1>1. DaemonInv /\ [Next]_vars =>
        [\A d \in WorkDirs :
          (dirs[d] # NoJob /\ dirs'[d] # dirs[d])
              => \/ server'[dirs[d]] = "done"
                 \/ pc' = "prove" /\ work_dir(job') = d
                 \/ Proving /\ cancelled /\ work_dir(job) = d]_vars
  BY NextKeeps DEF DaemonInv, Kept
<1> QED
  BY <1>1, DaemonAlwaysInv, PTL DEF Spec, ProofKeptUntilRecorded

\* prover.rs run_prove, main.rs's start-up loop: a proving run fails only through
\* a fault of its own subprocess, and against a coordinator only through two.
THEOREM AlwaysSurvivesOneFault == Spec => SurvivesOneFault
<1>1. DaemonInv /\ [Next]_vars =>
        [(Proving /\ pc' = "top") => faults' >= (IF args.coordinator THEN 2 ELSE 1)]_vars
  BY NextFaults DEF DaemonInv, FailsOnlyFaulty
<1> QED
  BY <1>1, DaemonAlwaysInv, PTL DEF Spec, SurvivesOneFault
=============================================================================
