---------------------------- MODULE ProverDaemon ----------------------------
(***************************************************************************)
(* The prover daemon (prover/src/main.rs, prover.rs, sequencer_client.rs): *)
(* one process that sets up its guest programs, then polls its sequencers  *)
(* round-robin, proves the job it is handed in a subprocess and submits    *)
(* the proof.  Around it run the sequencers' job servers (leases expire,   *)
(* other daemons take work), the coordinator (it keeps program setups in   *)
(* memory and forgets them when it restarts), and the signal handler that  *)
(* cancels the shutdown token at any moment.                               *)
(*                                                                         *)
(* A proof is represented by the job whose input it was computed from.  A  *)
(* step runs from one await of the daemon's task to the next: nothing else *)
(* of that task runs in between, while the servers, the coordinator, the   *)
(* subprocess and the signal handler do.                                   *)
(***************************************************************************)
EXTENDS Naturals

CONSTANTS
    NumSequencers,  \* sequencer URLs on the command line
    NumBatches,     \* bound: batches each sequencer hands out, from 1
    MaxIterations,  \* bound: largest --iterations value (0: no limit)
    Backends        \* which of the two backends are run: TRUE is the coordinator

ASSUME DaemonAssumption ==
    /\ NumSequencers \in Nat \ {0}
    /\ NumBatches \in Nat \ {0}
    /\ MaxIterations \in Nat
    /\ Backends \subseteq BOOLEAN

VARIABLES
    args,         \* the command line: fixed for the life of the process
    unsupported,  \* sequencers whose jobs carry an identity outside the filter
    server,       \* per job, its state at its sequencer's job server
    setups,       \* programs the toolchain or the coordinator has set up
    cancelled,    \* the shutdown token
    pc,           \* the await the daemon's task is suspended at
    turn,         \* the client the round-robin iterator is at
    job,          \* the job being served, NoJob between polls
    retried,      \* run_prove is in its second attempt
    dirs,         \* per work directory, the job whose proof file lies in it
    idle_streak,  \* IdleCycle.idle_streak
    proofs_generated,
    last,         \* history: per sequencer, its latest outcome since the last sleep
    faults        \* history: faults that hit the current proving run (up to 2)

vars == <<args, unsupported, server, setups, cancelled, pc, turn, job, retried,
          dirs, idle_streak, proofs_generated, last, faults>>

external == <<unsupported, server>>
history  == <<last, faults>>

Sequencers == 1..NumSequencers

BatchJob(s, n) == [seq |-> s, kind |-> "batch", from |-> n, to |-> n]
RangeJob(s)    == [seq |-> s, kind |-> "range", from |-> 1, to |-> NumBatches]
Jobs == {BatchJob(s, n) : s \in Sequencers, n \in 1..NumBatches}
           \cup {RangeJob(s) : s \in Sequencers}
NoJob == [seq |-> 0, kind |-> "none", from |-> 0, to |-> 0]

(* The directory is named after the batch or the range, not the sequencer. *)
work_dir(j) == [kind |-> j.kind, from |-> j.from, to |-> j.to]
WorkDirs    == {work_dir(j) : j \in Jobs}

Programs == {"guest", "aggregator"}
Elf(j)   == IF j.kind = "range" THEN "aggregator" ELSE "guest"

TakesBatches(a) == a.jobs \in {"All", "Batches"}
TakesRanges(a)  == a.jobs \in {"All", "Ranges"}

(* `--jobs` selects a kind only in aggregated mode. *)
CommandLines ==
    {a \in [aggregation : BOOLEAN, jobs : {"All", "Batches", "Ranges"},
            coordinator : Backends, iterations : 0..MaxIterations] :
        a.jobs # "All" => a.aggregation}

Init ==
    /\ args \in CommandLines
    /\ unsupported \in SUBSET Sequencers
    /\ server = [j \in Jobs |-> IF j.kind = "batch" THEN "pending" ELSE "unformed"]
    /\ setups = {}
    /\ cancelled = FALSE
    /\ pc = "setup"
    /\ turn = 1
    /\ job = NoJob
    /\ retried = FALSE
    /\ dirs = [d \in WorkDirs |-> NoJob]
    /\ idle_streak = 0
    /\ proofs_generated = 0
    /\ last = [s \in Sequencers |-> "none"]
    /\ faults = 0

-----------------------------------------------------------------------------
(* The environment *)

(* SIGINT or SIGTERM: the spawned task cancels the token. *)
Signal ==
    /\ ~cancelled
    /\ cancelled' = TRUE
    /\ UNCHANGED <<args, setups, pc, turn, job, retried, dirs, idle_streak,
                   proofs_generated, external, history>>

(* What this daemon's servers do on their own: a lease runs out, another   *)
(* daemon finishes a job, and a range is formed once its batches are done. *)
ServerMoves(j) ==
    /\ \/ server[j] = "leased"  /\ server' = [server EXCEPT ![j] = "pending"]
       \/ server[j] = "pending" /\ server' = [server EXCEPT ![j] = "done"]
       \/ /\ server[j] = "unformed"
          /\ \A n \in 1..NumBatches : server[BatchJob(j.seq, n)] = "done"
          /\ server' = [server EXCEPT ![j] = "pending"]
    /\ UNCHANGED <<args, unsupported, setups, cancelled, pc, turn, job, retried,
                   dirs, idle_streak, proofs_generated, history>>

(* The programs the coordinator lost count as a fault only for a run that  *)
(* was already under way.                                                  *)
AddFault(n) == IF faults + n > 2 THEN 2 ELSE faults + n

Proving == pc \in {"prove", "resetup"}

CoordinatorRestarts ==
    /\ args.coordinator
    /\ setups # {}
    /\ setups' = {}
    /\ faults' = IF Proving THEN AddFault(1) ELSE faults
    /\ UNCHANGED <<args, cancelled, pc, turn, job, retried, dirs, idle_streak,
                   proofs_generated, last, external>>

-----------------------------------------------------------------------------
(* Startup: program setup, retried only against a coordinator *)

(* Which of the two programs this command line's jobs prove. *)
Proves(a, program) ==
    IF program = "guest" THEN TakesBatches(a) ELSE a.aggregation /\ TakesRanges(a)

(* The startup loop: first the guest, then the aggregator. *)
InSetup      == pc \in {"setup", "setup_aggregator"}
SetupProgram == IF pc = "setup" THEN "guest" ELSE "aggregator"
AfterSetup   == IF pc = "setup" THEN "setup_aggregator" ELSE "top"

OnlySetup == <<args, cancelled, turn, job, retried, dirs, idle_streak,
               proofs_generated, external, history>>

SetupNotNeeded ==
    /\ InSetup
    /\ ~Proves(args, SetupProgram)
    /\ pc' = AfterSetup
    /\ UNCHANGED <<setups, OnlySetup>>

(* The setup subprocess exits.  A failure against a coordinator goes back  *)
(* to the first program after a delay; the local backend fails fast.       *)
SetupExits ==
    /\ InSetup
    /\ Proves(args, SetupProgram)
    /\ \/ setups' = setups \cup {SetupProgram} /\ pc' = AfterSetup
       \/ UNCHANGED setups /\ pc' = IF args.coordinator THEN "setup_wait" ELSE "stopped"
    /\ UNCHANGED OnlySetup

SetupCancelled ==
    /\ InSetup
    /\ Proves(args, SetupProgram)
    /\ cancelled
    /\ pc' = "stopped"
    /\ UNCHANGED <<setups, OnlySetup>>

(* The retry delay, cut short by the token. *)
SetupWait ==
    /\ pc = "setup_wait"
    /\ pc' = IF cancelled THEN "stopped" ELSE "setup"
    /\ UNCHANGED <<setups, OnlySetup>>

-----------------------------------------------------------------------------
(* The poll loop *)

(* mutant: the loop does not look at the token *)
ShutdownIgnored == FALSE

(* The loop's shutdown check, and the request that starts a poll. *)
ShutdownRequested == cancelled

FirstRequest(a) == IF a.aggregation /\ TakesRanges(a) THEN "pick_range" ELSE "pick_batch"

Top ==
    /\ pc = "top"
    /\ pc' = IF ShutdownRequested THEN "stopped" ELSE FirstRequest(args)
    /\ faults' = 0
    /\ UNCHANGED <<args, setups, cancelled, turn, job, retried, dirs,
                   idle_streak, proofs_generated, last, external>>

(* IdleCycle::record: the streak after an outcome, and whether to sleep. *)
Streak(outcome) ==
    CASE outcome = "Idle"   -> IF idle_streak + 1 >= NumSequencers THEN 0 ELSE idle_streak + 1
      [] outcome = "Proved" -> 0
      [] OTHER              -> idle_streak

Sleeps(outcome) == outcome = "Idle" /\ idle_streak + 1 >= NumSequencers

(* mutant: a retry stays with the same client *)
SameClientRetry(outcome) == IF outcome = "Retry" THEN turn ELSE (turn % NumSequencers) + 1

(* clients.iter().cycle() *)
NextClient(outcome) == (turn % NumSequencers) + 1

(* What the loop does with the outcome of a poll, up to its next await. *)
(* --iterations 0 sets no limit; the count is then of no consequence.   *)
LimitReached(outcome) ==
    outcome = "Proved" /\ args.iterations > 0 /\ proofs_generated + 1 >= args.iterations

Return(outcome) ==
    /\ proofs_generated' = IF outcome = "Proved" /\ args.iterations > 0
                           THEN proofs_generated + 1 ELSE proofs_generated
    /\ pc' = IF outcome = "Cancelled" \/ LimitReached(outcome) THEN "stopped"
             ELSE IF Sleeps(outcome) THEN "sleep" ELSE "top"
    /\ idle_streak' = Streak(outcome)
    /\ turn' = NextClient(outcome)
    /\ last' = [last EXCEPT ![turn] = outcome]
    /\ job' = NoJob
    /\ retried' = FALSE

(* The poll interval, cut short by the token. *)
Sleep ==
    /\ pc = "sleep"
    /\ pc' = IF cancelled THEN "stopped" ELSE "top"
    /\ last' = [s \in Sequencers |-> "none"]
    /\ UNCHANGED <<args, setups, cancelled, turn, job, retried, dirs,
                   idle_streak, proofs_generated, faults, external>>

-----------------------------------------------------------------------------
(* One pass over one sequencer *)

Lease(j) == server' = [server EXCEPT ![j] = "leased"]

(* The jobs a pick request of the current poll can be answered with. *)
Offers(kind) == {j \in Jobs : j.seq = turn /\ j.kind = kind /\ server[j] = "pending"}

(* No job, or one whose answer is lost or refused: its lease stands. *)
NoneReceived(kind) ==
    server' \in {server} \cup {[server EXCEPT ![j] = "leased"] : j \in Offers(kind)}

Skipped(j) == j.seq \in unsupported

(* mutant: the directory of an earlier run is kept *)
ReusedDir(j) == dirs

(* The work directory of a run is removed first, whatever an earlier run   *)
(* left in it, then made anew with this job's input.                       *)
FreshDir(j) == [dirs EXCEPT ![work_dir(j)] = NoJob]

(* Taking the job a pick returned: the identity filter first, then the run *)
(* up to its first subprocess.                                             *)
TakeJob(j) ==
    /\ job' = j
    /\ IF Skipped(j)
       THEN pc' = "skip" /\ UNCHANGED <<dirs, faults>>
       ELSE /\ pc' = "prove"
            /\ dirs' = FreshDir(j)
            /\ faults' = IF args.coordinator /\ Elf(j) \notin setups THEN 1 ELSE 0
    /\ UNCHANGED <<args, unsupported, setups, cancelled, turn, retried,
                   idle_streak, proofs_generated, last>>

(* A range job.  No job, an HTTP failure and a job whose batches are not   *)
(* contiguous all fall through to the batches; streams the assembler       *)
(* refuses end the poll before the work directory is touched.              *)
PickRange ==
    /\ pc = "pick_range"
    /\ \/ \E j \in Offers("range") :
            /\ Lease(j)
            /\ \/ TakeJob(j)
               \/ ~Skipped(j) /\ Return("Retry")
                  /\ UNCHANGED <<args, unsupported, setups, cancelled, dirs, faults>>
       \/ /\ TakesBatches(args)
          /\ NoneReceived("range")
          /\ pc' = "pick_batch"
          /\ UNCHANGED <<args, unsupported, setups, cancelled, turn, job, retried,
                         dirs, idle_streak, proofs_generated, history>>
       \/ /\ ~TakesBatches(args)
          /\ NoneReceived("range")
          /\ Return("Idle")
          /\ UNCHANGED <<args, unsupported, setups, cancelled, dirs, faults>>

(* A batch.  No batch and an HTTP failure are both Idle. *)
PickBatch ==
    /\ pc = "pick_batch"
    /\ \/ \E j \in Offers("batch") : Lease(j) /\ TakeJob(j)
       \/ /\ NoneReceived("batch")
          /\ Return("Idle")
          /\ UNCHANGED <<args, unsupported, setups, cancelled, dirs, faults>>

(* The 10 s pause after an unsupported identity does not watch the token. *)
SkipPause ==
    /\ pc = "skip"
    /\ Return("Retry")
    /\ UNCHANGED <<args, setups, cancelled, dirs, faults, external>>

-----------------------------------------------------------------------------
(* run_prove and finish_run *)

(* The removal of the current run's directory. *)
CleanedUp == [dirs EXCEPT ![work_dir(job)] = NoJob]

(* What a finished run leaves on disk: only a cancelled one is cleared. *)
finish_run(outcome) == IF outcome = "Cancelled" THEN CleanedUp ELSE dirs

(* The prove subprocess exits.  A coordinator refuses a program it does    *)
(* not know; any other failure is a fault of this run.                     *)
ProveSucceeds ==
    /\ pc = "prove"
    /\ Elf(job) \in setups
    /\ dirs' = [dirs EXCEPT ![work_dir(job)] = job]
    /\ pc' = "submit"
    /\ UNCHANGED <<args, setups, cancelled, turn, job, retried, idle_streak,
                   proofs_generated, external, history>>

(* Exit code 0 but no proof file, or one the parser refuses: if the        *)
(* directory has a file all the same, run_prove takes it for the proof.    *)
ProveWritesNothing ==
    /\ pc = "prove"
    /\ Elf(job) \in setups
    /\ IF dirs[work_dir(job)] # NoJob
       THEN /\ pc' = "submit"
            /\ UNCHANGED <<turn, job, retried, dirs, idle_streak, proofs_generated, history>>
       ELSE Return("Retry") /\ dirs' = finish_run("Retry") /\ faults' = 2
    /\ UNCHANGED <<args, setups, cancelled, external>>

(* mutant: the second attempt skips the setup *)
RetryWithoutSetup == "prove"

(* Only a coordinator earns the second attempt, behind a new setup. *)
Resetup == "resetup"

ProveFails ==
    /\ pc = "prove"
    /\ IF args.coordinator /\ ~retried
       THEN /\ pc' = Resetup
            /\ retried' = TRUE
            /\ UNCHANGED <<turn, job, dirs, idle_streak, proofs_generated, last>>
       ELSE Return("Retry") /\ dirs' = finish_run("Retry")
    /\ faults' = IF Elf(job) \in setups THEN AddFault(1) ELSE faults
    /\ UNCHANGED <<args, setups, cancelled, external>>

ResetupExits ==
    /\ pc = "resetup"
    /\ \/ /\ setups' = setups \cup {Elf(job)}
          /\ pc' = "prove"
          /\ UNCHANGED <<turn, job, retried, dirs, idle_streak, proofs_generated, history>>
       \/ /\ UNCHANGED setups
          /\ Return("Retry")
          /\ dirs' = finish_run("Retry")
          /\ faults' = AddFault(1)
    /\ UNCHANGED <<args, cancelled, external>>

ChildExits == SetupExits \/ ProveSucceeds \/ ProveWritesNothing \/ ProveFails \/ ResetupExits

(* The token wins the select: the subprocess is interrupted, the run's     *)
(* directory removed and the daemon exits.                                 *)
RunCancelled ==
    /\ Proving
    /\ cancelled
    /\ dirs' = finish_run("Cancelled")
    /\ Return("Cancelled")
    /\ UNCHANGED <<args, setups, cancelled, faults, external>>

-----------------------------------------------------------------------------
(* mutant: the directory goes before the answer is known *)
SubmitCleansUpFirst ==
    /\ pc = "submit"
    /\ dirs' = CleanedUp
    /\ \/ server' = [server EXCEPT ![job] = "done"] /\ Return("Proved")
       \/ UNCHANGED server /\ Return("Retry")
    /\ UNCHANGED <<args, unsupported, setups, cancelled, faults>>

(* A request that finishes j: the server may act on it although the client *)
(* sees an error (a transport failure, a timeout, a lost answer).          *)
send(j) ==
    LET done == [server EXCEPT ![j] = "done"]
    IN  {[ok |-> TRUE, server |-> done], [ok |-> FALSE, server |-> done],
         [ok |-> FALSE, server |-> server]}

submit_zisk_proof(j)       == send(j)
submit_aggregated_proof(j) == send(j)

(* Submission; the directory goes only after a success. *)
Submit ==
    /\ pc = "submit"
    /\ \E answer \in IF job.kind = "range" THEN submit_aggregated_proof(job)
                     ELSE submit_zisk_proof(job) :
          /\ server' = answer.server
          /\ IF answer.ok THEN Return("Proved") /\ dirs' = CleanedUp
             ELSE Return("Retry") /\ UNCHANGED dirs
    /\ UNCHANGED <<args, unsupported, setups, cancelled, faults>>

-----------------------------------------------------------------------------
DaemonStep ==
    SetupNotNeeded \/ SetupCancelled \/ SetupWait \/ Top \/ Sleep \/ PickRange \/ PickBatch \/ SkipPause
        \/ RunCancelled \/ Submit

Next ==
    \/ Signal
    \/ \E j \in Jobs : ServerMoves(j)
    \/ CoordinatorRestarts
    \/ DaemonStep
    \/ ChildExits

(* The daemon's task is scheduled as long as it can run: its sleeps end    *)
(* and its HTTP requests time out.  Nothing bounds a subprocess, so its    *)
(* exit is not assumed here.                                               *)
Spec == Init /\ [][Next]_vars /\ WF_vars(DaemonStep)

-----------------------------------------------------------------------------
(* Properties *)

(* generate_*_proof: what the daemon is about to submit was computed from  *)
(* the input of the job it picked, though two sequencers' batches with the *)
(* same number share a work directory and a kept proof may still lie in it.*)
SubmitsOwnProof ==
    pc = "submit" => dirs[work_dir(job)] = job

(* main.rs 457 and prover/README.md 91: "the daemon sleeps only after a    *)
(* full cycle in which none had any" work.                                 *)
SleepsOnlyWhenNoneHadWork ==
    pc = "sleep" => \A s \in Sequencers : last[s] = "Idle"

(* run_prove and the startup loop: no proving run ends in failure for a    *)
(* reason of the daemon's own.  With the local backend, where nothing sets *)
(* a program up again, it takes a fault of the subprocess: every program a *)
(* job can need was set up at start.  Against a coordinator it takes two,  *)
(* among them a setup forgotten before the run began, a restart, a failed  *)
(* prove or a failed setup during it.                                      *)
SurvivesOneFault ==
    [][(Proving /\ pc' = "top")
          => faults' >= (IF args.coordinator THEN 2 ELSE 1)]_vars

(* finish_run and the cleanup calls: a proof on disk disappears only once  *)
(* its sequencer has recorded it, or when a run that uses the same work    *)
(* directory starts or is cancelled.  A failed submit keeps it.            *)
ProofKeptUntilRecorded ==
    [][\A d \in WorkDirs :
          (dirs[d] # NoJob /\ dirs'[d] # dirs[d])
              => \/ server'[dirs[d]] = "done"
                 \/ pc' = "prove" /\ work_dir(job') = d
                 \/ Proving /\ cancelled /\ work_dir(job) = d]_vars

(* A signal stops the daemon from wherever it is, even if a subprocess     *)
(* would never exit and the servers keep handing out jobs it must skip.    *)
CancelStops == cancelled ~> (pc = "stopped")

(* "One chain's backlog never starves another's": provided subprocesses    *)
(* exit, once in the poll loop every sequencer is polled again and again   *)
(* until the daemon stops, whatever the outcomes of the others' polls.     *)
InLoop == pc \notin {"setup", "setup_aggregator", "setup_wait", "stopped"}

EverySequencerPolled ==
    WF_vars(ChildExits) =>
        \A s \in Sequencers :
            InLoop ~> (pc = "stopped" \/ (turn = s /\ pc = FirstRequest(args)))
=============================================================================
