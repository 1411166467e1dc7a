----------------------------- MODULE MCJobEngine -----------------------------
(* The jobs of the job engine's run, which takes the pipeline by itself, in   *)
(* the hands of a client, and the pipeline that a scheduler drives.           *)
EXTENDS JobScheduler

\* The pipeline by itself: up to three of four jobs on two partitions.  Two jobs
\* that save what they overwrite share partition p, so that the order of a
\* rollback matters; the verify job fails where the flash job has not run.
PipelineJobs == {"erase", "restore", "flash", "verify"}
PipelineCalls == 3
PipelineLength == 3

\* The scheduler: jobs that only read one partition, since it is about order and
\* threads, the pipeline about what jobs do to the device.
SchedulerJobs == {"a", "b"}

MCJobs == PipelineJobs \cup SchedulerJobs
MCKind == [erase |-> EraseJob, restore |-> RestoreJob, flash |-> FlashJob, verify |-> VerifyJob,
           a |-> ReadJob, b |-> ReadJob]
MCPart == [erase |-> "p", restore |-> "p", flash |-> "q", verify |-> "q", a |-> "p", b |-> "p"]
MCData == [erase |-> Blank, restore |-> "backup", flash |-> "image", verify |-> "image",
           a |-> Original, b |-> Original]
MCRollback == [erase |-> TRUE, restore |-> TRUE, flash |-> FALSE, verify |-> TRUE, a |-> FALSE, b |-> TRUE]

VARIABLE mode   \* who drives the pipeline, for the whole behaviour

MCInit == Init /\ mode \in {"client", "scheduler"}

ByClient ==
    /\ mode = "client" /\ UNCHANGED <<mode, svars>>
    /\ PNext /\ calls' <= PipelineCalls
    /\ ToSet(jobs') \subseteq PipelineJobs /\ Len(jobs') <= PipelineLength

ByScheduler ==
    /\ mode = "scheduler" /\ UNCHANGED mode
    /\ Next /\ ToSet(order') \subseteq SchedulerJobs

MCSpec ==
    /\ MCInit /\ [][ByClient \/ ByScheduler]_<<vars, mode>>
    /\ WF_vars(IF mode = "client" THEN Runner /\ UNCHANGED svars ELSE Worker)
    /\ \A c \in Clients : WF_vars(mode = "scheduler" /\ Step(c))
==============================================================================
