------------------------------ MODULE JobLease ------------------------------
(***************************************************************************)
(* What the job queue promises about the life of a job (job_queue.py:1-13, *)
(* jobs.py:83-91): whatever is enqueued twice, re-queued at a start or     *)
(* lost in a crash, a job is run by at most one worker at a time, is only  *)
(* taken when it is queued and nobody has it, ends only by the hand of     *)
(* the one who has it, and ends once.                                      *)
(***************************************************************************)
CONSTANTS Jobs, Procs

VARIABLES stage,    \* "absent", "queued", "running" or "ended"
          holders   \* who runs the job

leaseVars == <<stage, holders>>

Stages == {"absent", "queued", "running", "ended"}

LeaseInit ==
  /\ stage = [j \in Jobs |-> "absent"]
  /\ holders = [j \in Jobs |-> {}]

Submit(j) ==
  /\ stage[j] = "absent"
  /\ stage' = [stage EXCEPT ![j] = "queued"]
  /\ UNCHANGED holders

Take(j, p) ==
  /\ stage[j] = "queued" /\ holders[j] = {}
  /\ stage' = [stage EXCEPT ![j] = "running"]
  /\ holders' = [holders EXCEPT ![j] = {p}]

End(j) ==
  /\ stage[j] = "running" /\ holders[j] # {}
  /\ stage' = [stage EXCEPT ![j] = "ended"]
  /\ holders' = [holders EXCEPT ![j] = {}]

\* The holder goes away and leaves the job as it is.
Abandon(j) ==
  /\ holders[j] # {}
  /\ holders' = [holders EXCEPT ![j] = {}]
  /\ UNCHANGED stage

\* The process dies: nobody holds anything any more.
LoseAll ==
  /\ holders' = [j \in Jobs |-> {}]
  /\ UNCHANGED stage

Requeue(j) ==
  /\ stage[j] \in {"queued", "running"} /\ holders[j] = {}
  /\ stage' = [stage EXCEPT ![j] = "queued"]
  /\ UNCHANGED holders

LeaseNext ==
  \/ LoseAll
  \/ \E j \in Jobs : Submit(j) \/ End(j) \/ Abandon(j) \/ Requeue(j)
  \/ \E j \in Jobs, p \in Procs : Take(j, p)

LeaseSpec == LeaseInit /\ [][LeaseNext]_leaseVars
=============================================================================
