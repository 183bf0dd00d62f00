-------------------------- MODULE LeaseRefinement --------------------------
(***************************************************************************)
(* Execution implements JobLease: the stage of a job is read off its row,  *)
(* its holders are the runs between claiming it and leaving it.            *)
(***************************************************************************)
EXTENDS Execution

Stage(j) ==
  CASE Status(j) \in TerminalJob -> "ended"
    [] Status(j) \in ActiveJob -> Status(j)
    [] OTHER -> "absent"

Holders(j) == {p \in Procs : Owns(p) /\ run[p].job = j}

Lease == INSTANCE JobLease WITH
           stage <- [j \in Jobs |-> Stage(j)],
           holders <- [j \in Jobs |-> Holders(j)]

\* Every step of the execution path is a step of the lease or none at all:
\* nothing takes, ends or re-queues a job the queue's promise does not allow.
ImplementsLease == Lease!LeaseSpec
=============================================================================
