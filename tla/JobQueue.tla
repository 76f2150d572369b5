------------------------------ MODULE JobQueue ------------------------------
(***************************************************************************)
(* The task queue (BullMqService), as seen by whoever adds a job.  The     *)
(* queue is Bull's: it drops a job whose id it has already, waiting or     *)
(* active, and forgets a job that has ended (removeOnComplete,             *)
(* removeOnFail).  The worker is no part of these services.                *)
(***************************************************************************)
EXTENDS Naturals

\* How often addToQueue adds a job: first to the tasks queue; the case of "task"
\* adds it again and has no break; that of "main" adds it to the main queue, which
\* is the same Bull queue.
Adds == [main |-> 2, task |-> 3]

Queued(jobs, id) == {j \in jobs : j.id = id}
Active(jobs, id) == {j \in Queued(jobs, id) : j.active}

\* Mutant: the job is given no id of its own.
AddedUnnamed(jobs, job) == jobs \union {job}

\* Queue.add with a job id.
Added(jobs, job) == IF Queued(jobs, job.id) = {} THEN jobs \union {job} ELSE jobs
=============================================================================
