---------------------------- MODULE TaskWorkers ----------------------------
(***************************************************************************)
(* The workers of reinhardt-tasks (worker.rs), polling one task backend    *)
(* (backends/sqlite.rs or backends/redis.rs) and sharing a task lock with  *)
(* a time to live (locking.rs).                                            *)
(*                                                                         *)
(* A worker runs one task at a time: its loop awaits try_process_task.     *)
(* Every await of that function is a point where the other workers move,   *)
(* so each is a step here.  An operator named Mut... is a plausible bug in *)
(* the operator it precedes; no specification uses it.                     *)
(***************************************************************************)
EXTENDS Naturals, Sequences

CONSTANTS
    Tasks, Workers,
    Backend,     \* "sqlite" or "redis"
    WithLock,    \* the workers were given a TaskLock
    Faults,      \* what may go wrong around a worker
    None         \* no task, no lock holder

FaultKinds == {"data", "store", "status", "lock", "slow", "crash"}

ASSUME WorkersAssumption ==
    /\ Backend \in {"sqlite", "redis"}
    /\ WithLock \in BOOLEAN
    /\ Faults \subseteq FaultKinds
    /\ None \notin Tasks \cup Workers

VARIABLES
    queue,    \* ids in the order of enqueue: the redis list, or the rows of the table
    row,      \* the status column, or the status in the redis metadata
    lock,     \* the worker whose token the lock of a task holds
    pc,       \* where each worker is in try_process_task
    job,      \* the task each worker holds
    verdict,  \* what its execute_task returns
    succeeded \* the tasks some execution of which has succeeded

vars == <<queue, row, lock, pc, job, verdict, succeeded>>

Outcomes == {"success", "failure"}
Statuses == {"absent", "pending", "running"} \cup Outcomes

\* selected: between the SELECT and the UPDATE of the sqlite backend;
\* dequeued: before lock.acquire;  loading: before get_task_data;
\* executing: the task's code runs;  storing, releasing: after it;
\* reporting: before update_status;  dead: the process is gone.
Points == {"idle", "selected", "dequeued", "loading", "executing", "storing",
           "releasing", "reporting", "dead"}

TypeOK ==
    /\ queue \in Seq(Tasks)
    /\ row \in [Tasks -> Statuses]
    /\ lock \in [Tasks -> Workers \cup {None}]
    /\ pc \in [Workers -> Points]
    /\ job \in [Workers -> Tasks \cup {None}]
    /\ verdict \in [Workers -> Outcomes]
    /\ succeeded \in SUBSET Tasks

Init ==
    /\ queue = <<>>
    /\ row = [t \in Tasks |-> "absent"]
    /\ lock = [t \in Tasks |-> None]
    /\ pc = [w \in Workers |-> "idle"]
    /\ job = [w \in Workers |-> None]
    /\ verdict = [w \in Workers |-> "failure"]
    /\ succeeded = {}

Go(w, to) == pc' = [pc EXCEPT ![w] = to]
At(w, point) == pc[w] = point
Return(w, v) == Go(w, "reporting") /\ verdict' = [verdict EXCEPT ![w] = v]
-----------------------------------------------------------------------------
(* The backend.                                                            *)

\* sqlite inserts a row, redis sets the metadata and pushes the id atomically.
\* A task has an id of its own, made with it, so that there is no row of it yet.
Enqueue(t) ==
    /\ row[t] = "absent"
    /\ row' = [row EXCEPT ![t] = "pending"]
    /\ queue' = Append(queue, t)
    /\ UNCHANGED <<lock, pc, job, verdict, succeeded>>

MutPop(w) ==
    /\ Backend = "redis" /\ At(w, "idle") /\ queue # <<>>
    /\ job' = [job EXCEPT ![w] = Head(queue)]
    /\ Go(w, "dequeued")
    /\ UNCHANGED <<queue, row, lock, verdict, succeeded>>

\* redis: LPOP; the status stays pending.
Pop(w) ==
    /\ Backend = "redis" /\ At(w, "idle") /\ queue # <<>>
    /\ job' = [job EXCEPT ![w] = Head(queue)]
    /\ queue' = Tail(queue)
    /\ Go(w, "dequeued")
    /\ UNCHANGED <<row, lock, verdict, succeeded>>

OldestPending(i) ==
    /\ i \in DOMAIN queue /\ row[queue[i]] = "pending"
    /\ \A j \in 1..(i - 1) : row[queue[j]] # "pending"

\* sqlite: SELECT the oldest pending row ...
Select(w) ==
    /\ Backend = "sqlite" /\ At(w, "idle")
    /\ \E i \in DOMAIN queue : OldestPending(i) /\ job' = [job EXCEPT ![w] = queue[i]]
    /\ Go(w, "selected")
    /\ UNCHANGED <<queue, row, lock, verdict, succeeded>>

\* ... then UPDATE it by id, whatever its status has become.
MarkRunning(w) ==
    /\ At(w, "selected")
    /\ \/ /\ row' = [row EXCEPT ![job[w]] = "running"]
          /\ Go(w, "dequeued")
          /\ UNCHANGED job
       \/ /\ "status" \in Faults
          /\ job' = [job EXCEPT ![w] = None]
          /\ Go(w, "idle")
          /\ UNCHANGED row
    /\ UNCHANGED <<queue, lock, verdict, succeeded>>
-----------------------------------------------------------------------------
(* execute_task.                                                           *)

MutAcquire(w) ==
    /\ At(w, "dequeued")
    /\ lock' = [lock EXCEPT ![job[w]] = w]
    /\ Go(w, "loading")
    /\ UNCHANGED <<queue, row, job, verdict, succeeded>>

\* Refused, execute_task returns Ok: the other worker is said to have the task.
Acquire(w) ==
    /\ At(w, "dequeued")
    /\ \/ ~WithLock /\ Go(w, "loading") /\ UNCHANGED <<lock, verdict>>
       \/ /\ WithLock /\ lock[job[w]] = None
          /\ lock' = [lock EXCEPT ![job[w]] = w]
          /\ Go(w, "loading")
          /\ UNCHANGED verdict
       \/ WithLock /\ lock[job[w]] # None /\ Return(w, "success") /\ UNCHANGED lock
       \/ WithLock /\ "lock" \in Faults /\ Return(w, "failure") /\ UNCHANGED lock
    /\ UNCHANGED <<queue, row, job, succeeded>>

MutLoad(w) ==
    /\ At(w, "loading")
    /\ \/ Go(w, "executing")
       \/ "data" \in Faults /\ Go(w, "idle")
    /\ UNCHANGED <<queue, row, lock, job, verdict, succeeded>>

\* An error of get_task_data returns at once, without releasing the lock.
Load(w) ==
    /\ At(w, "loading")
    /\ \/ Go(w, "executing") /\ UNCHANGED verdict
       \/ "data" \in Faults /\ Return(w, "failure")
    /\ UNCHANGED <<queue, row, lock, job, succeeded>>

\* The task's own code succeeds or fails.
Finish(w) ==
    /\ At(w, "executing")
    /\ \/ succeeded' = succeeded \cup {job[w]} /\ verdict' = [verdict EXCEPT ![w] = "success"]
       \/ UNCHANGED succeeded /\ verdict' = [verdict EXCEPT ![w] = "failure"]
    /\ Go(w, "storing")
    /\ UNCHANGED <<queue, row, lock, job>>

\* An error of store_result is kept until the lock is released.
Store(w) ==
    /\ At(w, "storing")
    /\ Go(w, "releasing")
    /\ \/ UNCHANGED verdict
       \/ "store" \in Faults /\ verdict' = [verdict EXCEPT ![w] = "failure"]
    /\ UNCHANGED <<queue, row, lock, job, succeeded>>

MutRelease(w) ==
    /\ At(w, "releasing")
    /\ lock' = [lock EXCEPT ![job[w]] = None]
    /\ Go(w, "reporting")
    /\ UNCHANGED <<queue, row, job, verdict, succeeded>>

MutStoreFirst(w) ==
    /\ At(w, "releasing")
    /\ lock' = IF verdict[w] = "success" THEN [lock EXCEPT ![job[w]] = None] ELSE lock
    /\ Go(w, "reporting")
    /\ UNCHANGED <<queue, row, job, verdict, succeeded>>

\* The lock is removed only if it still holds this worker's token.
Release(w) ==
    /\ At(w, "releasing")
    /\ \/ /\ lock' = IF lock[job[w]] = w THEN [lock EXCEPT ![job[w]] = None] ELSE lock
       \/ "lock" \in Faults /\ UNCHANGED lock
    /\ Go(w, "reporting")
    /\ UNCHANGED <<queue, row, job, verdict, succeeded>>

\* update_status with the verdict; its own error is only logged.
Report(w) ==
    /\ At(w, "reporting")
    /\ \/ row' = [row EXCEPT ![job[w]] = verdict[w]]
       \/ "status" \in Faults /\ UNCHANGED row
    /\ job' = [job EXCEPT ![w] = None]
    /\ Go(w, "idle")
    /\ UNCHANGED <<queue, lock, verdict, succeeded>>
-----------------------------------------------------------------------------
(* Time and crashes.                                                       *)

InExecuteTask(w) == pc[w] \in {"loading", "executing", "storing", "releasing"}

\* A lock lapses 300 seconds after it was acquired: while its holder still works
\* only if the task is that slow.
Expire(t) ==
    /\ lock[t] # None
    /\ InExecuteTask(lock[t]) /\ job[lock[t]] = t => "slow" \in Faults
    /\ lock' = [lock EXCEPT ![t] = None]
    /\ UNCHANGED <<queue, row, pc, job, verdict, succeeded>>

Crash(w) ==
    /\ "crash" \in Faults
    /\ ~At(w, "dead")
    /\ Go(w, "dead")
    /\ UNCHANGED <<queue, row, lock, job, verdict, succeeded>>

Poll(w) == Pop(w) \/ Select(w)

Proceed(w) == \/ MarkRunning(w) \/ Acquire(w) \/ Load(w) \/ Finish(w) \/ Store(w)
              \/ Release(w) \/ Report(w)

Next ==
    \/ \E t \in Tasks : Enqueue(t) \/ Expire(t)
    \/ \E w \in Workers : Poll(w) \/ Proceed(w) \/ Crash(w)

Spec == Init /\ [][Next]_vars

\* The poll interval keeps ticking and tasks terminate.
FairSpec == Spec /\ \A w \in Workers : WF_vars(Poll(w)) /\ WF_vars(Proceed(w))
-----------------------------------------------------------------------------
(* Properties.                                                             *)

\* locking.rs promises that two workers never execute one task at the same time:
\* true, even when both dequeued it, as long as no execution outlives the lock.
NoSimultaneousExecution ==
    \A v, w \in Workers :
        v # w /\ At(v, "executing") /\ At(w, "executing") => job[v] # job[w]

\* Why: a worker inside execute_task holds the lock of its task.
Holding(w) == pc[w] \notin {"idle", "dead"}

LockIsHeld ==
    \A w \in Workers : WithLock /\ InExecuteTask(w) => lock[job[w]] = w

LockInv ==
    /\ TypeOK
    /\ \A w \in Workers : Holding(w) => job[w] \in Tasks
    /\ "slow" \notin Faults => LockIsHeld

\* The redis list gives each task to one worker.
HeldOnce ==
    \A v, w \in Workers : v # w /\ job[v] # None => job[v] # job[w]

\* A task recorded as a success has been executed with success.
SuccessWasEarned == \A t \in Tasks : row[t] = "success" => t \in succeeded

\* A recorded outcome is final.
OutcomeIsFinal ==
    [][\A t \in Tasks : row[t] \in Outcomes => row'[t] = row[t]]_vars

\* Why these hold on redis: a task is in one place, the list or the hands of one
\* worker, before its outcome, and nobody has locked it before that worker does.
Queued(t) == \E i \in DOMAIN queue : queue[i] = t
Held(t)   == \E w \in Workers : job[w] = t

DeliveredOnce ==
    /\ HeldOnce
    /\ \A i, j \in DOMAIN queue : queue[i] = queue[j] => i = j
    /\ \A t \in Tasks : Queued(t) => ~Held(t) /\ row[t] # "absent" /\ lock[t] = None
    /\ \A t \in Tasks : row[t] \in Outcomes => ~Queued(t) /\ ~Held(t)
    /\ \A t \in Tasks : Held(t) => row[t] # "absent"
    /\ \A t \in Tasks : row[t] = "absent" => lock[t] = None
    /\ \A w \in Workers : ~At(w, "selected") /\ (At(w, "dequeued") => lock[job[w]] = None)
    /\ \A w \in Workers :
          pc[w] \in {"storing", "releasing", "reporting"} /\ verdict[w] = "success"
             => job[w] \in succeeded
    /\ SuccessWasEarned

\* A worker that is done with a task leaves no lock of its own behind.
LockReleased ==
    \A w \in Workers : pc[w] \in {"idle", "reporting"} => \A t \in Tasks : lock[t] # w

\* A worker that releases frees no lock but its own: not the one another worker
\* took after its own lapsed (the token compared by release).
ReleaseIsOwn ==
    [][\A w \in Workers : \A t \in Tasks :
         At(w, "releasing") /\ ~At(w, "releasing")' /\ lock'[t] # lock[t] => lock[t] = w]_vars

\* Every task enqueued is eventually recorded as a success or a failure for good.
TasksComplete == \A t \in Tasks : row[t] = "pending" ~> [](row[t] \in Outcomes)
=============================================================================
