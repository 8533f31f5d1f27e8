------------------------- MODULE TaskWorkersProofs -------------------------
(***************************************************************************)
(* Proofs about TaskWorkers, for every set of tasks and workers.           *)
(***************************************************************************)
EXTENDS TaskWorkers, TLAPS

USE WorkersAssumption DEF FaultKinds, Statuses, Outcomes, Points, At, Go, Return

(* The steps of one worker, in the order of try_process_task. *)
LEMMA NextCases ==
    ASSUME Next, NEW P,
           \A t \in Tasks : Enqueue(t) => P,
           \A t \in Tasks : Expire(t) => P,
           \A w \in Workers : Pop(w) => P,
           \A w \in Workers : Select(w) => P,
           \A w \in Workers : MarkRunning(w) => P,
           \A w \in Workers : Acquire(w) => P,
           \A w \in Workers : Load(w) => P,
           \A w \in Workers : Finish(w) => P,
           \A w \in Workers : Store(w) => P,
           \A w \in Workers : Release(w) => P,
           \A w \in Workers : Report(w) => P,
           \A w \in Workers : Crash(w) => P
    PROVE  P
  BY Zenon DEF Next, Poll, Proceed

(***************************************************************************)
(* Types, and the lock.                                                    *)
(***************************************************************************)
LEMMA LockInvInit == Init => LockInv
  BY DEF Init, LockInv, TypeOK, LockIsHeld, InExecuteTask, Holding

(* Every step keeps the types, and the worker that moves holds a task. *)
LEMMA TypeStep ==
    ASSUME TypeOK, \A w \in Workers : Holding(w) => job[w] \in Tasks, [Next]_vars
    PROVE  TypeOK' /\ (\A w \in Workers : Holding(w) => job[w] \in Tasks)'
  <1> DEFINE HoldersHaveTasks == \A w \in Workers : Holding(w) => job[w] \in Tasks
  <1>1. ASSUME NEW t \in Tasks, Enqueue(t) PROVE TypeOK' /\ HoldersHaveTasks'
    BY <1>1 DEF TypeOK, Holding, Enqueue
  <1>2. ASSUME NEW t \in Tasks, Expire(t) PROVE TypeOK' /\ HoldersHaveTasks'
    BY <1>2 DEF TypeOK, Holding, Expire
  <1>3. ASSUME NEW w \in Workers, Pop(w) PROVE TypeOK' /\ HoldersHaveTasks'
    BY <1>3 DEF TypeOK, Holding, Pop
  <1>4. ASSUME NEW w \in Workers, Select(w) PROVE TypeOK' /\ HoldersHaveTasks'
    BY <1>4 DEF TypeOK, Holding, Select, OldestPending
  <1>5. ASSUME NEW w \in Workers, MarkRunning(w) PROVE TypeOK' /\ HoldersHaveTasks'
    BY <1>5 DEF TypeOK, Holding, MarkRunning
  <1>6. ASSUME NEW w \in Workers, Acquire(w) PROVE TypeOK' /\ HoldersHaveTasks'
    BY <1>6 DEF TypeOK, Holding, Acquire
  <1>7. ASSUME NEW w \in Workers, Load(w) PROVE TypeOK' /\ HoldersHaveTasks'
    BY <1>7 DEF TypeOK, Holding, Load
  <1>8. ASSUME NEW w \in Workers, Finish(w) PROVE TypeOK' /\ HoldersHaveTasks'
    BY <1>8 DEF TypeOK, Holding, Finish
  <1>9. ASSUME NEW w \in Workers, Store(w) PROVE TypeOK' /\ HoldersHaveTasks'
    BY <1>9 DEF TypeOK, Holding, Store
  <1>10. ASSUME NEW w \in Workers, Release(w) PROVE TypeOK' /\ HoldersHaveTasks'
    BY <1>10 DEF TypeOK, Holding, Release
  <1>11. ASSUME NEW w \in Workers, Report(w) PROVE TypeOK' /\ HoldersHaveTasks'
    BY <1>11 DEF TypeOK, Holding, Report
  <1>12. ASSUME NEW w \in Workers, Crash(w) PROVE TypeOK' /\ HoldersHaveTasks'
    BY <1>12 DEF TypeOK, Holding, Crash
  <1>13. CASE UNCHANGED vars
    BY <1>13 DEF vars, TypeOK, Holding
  <1>14. ASSUME Next PROVE TypeOK' /\ HoldersHaveTasks'
    BY ONLY <1>1, <1>2, <1>3, <1>4, <1>5, <1>6, <1>7, <1>8, <1>9, <1>10, <1>11, <1>12, <1>14, NextCases
  <1> QED
    BY <1>13, <1>14

(* A worker inside execute_task keeps its lock: the others are refused, a release
   compares tokens, and without slow tasks the lock does not lapse under it. *)
LEMMA LockStep ==
    ASSUME LockInv, "slow" \notin Faults, [Next]_vars
    PROVE  LockIsHeld'
  <1> DEFINE HoldersHaveTasks == \A w \in Workers : Holding(w) => job[w] \in Tasks
  <1>0. TypeOK /\ HoldersHaveTasks /\ LockIsHeld
    BY DEF LockInv
  <1>1. ASSUME NEW t \in Tasks, Enqueue(t) PROVE LockIsHeld'
    BY <1>0, <1>1 DEF TypeOK, Holding, LockIsHeld, InExecuteTask, Enqueue
  <1>2. ASSUME NEW t \in Tasks, Expire(t) PROVE LockIsHeld'
    BY <1>0, <1>2 DEF TypeOK, Holding, LockIsHeld, InExecuteTask, Expire
  <1>3. ASSUME NEW w \in Workers, Pop(w) PROVE LockIsHeld'
    BY <1>0, <1>3 DEF TypeOK, Holding, LockIsHeld, InExecuteTask, Pop
  <1>4. ASSUME NEW w \in Workers, Select(w) PROVE LockIsHeld'
    BY <1>0, <1>4 DEF TypeOK, Holding, LockIsHeld, InExecuteTask, Select, OldestPending
  <1>5. ASSUME NEW w \in Workers, MarkRunning(w) PROVE LockIsHeld'
    BY <1>0, <1>5 DEF TypeOK, Holding, LockIsHeld, InExecuteTask, MarkRunning
  <1>6. ASSUME NEW w \in Workers, Acquire(w) PROVE LockIsHeld'
    <2> SUFFICES ASSUME NEW v \in Workers, WithLock, InExecuteTask(v)'
                 PROVE  lock'[job'[v]] = v
      BY DEF LockIsHeld
    <2>1. job' = job /\ job[w] \in Tasks /\ ~InExecuteTask(w)
      BY <1>0, <1>6 DEF Acquire, Holding, InExecuteTask
    <2>2. CASE v = w
      <3>1. pc'[w] = "loading"
        BY <1>0, <1>6, <2>2 DEF Acquire, TypeOK, InExecuteTask
      <3>2. lock' = [lock EXCEPT ![job[w]] = w]
        BY <1>0, <1>6, <3>1 DEF Acquire, TypeOK
      <3> QED
        BY <1>0, <2>1, <2>2, <3>2 DEF TypeOK
    <2>3. CASE v # w
      <3>1. InExecuteTask(v) /\ lock[job[v]] = v /\ job[v] \in Tasks
        BY <1>0, <1>6, <2>3 DEF Acquire, TypeOK, InExecuteTask, LockIsHeld, Holding
      <3>2. lock'[job[v]] = lock[job[v]]
        BY <1>0, <1>6, <2>1, <3>1 DEF Acquire, TypeOK
      <3> QED
        BY <2>1, <3>1, <3>2
    <2> QED
      BY <2>2, <2>3
  <1>7. ASSUME NEW w \in Workers, Load(w) PROVE LockIsHeld'
    BY <1>0, <1>7 DEF TypeOK, Holding, LockIsHeld, InExecuteTask, Load
  <1>8. ASSUME NEW w \in Workers, Finish(w) PROVE LockIsHeld'
    BY <1>0, <1>8 DEF TypeOK, Holding, LockIsHeld, InExecuteTask, Finish
  <1>9. ASSUME NEW w \in Workers, Store(w) PROVE LockIsHeld'
    BY <1>0, <1>9 DEF TypeOK, Holding, LockIsHeld, InExecuteTask, Store
  <1>10. ASSUME NEW w \in Workers, Release(w) PROVE LockIsHeld'
    BY <1>0, <1>10 DEF TypeOK, Holding, LockIsHeld, InExecuteTask, Release
  <1>11. ASSUME NEW w \in Workers, Report(w) PROVE LockIsHeld'
    BY <1>0, <1>11 DEF TypeOK, Holding, LockIsHeld, InExecuteTask, Report
  <1>12. ASSUME NEW w \in Workers, Crash(w) PROVE LockIsHeld'
    BY <1>0, <1>12 DEF TypeOK, Holding, LockIsHeld, InExecuteTask, Crash
  <1>13. CASE UNCHANGED vars
    BY <1>0, <1>13 DEF vars, LockIsHeld, InExecuteTask
  <1>14. ASSUME Next PROVE LockIsHeld'
    BY ONLY <1>1, <1>2, <1>3, <1>4, <1>5, <1>6, <1>7, <1>8, <1>9, <1>10, <1>11, <1>12, <1>14, NextCases
  <1> QED
    BY <1>13, <1>14

LEMMA LockInvStep == LockInv /\ [Next]_vars => LockInv'
  BY TypeStep, LockStep DEF LockInv

(* The variables keep their types, whatever the backend, the lock and the faults. *)
THEOREM TypeCorrect == Spec => []TypeOK
  <1>1. LockInv => TypeOK
    BY DEF LockInv
  <1> QED
    BY LockInvInit, LockInvStep, <1>1, PTL DEF Spec

(* The inductive invariant of the lock (execute_task, worker.rs). *)
THEOREM LockInvariance == Spec => []LockInv
  BY LockInvInit, LockInvStep, PTL DEF Spec

(* With a lock and no task slower than its time to live, no task is executed by two
   workers at once, however many times the backend hands it out. *)
THEOREM MutualExclusion ==
    ASSUME WithLock, "slow" \notin Faults
    PROVE  Spec => []NoSimultaneousExecution
  <1>1. LockInv => NoSimultaneousExecution
    BY DEF LockInv, LockIsHeld, NoSimultaneousExecution, InExecuteTask
  <1> QED
    BY LockInvariance, <1>1, PTL

(***************************************************************************)
(* Delivery by redis.                                                      *)
(***************************************************************************)
Delivery == TypeOK /\ (\A w \in Workers : Holding(w) => job[w] \in Tasks) /\ DeliveredOnce

LEMMA DeliveryInit == Init => Delivery
  BY DEF Init, Delivery, DeliveredOnce, TypeOK, Holding, HeldOnce, Queued, Held, SuccessWasEarned

(* LPOP takes the id out of the list as a worker takes it up, and nothing else moves
   ids: no step hands a task to a second worker or reports it a second time. *)
LEMMA DeliveryStep ==
    ASSUME Backend = "redis", Delivery, [Next]_vars
    PROVE  DeliveredOnce'
  <1>0. TypeOK /\ (\A w \in Workers : Holding(w) => job[w] \in Tasks) /\ DeliveredOnce
    BY DEF Delivery
  <1> USE DEF DeliveredOnce, HeldOnce, Queued, Held, SuccessWasEarned, TypeOK, Holding
  <1>1. ASSUME NEW t \in Tasks, Enqueue(t) PROVE DeliveredOnce'
    <2>1. ~Queued(t) /\ ~Held(t) /\ lock[t] = None
      BY <1>0, <1>1 DEF Enqueue
    <2>2. /\ DOMAIN queue' = 1..(Len(queue) + 1) /\ DOMAIN queue = 1..Len(queue)
          /\ queue'[Len(queue) + 1] = t /\ Len(queue) \in Nat
          /\ \A i \in DOMAIN queue : queue'[i] = queue[i]
      BY <1>0, <1>1 DEF Enqueue
    <2>3. \A i, j \in DOMAIN queue' : queue'[i] = queue'[j] => i = j
      BY <1>0, <2>1, <2>2
    <2>4. \A u \in Tasks : Queued(u)' => u = t \/ Queued(u)
      BY <2>2
    <2>5. /\ lock' = lock /\ job' = job /\ pc' = pc
          /\ verdict' = verdict /\ succeeded' = succeeded
          /\ row' = [row EXCEPT ![t] = "pending"]
      BY <1>1 DEF Enqueue
    <2> QED
      BY <1>0, <2>1, <2>3, <2>4, <2>5
  <1>2. ASSUME NEW t \in Tasks, Expire(t) PROVE DeliveredOnce'
    BY <1>0, <1>2 DEF Expire
  <1>3. ASSUME NEW w \in Workers, Pop(w) PROVE DeliveredOnce'
    <2>1. /\ DOMAIN queue = 1..Len(queue) /\ Len(queue) \in Nat /\ Len(queue) # 0
          /\ queue[1] = Head(queue) /\ DOMAIN queue' = 1..(Len(queue) - 1)
          /\ \A i \in DOMAIN queue' : queue'[i] = queue[i + 1]
      BY <1>0, <1>3 DEF Pop
    <2>2. /\ job' = [job EXCEPT ![w] = queue[1]] /\ pc' = [pc EXCEPT ![w] = "dequeued"]
          /\ row' = row /\ lock' = lock /\ verdict' = verdict /\ succeeded' = succeeded
      BY <1>3, <2>1 DEF Pop
    <2>3. /\ queue[1] \in Tasks /\ Queued(queue[1])
          /\ ~Held(queue[1]) /\ lock[queue[1]] = None
      BY <1>0, <2>1
    <2>4. \A i, j \in DOMAIN queue' : queue'[i] = queue'[j] => i = j
      BY <1>0, <2>1
    <2>5. \A u \in Tasks : Queued(u)' => u # queue[1] /\ Queued(u)
      BY <1>0, <2>1
    <2> QED
      BY <1>0, <2>2, <2>3, <2>4, <2>5
  <1>4. ASSUME NEW w \in Workers, Select(w) PROVE DeliveredOnce'
    BY <1>0, <1>4 DEF Select
  <1>5. ASSUME NEW w \in Workers, MarkRunning(w) PROVE DeliveredOnce'
    BY <1>0, <1>5 DEF MarkRunning
  <1>6. ASSUME NEW w \in Workers, Acquire(w) PROVE DeliveredOnce'
    BY <1>0, <1>6 DEF Acquire
  <1>7. ASSUME NEW w \in Workers, Load(w) PROVE DeliveredOnce'
    BY <1>0, <1>7 DEF Load
  <1>8. ASSUME NEW w \in Workers, Finish(w) PROVE DeliveredOnce'
    BY <1>0, <1>8 DEF Finish
  <1>9. ASSUME NEW w \in Workers, Store(w) PROVE DeliveredOnce'
    BY <1>0, <1>9 DEF Store
  <1>10. ASSUME NEW w \in Workers, Release(w) PROVE DeliveredOnce'
    BY <1>0, <1>10 DEF Release
  <1>11. ASSUME NEW w \in Workers, Report(w) PROVE DeliveredOnce'
    BY <1>0, <1>11 DEF Report
  <1>12. ASSUME NEW w \in Workers, Crash(w) PROVE DeliveredOnce'
    BY <1>0, <1>12 DEF Crash
  <1>13. CASE UNCHANGED vars
    BY <1>0, <1>13 DEF vars
  <1>14. ASSUME Next PROVE DeliveredOnce'
    BY ONLY <1>1, <1>2, <1>3, <1>4, <1>5, <1>6, <1>7, <1>8, <1>9, <1>10, <1>11, <1>12, <1>14, NextCases
  <1> QED
    BY <1>13, <1>14

LEMMA DeliveryInvariance ==
    ASSUME Backend = "redis"
    PROVE  Spec => []Delivery
  <1>1. Delivery /\ [Next]_vars => Delivery'
    BY TypeStep, DeliveryStep DEF Delivery
  <1> QED
    BY DeliveryInit, <1>1, PTL DEF Spec

(* On redis a task is in one place, the list or the hands of one worker, until it has
   its outcome, and no lock is on it before that worker takes it, whatever fails. *)
THEOREM OnceDelivered ==
    ASSUME Backend = "redis"
    PROVE  Spec => []DeliveredOnce
  <1>1. Delivery => DeliveredOnce
    BY DEF Delivery
  <1> QED
    BY DeliveryInvariance, <1>1, PTL

(* The redis list gives each task to one worker, whatever fails. *)
THEOREM OneHolder ==
    ASSUME Backend = "redis"
    PROVE  Spec => []HeldOnce
  <1>1. Delivery => HeldOnce
    BY DEF Delivery, DeliveredOnce
  <1> QED
    BY DeliveryInvariance, <1>1, PTL

(* On redis a task recorded as a success has been executed with success. *)
THEOREM EarnedSuccess ==
    ASSUME Backend = "redis"
    PROVE  Spec => []SuccessWasEarned
  <1>1. Delivery => SuccessWasEarned
    BY DEF Delivery, DeliveredOnce
  <1> QED
    BY DeliveryInvariance, <1>1, PTL

(* On redis a recorded outcome is final: only the one holder of a task writes it. *)
THEOREM FinalOutcome ==
    ASSUME Backend = "redis"
    PROVE  Spec => OutcomeIsFinal
  <1> DEFINE Final == \A t \in Tasks : row[t] \in Outcomes => row'[t] = row[t]
  <1>0. ASSUME Delivery PROVE /\ TypeOK /\ (\A w \in Workers : Holding(w) => job[w] \in Tasks)
                              /\ (\A t \in Tasks : row[t] \in Outcomes => ~Held(t))
                              /\ (\A w \in Workers : ~At(w, "selected"))
    BY <1>0 DEF Delivery, DeliveredOnce
  <1>1. ASSUME Delivery, NEW t \in Tasks, Enqueue(t) PROVE Final
    BY <1>0, <1>1 DEF TypeOK, Holding, Held, Enqueue
  <1>2. ASSUME Delivery, NEW t \in Tasks, Expire(t) PROVE Final
    BY <1>0, <1>2 DEF TypeOK, Holding, Held, Expire
  <1>3. ASSUME Delivery, NEW w \in Workers, Pop(w) PROVE Final
    BY <1>0, <1>3 DEF TypeOK, Holding, Held, Pop
  <1>4. ASSUME Delivery, NEW w \in Workers, Select(w) PROVE Final
    BY <1>0, <1>4 DEF TypeOK, Holding, Held, Select
  <1>5. ASSUME Delivery, NEW w \in Workers, MarkRunning(w) PROVE Final
    BY <1>0, <1>5 DEF TypeOK, Holding, Held, MarkRunning
  <1>6. ASSUME Delivery, NEW w \in Workers, Acquire(w) PROVE Final
    BY <1>0, <1>6 DEF TypeOK, Holding, Held, Acquire
  <1>7. ASSUME Delivery, NEW w \in Workers, Load(w) PROVE Final
    BY <1>0, <1>7 DEF TypeOK, Holding, Held, Load
  <1>8. ASSUME Delivery, NEW w \in Workers, Finish(w) PROVE Final
    BY <1>0, <1>8 DEF TypeOK, Holding, Held, Finish
  <1>9. ASSUME Delivery, NEW w \in Workers, Store(w) PROVE Final
    BY <1>0, <1>9 DEF TypeOK, Holding, Held, Store
  <1>10. ASSUME Delivery, NEW w \in Workers, Release(w) PROVE Final
    BY <1>0, <1>10 DEF TypeOK, Holding, Held, Release
  <1>11. ASSUME Delivery, NEW w \in Workers, Report(w) PROVE Final
    BY <1>0, <1>11 DEF TypeOK, Holding, Held, Report
  <1>12. ASSUME Delivery, NEW w \in Workers, Crash(w) PROVE Final
    BY <1>0, <1>12 DEF TypeOK, Holding, Held, Crash
  <1>13. ASSUME Delivery, Next PROVE Final
    BY ONLY <1>1, <1>2, <1>3, <1>4, <1>5, <1>6, <1>7, <1>8, <1>9, <1>10, <1>11, <1>12, <1>13, NextCases
  <1> QED
    BY DeliveryInvariance, <1>13, PTL DEF Spec, OutcomeIsFinal
(***************************************************************************)
(* What becomes of the lock.                                               *)
(***************************************************************************)
LocksAreInUse ==
    \A t \in Tasks, w \in Workers :
        lock[t] = w => At(w, "dead") \/ (InExecuteTask(w) /\ job[w] = t)

UseInv == TypeOK /\ (\A w \in Workers : Holding(w) => job[w] \in Tasks) /\ LocksAreInUse

(* The worker that moves is the holder of no lock but that of its task; only an error
   of get_task_data or of release makes it leave that one behind. *)
LEMMA UseStep ==
    ASSUME UseInv, "data" \notin Faults, "lock" \notin Faults, [Next]_vars
    PROVE  LocksAreInUse'
  <1>0. TypeOK /\ (\A w \in Workers : Holding(w) => job[w] \in Tasks) /\ LocksAreInUse
    BY DEF UseInv
  <1> USE DEF LocksAreInUse, InExecuteTask
  <1>1. ASSUME NEW t \in Tasks, Enqueue(t) PROVE LocksAreInUse'
    BY <1>0, <1>1 DEF Enqueue
  <1>2. ASSUME NEW t \in Tasks, Expire(t) PROVE LocksAreInUse'
    BY <1>0, <1>2 DEF TypeOK, Expire
  <1>3. ASSUME NEW w \in Workers, Pop(w) PROVE LocksAreInUse'
    BY <1>0, <1>3 DEF TypeOK, Pop
  <1>4. ASSUME NEW w \in Workers, Select(w) PROVE LocksAreInUse'
    BY <1>0, <1>4 DEF TypeOK, Select
  <1>5. ASSUME NEW w \in Workers, MarkRunning(w) PROVE LocksAreInUse'
    BY <1>0, <1>5 DEF TypeOK, Holding, MarkRunning
  <1>6. ASSUME NEW w \in Workers, Acquire(w) PROVE LocksAreInUse'
    BY <1>0, <1>6 DEF TypeOK, Holding, Acquire
  <1>7. ASSUME NEW w \in Workers, Load(w) PROVE LocksAreInUse'
    BY <1>0, <1>7 DEF TypeOK, Holding, Load
  <1>8. ASSUME NEW w \in Workers, Finish(w) PROVE LocksAreInUse'
    BY <1>0, <1>8 DEF TypeOK, Holding, Finish
  <1>9. ASSUME NEW w \in Workers, Store(w) PROVE LocksAreInUse'
    BY <1>0, <1>9 DEF TypeOK, Holding, Store
  <1>10. ASSUME NEW w \in Workers, Release(w) PROVE LocksAreInUse'
    BY <1>0, <1>10 DEF TypeOK, Holding, Release
  <1>11. ASSUME NEW w \in Workers, Report(w) PROVE LocksAreInUse'
    BY <1>0, <1>11 DEF TypeOK, Holding, Report
  <1>12. ASSUME NEW w \in Workers, Crash(w) PROVE LocksAreInUse'
    BY <1>0, <1>12 DEF TypeOK, Holding, Crash
  <1>13. CASE UNCHANGED vars
    BY <1>0, <1>13 DEF vars
  <1>14. ASSUME Next PROVE LocksAreInUse'
    BY ONLY <1>1, <1>2, <1>3, <1>4, <1>5, <1>6, <1>7, <1>8, <1>9, <1>10, <1>11, <1>12, <1>14, NextCases
  <1> QED
    BY <1>13, <1>14

(* While the backend answers get_task_data and the lock its releases, a worker that is
   done with a task leaves no lock behind, whatever else fails, lapses or crashes. *)
THEOREM NoLockLeft ==
    ASSUME "data" \notin Faults, "lock" \notin Faults
    PROVE  Spec => []LockReleased
  <1>1. Init => UseInv
    BY LockInvInit DEF LockInv, UseInv, LocksAreInUse, Init
  <1>2. UseInv /\ [Next]_vars => UseInv'
    BY TypeStep, UseStep DEF UseInv
  <1>3. UseInv => LockReleased
    BY DEF UseInv, LocksAreInUse, LockReleased, InExecuteTask
  <1> QED
    BY <1>1, <1>2, <1>3, PTL DEF Spec

(* release compares tokens: whatever lapsed and whoever took the lock since, a worker
   frees only the lock it holds itself. *)
THEOREM OwnRelease == Spec => ReleaseIsOwn
  <1> DEFINE Own == \A w \in Workers : \A t \in Tasks :
                 At(w, "releasing") /\ ~At(w, "releasing")' /\ lock'[t] # lock[t] => lock[t] = w
  <1>0. ASSUME LockInv PROVE TypeOK /\ (\A w \in Workers : Holding(w) => job[w] \in Tasks)
    BY <1>0 DEF LockInv
  <1>1. ASSUME LockInv, NEW t \in Tasks, Enqueue(t) PROVE Own
    BY <1>1 DEF Enqueue
  <1>2. ASSUME LockInv, NEW t \in Tasks, Expire(t) PROVE Own
    BY <1>2 DEF Expire
  <1>3. ASSUME LockInv, NEW w \in Workers, Pop(w) PROVE Own
    BY <1>3 DEF Pop
  <1>4. ASSUME LockInv, NEW w \in Workers, Select(w) PROVE Own
    BY <1>4 DEF Select
  <1>5. ASSUME LockInv, NEW w \in Workers, MarkRunning(w) PROVE Own
    BY <1>5 DEF MarkRunning
  <1>6. ASSUME LockInv, NEW w \in Workers, Acquire(w) PROVE Own
    BY <1>0, <1>6 DEF TypeOK, Holding, Acquire
  <1>7. ASSUME LockInv, NEW w \in Workers, Load(w) PROVE Own
    BY <1>7 DEF Load
  <1>8. ASSUME LockInv, NEW w \in Workers, Finish(w) PROVE Own
    BY <1>8 DEF Finish
  <1>9. ASSUME LockInv, NEW w \in Workers, Store(w) PROVE Own
    BY <1>9 DEF Store
  <1>10. ASSUME LockInv, NEW w \in Workers, Release(w) PROVE Own
    BY <1>0, <1>10 DEF TypeOK, Holding, Release
  <1>11. ASSUME LockInv, NEW w \in Workers, Report(w) PROVE Own
    BY <1>11 DEF Report
  <1>12. ASSUME LockInv, NEW w \in Workers, Crash(w) PROVE Own
    BY <1>12 DEF Crash
  <1>13. ASSUME LockInv, Next PROVE Own
    BY ONLY <1>1, <1>2, <1>3, <1>4, <1>5, <1>6, <1>7, <1>8, <1>9, <1>10, <1>11, <1>12, <1>13, NextCases
  <1> QED
    BY LockInvariance, <1>13, PTL DEF Spec, ReleaseIsOwn

=============================================================================
