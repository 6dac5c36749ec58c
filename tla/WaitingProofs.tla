----------------------------- MODULE WaitingProofs -----------------------------
(***************************************************************************)
(* Proofs about the parts of the system that wait for another thread,      *)
(* process or peer: Threads, SaneiThread, AccessLock and Transfer, for any *)
(* set of threads, tasks and processes, for headers, bodies and retries of *)
(* any number and for messages without bound.                              *)
(***************************************************************************)
EXTENDS Transfer, Threads, SaneiThread, AccessLock, FiniteSetTheorems, TLAPS

-----------------------------------------------------------------------------
(* Threads.  ThreadsSafe is inductive once it also says that the old value  *)
(* a set() has copied is still the value: nobody writes it while the mutex  *)
(* is held.                                                                 *)

Untouched == \A t \in Workers : doing[t] \in {"test", "clear"} => oldval[t] = param

ThreadsInv == ThreadsSafe /\ Untouched

LEMMA ThreadsInitInv == ThreadsInit => ThreadsInv
BY ThreadsAssumption DEF ThreadsInit, ThreadsInv, ThreadsSafe, ThreadsTypeOK, MutexesHeld, TakeNeedsGive, OneOwner, Untouched, Doing

\* The steps of interaction.
LEMMA InteractionKeeps ==
    ASSUME ThreadsInv, NEW t \in Workers,
           LockInteraction(t) \/ Give(t) \/ StartWait(t) \/ TimeOut(t) \/ WakeSpuriously(t) \/ TakeReturns(t)
    PROVE  ThreadsInv'
<1> USE ThreadsAssumption DEF ThreadsInv, ThreadsSafe, ThreadsTypeOK, MutexesHeld, TakeNeedsGive, OneOwner,
                              Untouched, Goto, interactionVars, paramVars, taskVars, Doing
<1>1. CASE LockInteraction(t)
      BY <1>1 DEF LockInteraction
<1>2. CASE Give(t)
      BY <1>2 DEF Give
<1>3. CASE StartWait(t)
      BY <1>3 DEF StartWait
<1>4. CASE TimeOut(t)
      BY <1>4 DEF TimeOut
<1>5. CASE WakeSpuriously(t)
      BY <1>5 DEF WakeSpuriously
<1>6. CASE TakeReturns(t)
      BY <1>6 DEF TakeReturns
<1> QED BY <1>1, <1>2, <1>3, <1>4, <1>5, <1>6

\* The steps of exclusive_param, and the calls.
LEMMA ParamKeeps ==
    ASSUME ThreadsInv, NEW t \in Workers, Begin(t) \/ LockParam(t) \/ SetParam(t)
    PROVE  ThreadsInv'
<1> USE ThreadsAssumption DEF ThreadsInv, ThreadsSafe, ThreadsTypeOK, MutexesHeld, TakeNeedsGive, OneOwner,
                              Untouched, Goto, interactionVars, paramVars, taskVars, Doing
<1>1. CASE Begin(t)
      BY <1>1 DEF Begin
<1>2. CASE LockParam(t)
      BY <1>2 DEF LockParam
<1>3. CASE SetParam(t)
      BY <1>3 DEF SetParam, Test
<1> QED BY <1>1, <1>2, <1>3

\* The steps of the task, and stuttering.
LEMMA TaskKeeps ==
    ASSUME ThreadsInv, StartThread \/ ThreadEnds \/ Join \/ UNCHANGED threadsVars
    PROVE  ThreadsInv'
BY DEF ThreadsInv, ThreadsSafe, ThreadsTypeOK, MutexesHeld, TakeNeedsGive, OneOwner, Untouched, StartThread,
       ThreadEnds, Join, threadHelpers, threadsVars, interactionVars, paramVars, taskVars

\* For any number of threads: nobody is locked out of the mutexes of interaction and
\* exclusive_param, no take goes on without a give, a value has one owner
\* (odc_misc.h:189-306).
THEOREM ThreadsAreSafe == ThreadsSpec => []ThreadsSafe
<1>1. ThreadsInit => ThreadsInv
      BY ThreadsInitInv
<1>2. ThreadsInv /\ [ThreadsNext]_threadsVars => ThreadsInv'
      BY InteractionKeeps, ParamKeeps, TaskKeeps DEF ThreadsNext, Step
<1>3. ThreadsInv => ThreadsSafe
      BY DEF ThreadsInv
<1>4. QED
      BY <1>1, <1>2, <1>3, PTL DEF ThreadsSpec

-----------------------------------------------------------------------------
(* SaneiThread.  A thread shares td, the static status and the handler of   *)
(* SIGPIPE with every other one; that these are its own follows, while it   *)
(* is the only one, from what each of its states says about them.  A child  *)
(* process shares nothing.                                                  *)

TaskStates ==
    {"none", "created", "running", "returning", "ended", "killed", "signalled", "reaped", "waited"}

Task == [state : TaskStates, runs : Tasks \cup {NoTask}, result : TaskStatuses]

TaskTypeOK ==
    /\ forked \in BOOLEAN /\ overlapped \in BOOLEAN
    /\ tasks \in [Tasks -> Task]
    /\ td \in [func : Tasks \cup {NoTask}, status : TaskStatuses] /\ lastStatus \in TaskStatuses

\* A handler of the application's own stays, and a process changes none.
Handlers ==
    /\ application \in {"dfl", "ign", "own"} /\ sigpipe \in {"dfl", "ign", "own"}
    /\ sigpipe = "own" <=> application = "own"
    /\ forked => sigpipe = application

\* The states of a task that is begun and not waited for.
Begun == TaskStates \ {"none", "waited"}

\* What runs in a process of its own, or is the only thread there is.
Apart == forked \/ ~overlapped

AtMostOne ==
    ~forked /\ ~overlapped =>
      \A s, t \in Tasks : tasks[s].state \in Begun /\ tasks[t].state \in Begun => s = t

\* What the state of a task says of td, of the static status and of SIGPIPE.
Shared == Apart =>
    \A t \in Tasks :
      /\ tasks[t].state \in Begun => tasks[t].runs \in {t, NoTask}
      /\ tasks[t].state \in {"created", "returning"} => ~forked
      /\ tasks[t].state \in {"signalled", "reaped"} => forked
      /\ ~forked /\ tasks[t].state \in Begun => sigpipe # "dfl"
      /\ tasks[t].state = "created" => td.func = t
      /\ ~forked /\ tasks[t].state \in {"returning", "ended"} => lastStatus = tasks[t].result
      /\ ~forked /\ tasks[t].state = "ended" => td.status = tasks[t].result

\* A task that has ended does not run again: its status stays what it was.
Answered == Apart =>
    /\ answer.call # "none" /\ answer.state = "ended" =>
         /\ answer.task \in Tasks
         /\ tasks[answer.task].state \in {"ended", "reaped", "waited"}
         /\ answer.status = tasks[answer.task].result
    /\ answer.call = "wait" =>
         /\ answer.state = "killed" => answer.status = "good"
         /\ answer.state = "signalled" => answer.status # "good"

TaskInv == TaskTypeOK /\ Handlers /\ AtMostOne /\ Shared /\ Answered

LEMMA TaskInitInv == TaskInit => TaskInv
<1> SUFFICES ASSUME TaskInit PROVE TaskInv
    OBVIOUS
<1>1. TaskTypeOK
      BY SaneiThreadAssumption DEF TaskInit, TaskTypeOK, Task, TaskStates
<1>2. Handlers
      BY DEF TaskInit, Handlers
<1>3. \A t \in Tasks : tasks[t].state = "none"
      BY DEF TaskInit
<1>4. AtMostOne /\ Shared
      BY <1>3 DEF AtMostOne, Shared, Begun
<1>5. Answered
      BY DEF TaskInit, Answered, NoAnswer
<1> QED BY <1>1, <1>2, <1>4, <1>5 DEF TaskInv

\* A task changes its own record only.
LEMMA TaskRecord ==
    ASSUME tasks \in [Tasks -> Task], NEW t \in Tasks, NEW r \in Task,
           tasks' = [tasks EXCEPT ![t] = r]
    PROVE  /\ tasks' \in [Tasks -> Task] /\ tasks'[t] = r
           /\ \A s \in Tasks : s # t => tasks'[s] = tasks[s]
OBVIOUS

\* A task that is begun when another is left says so.
LEMMA BeginsAlone ==
    ASSUME TaskTypeOK, NEW t \in Tasks, ThreadBegin(t), ~overlapped'
    PROVE  \A s \in Tasks : tasks[s].state \notin Begun
<1>1. Alive = {s \in Tasks : tasks[s].state \in Begun}
      BY DEF Alive, Begun, TaskTypeOK, Task
<1>2. Alive = {}
      BY DEF ThreadBegin
<1> QED BY <1>1, <1>2

LEMMA TaskBegins ==
    ASSUME TaskInv, NEW t \in Tasks, ThreadBegin(t)
    PROVE  TaskInv'
<1> USE SaneiThreadAssumption DEF TaskInv
<1> DEFINE e == IF forked THEN "running" ELSE "created"
           u == IF forked THEN t ELSE NoTask
<1>1. /\ tasks[t].state = "none" /\ tasks[t] \in Task
      /\ answer' = NoAnswer /\ UNCHANGED <<forked, lastStatus, application>>
      /\ td' = IF forked THEN td ELSE [td EXCEPT !.func = t]
      /\ sigpipe' = Ignoring(sigpipe) /\ overlapped' = (Alive # {})
      BY DEF ThreadBegin, TaskTypeOK
<1>2. /\ Handlers' /\ (~forked => sigpipe' # "dfl")
      /\ td' \in [func : Tasks \cup {NoTask}, status : TaskStatuses]
      /\ ~forked => td'.func = t
      /\ Answered'
      BY <1>1 DEF Handlers, Ignoring, TaskTypeOK, Answered, NoAnswer
<1>3. /\ e \in Begun /\ e \in TaskStates /\ u \in {t, NoTask}
      /\ e = "created" => ~forked
      /\ e \notin {"returning", "signalled", "reaped", "ended"}
      BY DEF Begun, TaskStates
<1> HIDE DEF e, u
<1>4. CASE UNCHANGED tasks
  <2>1. TaskTypeOK'
        BY <1>1, <1>2, <1>4 DEF TaskTypeOK
  <2>2. ASSUME Apart' PROVE Shared' /\ AtMostOne'
    <3>1. CASE forked
          BY <1>1, <1>4, <3>1 DEF Shared, AtMostOne, Apart
    <3>2. CASE ~forked
      <4>1. \A s \in Tasks : tasks'[s].state \notin Begun
            BY <1>1, <1>4, <2>2, <3>2, BeginsAlone DEF Apart
      <4> QED BY <4>1 DEF Shared, AtMostOne, Begun, TaskStates
    <3> QED BY <3>1, <3>2
  <2>3. ~Apart' => Shared' /\ AtMostOne'
        BY DEF Shared, AtMostOne, Apart
  <2> QED BY <1>2, <2>1, <2>2, <2>3
<1>5. CASE tasks' = [tasks EXCEPT ![t] = [tasks[t] EXCEPT !.state = e, !.runs = u]]
  <2>a. [tasks[t] EXCEPT !.state = e, !.runs = u] \in Task
        BY <1>1, <1>3 DEF Task
  <2>b. /\ tasks' \in [Tasks -> Task]
        /\ tasks'[t] = [tasks[t] EXCEPT !.state = e, !.runs = u]
        /\ \A s \in Tasks : s # t => tasks'[s] = tasks[s]
        BY <1>5, <2>a, TaskRecord DEF TaskTypeOK
  <2>c. tasks'[t].state = e /\ tasks'[t].runs = u
        BY <1>1, <2>b DEF Task
  <2>1. TaskTypeOK'
        BY <1>1, <1>2, <2>b DEF TaskTypeOK
  <2>2. ASSUME Apart' PROVE Shared' /\ AtMostOne'
    <3>1. CASE forked
          BY <1>1, <1>3, <2>b, <2>c, <3>1 DEF Shared, AtMostOne, Apart
    <3>2. CASE ~forked
      <4>1. \A s \in Tasks : s # t => tasks'[s].state \notin Begun
            BY <1>1, <2>2, <2>b, <3>2, BeginsAlone DEF Apart
      <4>2. AtMostOne'
            BY <4>1 DEF AtMostOne
      <4>3. \A s \in Tasks : s # t => tasks'[s].state \in {"none", "waited"}
            BY <2>b, <4>1 DEF Task, Begun
      <4>4. Shared'
            BY <1>1, <1>2, <1>3, <2>c, <3>2, <4>3 DEF Shared, Begun
      <4> QED BY <4>2, <4>4
    <3> QED BY <3>1, <3>2
  <2>3. ~Apart' => Shared' /\ AtMostOne'
        BY DEF Shared, AtMostOne, Apart
  <2> QED BY <1>2, <2>1, <2>2, <2>3
<1> QED
  <2>1. \/ UNCHANGED tasks
        \/ tasks' = [tasks EXCEPT ![t].state = e, ![t].runs = u]
        BY DEF ThreadBegin, e, u
  <2>2. tasks \in [Tasks -> Task]
        BY DEF TaskTypeOK
  <2>3. [tasks EXCEPT ![t].state = e, ![t].runs = u]
          = [tasks EXCEPT ![t] = [tasks[t] EXCEPT !.state = e, !.runs = u]]
        BY <2>2
  <2> QED BY <1>4, <1>5, <2>1, <2>3

LEMMA TaskGoesOn ==
    ASSUME TaskInv, NEW t \in Tasks,
           \/ LocalThread(t) \/ ThreadExits(t) \/ ThreadKill(t)
           \/ \E s \in TaskStatuses : FuncReturns(t, s)
    PROVE  TaskInv'
<1> USE SaneiThreadAssumption
    DEF TaskInv, TaskTypeOK, Task, AtMostOne, Shared, Answered, TaskStates, Begun, Apart
<1>0. UNCHANGED <<forked, application, sigpipe, overlapped, answer>> /\ Handlers'
      BY DEF LocalThread, ThreadExits, ThreadKill, FuncReturns, Handlers
<1>1. CASE LocalThread(t)
  <2>1. /\ tasks'[t].state = "running" /\ tasks'[t].runs = td.func
        /\ tasks'[t].result = tasks[t].result
        /\ \A s \in Tasks : s # t => tasks'[s] = tasks[s]
        /\ tasks[t].state = "created" /\ UNCHANGED <<td, lastStatus>>
        BY <1>1 DEF LocalThread
  <2>3. TaskTypeOK'
    <3>1. tasks[t] \in Task /\ tasks'[t] = [tasks[t] EXCEPT !.state = "running", !.runs = td.func]
          BY <1>1 DEF LocalThread
    <3>2. tasks'[t] \in Task
          BY <3>1
    <3>3. tasks' \in [Tasks -> Task]
          BY <1>1, <2>1, <3>2 DEF LocalThread
    <3> QED BY <1>0, <2>1, <3>3
  <2>4. AtMostOne' /\ Answered'
        BY <1>0, <2>1
  <2>5. Shared'
        BY <1>0, <2>1
  <2> QED BY <1>0, <2>3, <2>4, <2>5
<1>2. CASE ThreadExits(t)
  <2>1. /\ tasks'[t].state = "ended" /\ tasks'[t].runs = tasks[t].runs
        /\ tasks'[t].result = tasks[t].result
        /\ \A s \in Tasks : s # t => tasks'[s] = tasks[s]
        /\ tasks[t].state = "returning" /\ UNCHANGED lastStatus
        /\ td' = [td EXCEPT !.status = lastStatus]
        BY <1>2 DEF ThreadExits
  <2>2. TaskTypeOK'
        BY <1>0, <1>2, <2>1 DEF ThreadExits
  <2>3. AtMostOne' /\ Answered'
        BY <1>0, <2>1
  <2>4. Shared'
        BY <1>0, <2>1
  <2> QED BY <1>0, <2>2, <2>3, <2>4
<1>3. CASE ThreadKill(t)
  <2>1. PICK how \in {"killed", "signalled"} :
           /\ tasks' = [tasks EXCEPT ![t].state = how] /\ (how = "signalled" => forked)
        BY <1>3 DEF ThreadKill
  <2>2. /\ tasks'[t].state = how /\ tasks'[t].runs = tasks[t].runs
        /\ tasks'[t].result = tasks[t].result
        /\ \A s \in Tasks : s # t => tasks'[s] = tasks[s]
        /\ tasks[t].state \in {"created", "running", "returning"} /\ UNCHANGED <<td, lastStatus>>
        BY <1>3, <2>1 DEF ThreadKill, Going
  <2>3. TaskTypeOK'
        BY <1>0, <2>1, <2>2
  <2>4. AtMostOne' /\ Answered'
        BY <1>0, <2>2
  <2>5. Shared'
        BY <1>0, <2>1, <2>2
  <2> QED BY <1>0, <2>3, <2>4, <2>5
<1>4. ASSUME NEW s \in TaskStatuses, FuncReturns(t, s) PROVE TaskInv'
  <2>a. PICK e \in {"ended", "returning"} :
           /\ e = IF forked THEN "ended" ELSE "returning"
           /\ tasks' = [tasks EXCEPT ![t].state = e, ![t].result = s]
        BY <1>4 DEF FuncReturns
  <2>b. tasks[t].state = "running" /\ lastStatus' = IF forked THEN lastStatus ELSE s
        BY <1>4 DEF FuncReturns
  <2>1. /\ tasks'[t].state = e /\ tasks'[t].runs = tasks[t].runs /\ tasks'[t].result = s
        /\ \A r \in Tasks : r # t => tasks'[r] = tasks[r]
        BY <2>a
  <2>2. UNCHANGED td
        BY <1>4 DEF FuncReturns
  <2>3. TaskTypeOK'
    <3>1. tasks[t] \in Task /\ tasks'[t] = [tasks[t] EXCEPT !.state = e, !.result = s]
          BY <2>a
    <3>2. tasks'[t] \in Task
          BY <3>1
    <3>3. tasks' \in [Tasks -> Task]
          BY <2>a, <2>1, <3>2
    <3> QED BY <1>0, <2>2, <2>b, <3>3
  <2>4. AtMostOne' /\ Answered'
        BY <1>0, <2>1, <2>2, <2>b
  <2>5. Shared'
        BY <1>0, <2>1, <2>2, <2>a, <2>b
  <2> QED BY <1>0, <2>3, <2>4, <2>5
<1> QED BY <1>1, <1>2, <1>3, <1>4

LEMMA TaskAnswers ==
    ASSUME TaskInv, NEW t \in Tasks, ThreadWait(t) \/ ThreadGetStatus(t)
    PROVE  TaskInv'
<1> USE SaneiThreadAssumption
    DEF TaskInv, TaskTypeOK, Task, AtMostOne, Shared, Answered, TaskStates, Begun, Apart
<1>0. UNCHANGED <<forked, td, lastStatus, application, overlapped>>
      BY DEF ThreadWait, ThreadGetStatus
<1>1. CASE ThreadWait(t)
  <2>1. /\ tasks' = [tasks EXCEPT ![t].state = "waited"]
        /\ tasks[t].state \in {"ended", "killed", "signalled", "reaped"}
        BY <1>1 DEF ThreadWait
  <2>2. /\ tasks'[t].state = "waited" /\ tasks'[t].result = tasks[t].result
        /\ \A s \in Tasks : s # t => tasks'[s] = tasks[s]
        BY <2>1
  <2>3. Handlers'
        BY <1>0, <1>1 DEF ThreadWait, Restored, Handlers
  <2>4. TaskTypeOK' /\ AtMostOne'
        BY <1>0, <2>1, <2>2
  <2>5. Shared'
    <3>1. forked => sigpipe' = sigpipe
          BY <1>1 DEF ThreadWait, Restored
    <3> QED BY <1>0, <2>1, <2>2, <3>1
  <2>6. Answered'
        BY <1>0, <1>1, <2>1, <2>2 DEF ThreadWait, EvalWpResult, JoinedStatus
  <2> QED BY <2>3, <2>4, <2>5, <2>6
<1>2. CASE ThreadGetStatus(t)
  <2>1. /\ UNCHANGED sigpipe /\ tasks[t].state \in Begun
        /\ \/ UNCHANGED tasks
           \/ /\ tasks' = [tasks EXCEPT ![t].state = "reaped"] /\ forked
              /\ tasks[t].state \in {"ended", "killed", "signalled"}
        BY <1>2 DEF ThreadGetStatus, Alive
  <2>2. /\ tasks'[t].result = tasks[t].result /\ tasks'[t].runs = tasks[t].runs
        /\ \A s \in Tasks : s # t => tasks'[s] = tasks[s]
        /\ tasks'[t].state = tasks[t].state \/ (tasks'[t].state = "reaped" /\ forked)
        BY <2>1
  <2>3. Handlers'
        BY <1>0, <2>1 DEF Handlers
  <2>4. TaskTypeOK' /\ AtMostOne'
        BY <1>0, <2>1, <2>2
  <2>5. Shared'
        BY <1>0, <2>1, <2>2
  <2>6. Answered'
    <3>1. answer' = [call |-> "status", task |-> t, state |-> tasks[t].state,
                     status |-> IF ~forked THEN td.status
                                ELSE IF t \in Going \/ tasks[t].state = "reaped" THEN "io_error"
                                ELSE EvalWpResult(t)]
          BY <1>2 DEF ThreadGetStatus
    <3>2. tasks[t].state = "ended" =>
            /\ answer'.status = IF ~forked THEN td.status ELSE tasks[t].result
            /\ tasks'[t].state \in {"ended", "reaped"}
          BY <2>1, <2>2, <3>1 DEF Going, EvalWpResult
    <3> QED BY <1>0, <2>1, <2>2, <3>1, <3>2
  <2> QED BY <2>3, <2>4, <2>5, <2>6
<1> QED BY <1>1, <1>2

\* For any number of tasks, side by side or one after the other, and any statuses and
\* calls: a thread of which none was begun before the others had been waited for goes on
\* with SIGPIPE not at its default; it, and any process, runs its own function and is told
\* its own status; and the application's own handler stays (sanei_thread.c).
THEOREM TasksAreSafe == TaskSpec => []TasksSafe
<1>1. TaskInit => TaskInv
      BY TaskInitInv
<1>2. TaskInv /\ [TaskNext]_forkVars => TaskInv'
  <2> SUFFICES ASSUME TaskInv, [TaskNext]_forkVars PROVE TaskInv'
        OBVIOUS
  <2>1. CASE TaskNext
        BY <2>1, TaskBegins, TaskGoesOn, TaskAnswers DEF TaskNext
  <2>2. CASE UNCHANGED forkVars
        BY <2>2 DEF forkVars, TaskInv, TaskTypeOK, Handlers, AtMostOne, Shared, Answered, Apart
  <2> QED BY <2>1, <2>2
<1>3. TaskInv => TasksSafe
  <2> SUFFICES ASSUME TaskInv PROVE SigpipeIgnored /\ OwnStatus
        BY DEF TasksSafe
  <2>1. \A t \in Going : t \in Tasks /\ tasks[t].state \in Begun
        BY DEF Going, Begun, TaskStates
  <2> QED BY <2>1 DEF TaskInv, Handlers, Shared, Answered, Apart, SigpipeIgnored, OwnStatus
<1>4. QED
      BY <1>1, <1>2, <1>3, PTL DEF TaskSpec

-----------------------------------------------------------------------------
(* AccessLock, for any timeout and any number of deaths.  FileHasOwner is   *)
(* not inductive: a call that gives up would leave the caller's own file    *)
(* behind.  It never does, because a process that finds its own file finds  *)
(* its id in it.                                                            *)

Steps == {"idle", "open", "write", "check", "unlink", "held", "dead"}

LockTypeOK ==
    /\ lockFile \in [by : Procs \cup {NoProc}, written : BOOLEAN]
    /\ locking \in [Procs -> Steps] /\ triesLeft \in [Procs -> Int]

\* The process that has made the file is between making it and giving it back; it has
\* its id in the file unless it has just made it, and has a try left to find it.
OwnerGoesOn ==
    \A p \in Procs :
      lockFile.by = p =>
        /\ locking[p] \in {"write", "held", "open", "check", "dead"}
        /\ locking[p] = "open" => triesLeft[p] > 0
        /\ locking[p] \in {"held", "open", "check"} => lockFile.written

\* A file that nobody made is no file.
NobodysFile == lockFile.by = NoProc => lockFile = NoFile

LockInv == LockTypeOK /\ OwnerGoesOn /\ NobodysFile

LEMMA LockInitInv == LockInit => LockInv
BY AccessAssumption DEF LockInit, LockInv, LockTypeOK, OwnerGoesOn, NobodysFile, NoFile, Steps

\* The attempts to create the file.
LEMMA AttemptKeeps ==
    ASSUME LockInv, NEW p \in Procs, AccessLock(p) \/ OpenLock(p) \/ WriteLock(p) \/ LockTimeout(p)
    PROVE  LockInv'
<1> USE AccessAssumption DEF LockInv, LockTypeOK, OwnerGoesOn, NobodysFile, NoFile, Steps
<1>1. CASE AccessLock(p)
      BY <1>1 DEF AccessLock
<1>2. CASE OpenLock(p)
  <2>1. UNCHANGED triesLeft
        BY <1>2 DEF OpenLock
  <2>2. CASE /\ lockFile' = [by |-> p, written |-> FALSE]
             /\ locking' = [locking EXCEPT ![p] = "write"]
        BY <2>1, <2>2
  <2>3. CASE /\ UNCHANGED lockFile
             /\ locking[p] = "open" /\ locking' = [locking EXCEPT ![p] = "check"]
        BY <2>1, <2>3
  <2>4. CASE /\ lockFile = NoFile /\ UNCHANGED lockFile
             /\ locking' = [locking EXCEPT ![p] = "idle"]
        BY <2>1, <2>4
  <2> QED BY <1>2, <2>2, <2>3, <2>4 DEF OpenLock, Returns
<1>3. CASE WriteLock(p)
      BY <1>3 DEF WriteLock, Returns
<1>4. CASE LockTimeout(p)
      BY <1>4 DEF LockTimeout, Returns
<1> QED BY <1>1, <1>2, <1>3, <1>4

\* The look at a file that is there: the caller's own has its id and says "self".
LEMMA CheckKeeps ==
    ASSUME LockInv, NEW p \in Procs, CheckLock(p)
    PROVE  LockInv'
<1>1. PICK said \in LockStatus(p) :
        /\ IF said = "self" THEN Returns(p, "good", "held")
           ELSE locking' = [locking EXCEPT ![p] = IF said = "dead" THEN "unlink" ELSE "open"]
                /\ UNCHANGED result
        /\ triesLeft' = [triesLeft EXCEPT ![p] = OneLess(@, said)]
      BY DEF CheckLock
<1>2. locking[p] = "check" /\ UNCHANGED lockFile
      BY DEF CheckLock
<1>3. lockFile.by = p => said = "self"
      BY <1>1, <1>2, AccessAssumption DEF LockInv, LockTypeOK, OwnerGoesOn, NoFile, LockStatus
<1>4. triesLeft' \in [Procs -> Int] /\ \A q \in Procs : q # p => triesLeft'[q] = triesLeft[q]
      BY <1>1 DEF LockInv, LockTypeOK, OneLess
<1>5. CASE said = "self"
      BY <1>1, <1>2, <1>4, <1>5 DEF LockInv, LockTypeOK, OwnerGoesOn, NobodysFile, NoFile, Steps, Returns
<1>6. CASE said # "self"
  <2>1. lockFile.by # p
        BY <1>3, <1>6
  <2> QED BY <1>1, <1>2, <1>4, <1>6, <2>1 DEF LockInv, LockTypeOK, OwnerGoesOn, NobodysFile, NoFile, Steps
<1> QED BY <1>5, <1>6

\* The removals and the deaths.
LEMMA RemovalKeeps ==
    ASSUME LockInv, NEW p \in Procs, UnlinkStale(p) \/ AccessUnlock(p) \/ Die(p)
    PROVE  LockInv'
<1> USE AccessAssumption DEF LockInv, LockTypeOK, OwnerGoesOn, NobodysFile, NoFile, Steps
<1>1. CASE UnlinkStale(p)
      BY <1>1 DEF UnlinkStale, At
<1>2. CASE AccessUnlock(p)
      BY <1>2 DEF AccessUnlock, At, Unlinked
<1>3. CASE Die(p)
      BY <1>3 DEF Die
<1> QED BY <1>1, <1>2, <1>3

\* For any number of processes, of tries and of deaths: a lock file belongs to a process
\* that is dead, holds the lock or is on its way to; none is left behind by a
\* process that has given up or given back (sanei_access.c:158-230).
THEOREM FilesHaveOwners == LockSpec => []FileHasOwner
<1>1. LockInit => LockInv
      BY LockInitInv
<1>2. LockInv /\ [LockNext]_lockVars => LockInv'
  <2> SUFFICES ASSUME LockInv, [LockNext]_lockVars PROVE LockInv'
        OBVIOUS
  <2>1. CASE LockNext
        BY <2>1, AttemptKeeps, CheckKeeps, RemovalKeeps DEF LockNext, LockStep
  <2>2. CASE UNCHANGED lockVars
        BY <2>2 DEF LockInv, LockTypeOK, OwnerGoesOn, NobodysFile, lockVars
  <2> QED BY <2>1, <2>2
<1>3. LockInv => FileHasOwner
      BY DEF LockInv, LockTypeOK, OwnerGoesOn, NobodysFile, FileHasOwner, NoFile
<1>4. QED
      BY <1>1, <1>2, <1>3, PTL DEF LockSpec

-----------------------------------------------------------------------------
(* Transfer: scandif_recv implements MessageStream, and NODATA means that  *)
(* nothing was taken.                                                      *)
(*                                                                         *)
(* The argument is about the units in flight, from those that the call in  *)
(* hand has read to those that send() has not taken yet.  As long as       *)
(* nothing is torn they are whole messages one after the other, the first  *)
(* of them the next to be delivered; once something is torn they are still *)
(* in the order in which they were sent.                                   *)

Pairs == Nat \X Nat

-----------------------------------------------------------------------------
(* Numbers.                                                                *)

LEMMA Difference == ASSUME NEW x \in Nat, NEW y \in Nat, x >= y
                    PROVE  \E z \in Nat : x = y + z
<1>1. x - y \in Nat /\ x = y + (x - y)
      OBVIOUS
<1> QED BY <1>1

-----------------------------------------------------------------------------
(* Sequences.                                                              *)

LEMMA SeqOf == ASSUME NEW S, NEW n \in Nat, NEW f \in [1 .. n -> S]
               PROVE  f \in Seq(S) /\ Len(f) = n
OBVIOUS

LEMMA SeqOfMore == ASSUME NEW S, NEW T, S \subseteq T, NEW s \in Seq(S) PROVE s \in Seq(T)
<1>1. Len(s) \in Nat /\ s \in [1 .. Len(s) -> S]
      OBVIOUS
<1>2. s \in [1 .. Len(s) -> T]
      BY <1>1
<1> QED BY <1>1, <1>2, SeqOf

LEMMA SameSeq ==
    ASSUME NEW S, NEW s \in Seq(S), NEW u \in Seq(S), Len(s) = Len(u), \A i \in 1 .. Len(s) : s[i] = u[i]
    PROVE  s = u
OBVIOUS

LEMMA Concatenated ==
    ASSUME NEW S, NEW s \in Seq(S), NEW u \in Seq(S)
    PROVE  /\ s \o u \in Seq(S) /\ Len(s \o u) = Len(s) + Len(u)
           /\ \A i \in 1 .. Len(s) : (s \o u)[i] = s[i]
           /\ \A i \in Len(s) + 1 .. Len(s) + Len(u) : (s \o u)[i] = u[i - Len(s)]
OBVIOUS

LEMMA Front ==
    ASSUME NEW S, NEW s \in Seq(S), NEW n \in 0 .. Len(s)
    PROVE  /\ SubSeq(s, 1, n) \in Seq(S) /\ Len(SubSeq(s, 1, n)) = n
           /\ \A i \in 1 .. n : SubSeq(s, 1, n)[i] = s[i]
OBVIOUS

LEMMA Back ==
    ASSUME NEW S, NEW s \in Seq(S), NEW n \in 0 .. Len(s)
    PROVE  /\ SubSeq(s, n + 1, Len(s)) \in Seq(S) /\ Len(SubSeq(s, n + 1, Len(s))) = Len(s) - n
           /\ \A i \in 1 .. Len(s) - n : SubSeq(s, n + 1, Len(s))[i] = s[n + i]
OBVIOUS

LEMMA FrontAndBack ==
    ASSUME NEW S, NEW s \in Seq(S), NEW n \in 0 .. Len(s)
    PROVE  SubSeq(s, 1, n) \o SubSeq(s, n + 1, Len(s)) = s
<1> DEFINE f == SubSeq(s, 1, n)
           b == SubSeq(s, n + 1, Len(s))
<1>1. f \in Seq(S) /\ Len(f) = n /\ \A i \in 1 .. n : f[i] = s[i]
      BY Front
<1>2. b \in Seq(S) /\ Len(b) = Len(s) - n /\ \A i \in 1 .. Len(s) - n : b[i] = s[n + i]
      BY Back
<1> HIDE DEF f, b
<1>3. /\ f \o b \in Seq(S) /\ Len(f \o b) = Len(f) + Len(b)
      /\ \A i \in 1 .. Len(f) : (f \o b)[i] = f[i]
      /\ \A i \in Len(f) + 1 .. Len(f) + Len(b) : (f \o b)[i] = b[i - Len(f)]
      BY <1>1, <1>2, Concatenated
<1>4. ASSUME NEW i \in 1 .. Len(s) PROVE (f \o b)[i] = s[i]
  <2>1. CASE i <= n
        BY <1>1, <1>3, <2>1
  <2>2. CASE i > n
    <3>1. i - n \in 1 .. Len(s) - n /\ n + (i - n) = i
          BY <2>2
    <3>2. (f \o b)[i] = b[i - n]
          BY <1>1, <1>2, <1>3, <2>2
    <3> QED BY <1>2, <3>1, <3>2
  <2>3. i <= n \/ i > n
        OBVIOUS
  <2> QED BY <2>1, <2>2, <2>3
<1>5. Len(f \o b) = Len(s)
      BY <1>1, <1>2, <1>3
<1> QED BY <1>3, <1>4, <1>5, SameSeq DEF f, b

\* Concatenation as a symbol that the provers do not unfold.
Concat(s, u) == s \o u

LEMMA Joined ==
    ASSUME NEW s \in Seq(Pairs), NEW u \in Seq(Pairs)
    PROVE  Concat(s, u) \in Seq(Pairs) /\ Concat(<<>>, s) = s /\ Concat(s, <<>>) = s
BY DEF Concat

LEMMA Associative ==
    ASSUME NEW s \in Seq(Pairs), NEW u \in Seq(Pairs), NEW v \in Seq(Pairs)
    PROVE  Concat(Concat(s, u), v) = Concat(s, Concat(u, v))
<1>1. /\ (s \o u) \o v \in Seq(Pairs) /\ s \o (u \o v) \in Seq(Pairs)
      /\ Len((s \o u) \o v) = Len(s \o (u \o v))
      OBVIOUS
<1>2. \A i \in 1 .. Len((s \o u) \o v) : ((s \o u) \o v)[i] = (s \o (u \o v))[i]
      OBVIOUS
<1>3. (s \o u) \o v = s \o (u \o v)
      BY <1>1, <1>2, SameSeq
<1> QED BY <1>3 DEF Concat

-----------------------------------------------------------------------------
(* Units in the order in which they were sent: of messages 1 .. n, of      *)
(* which ms were delivered.                                                *)

OrderedIn(R, n, ms) ==
    /\ \A j \in DOMAIN ms : ms[j] <= n
    /\ \A i \in 1 .. Len(R) :
         R[i][1] \in 1 .. n /\ (R[i][2] = 1 => \A j \in DOMAIN ms : ms[j] < R[i][1])
    /\ \A i, j \in 1 .. Len(R) :
         i < j => R[i][1] <= R[j][1] /\ (R[j][2] = 1 => R[i][1] < R[j][1])

LEMMA UnitsAre ==
    ASSUME NEW m \in Nat, NEW n \in Nat
    PROVE  /\ Units(m, n) \in Seq(Pairs) /\ Len(Units(m, n)) = HeaderLen + n
           /\ \A k \in 1 .. HeaderLen + n : Units(m, n)[k] = <<m, k>>
<1>1. Units(m, n) \in [1 .. HeaderLen + n -> Pairs]
      BY DEF Units, Pairs
<1>2. HeaderLen + n \in Nat
      BY TransferAssumption
<1> QED BY <1>1, <1>2, SeqOf DEF Units

LEMMA OrderedAppend ==
    ASSUME NEW R \in Seq(Pairs), NEW n \in Nat, NEW ms \in Seq(Nat), NEW b \in Nat, OrderedIn(R, n, ms)
    PROVE  OrderedIn(Concat(R, Units(n + 1, b)), n + 1, ms)
<1> DEFINE U == Units(n + 1, b)
           Q == R \o U
<1>1. U \in Seq(Pairs) /\ Len(U) = HeaderLen + b /\ \A k \in 1 .. HeaderLen + b : U[k] = <<n + 1, k>>
  <2>1. n + 1 \in Nat
        OBVIOUS
  <2> QED BY <2>1, UnitsAre
<1>2. HeaderLen + b \in Nat
      BY TransferAssumption
<1> HIDE DEF U
<1>3. /\ Q \in Seq(Pairs) /\ Len(Q) = Len(R) + Len(U)
      /\ \A i \in 1 .. Len(R) : Q[i] = R[i]
      /\ \A i \in Len(R) + 1 .. Len(R) + Len(U) : Q[i] = U[i - Len(R)]
      BY <1>1, Concatenated
<1>4. \A i \in Len(R) + 1 .. Len(Q) : Q[i] = <<n + 1, i - Len(R)>>
      BY <1>1, <1>2, <1>3
<1> HIDE DEF Q
<1>5. \A j \in DOMAIN ms : ms[j] \in Nat /\ ms[j] <= n
      BY DEF OrderedIn
<1>6. ASSUME NEW i \in 1 .. Len(Q)
      PROVE  Q[i][1] \in 1 .. n + 1 /\ (Q[i][2] = 1 => \A j \in DOMAIN ms : ms[j] < Q[i][1])
  <2>1. CASE i \in 1 .. Len(R)
    <3>1. Q[i] = R[i]
          BY <1>3, <2>1
    <3>2. R[i][1] \in 1 .. n /\ (R[i][2] = 1 => \A j \in DOMAIN ms : ms[j] < R[i][1])
          BY <2>1 DEF OrderedIn
    <3> QED BY <3>1, <3>2
  <2>2. CASE i \in Len(R) + 1 .. Len(Q)
    <3>1. Q[i][1] = n + 1
          BY <1>4, <2>2
    <3>2. \A j \in DOMAIN ms : ms[j] < n + 1
          BY <1>5
    <3> QED BY <3>1, <3>2
  <2> QED BY <2>1, <2>2, <1>3
<1>7. ASSUME NEW i \in 1 .. Len(Q), NEW j \in 1 .. Len(Q), i < j
      PROVE  Q[i][1] <= Q[j][1] /\ (Q[j][2] = 1 => Q[i][1] < Q[j][1])
  <2>1. CASE j \in 1 .. Len(R)
    <3>1. i \in 1 .. Len(R)
          BY <1>7, <2>1
    <3> QED BY <1>3, <1>7, <2>1, <3>1 DEF OrderedIn
  <2>2. CASE j \in Len(R) + 1 .. Len(Q) /\ i \in 1 .. Len(R)
    <3>1. Q[i][1] \in 1 .. n
          BY <1>3, <2>2 DEF OrderedIn
    <3>2. Q[j] = <<n + 1, j - Len(R)>>
          BY <1>4, <2>2
    <3>3. Q[j][1] = n + 1
          BY <3>2
    <3>4. Q[i][1] < Q[j][1] /\ Q[i][1] <= Q[j][1]
          BY <3>1, <3>3
    <3> QED BY <3>4
  <2>3. CASE j \in Len(R) + 1 .. Len(Q) /\ i \in Len(R) + 1 .. Len(Q)
    <3>1. j - Len(R) # 1
          BY <1>7, <2>3
    <3> QED BY <3>1, <1>4, <2>3
  <2> QED BY <2>1, <2>2, <2>3, <1>3
<1>8. \A j \in DOMAIN ms : ms[j] <= n + 1
      BY <1>5
<1>9. OrderedIn(Q, n + 1, ms)
      BY <1>6, <1>7, <1>8 DEF OrderedIn
<1> QED BY <1>9 DEF Q, U, Concat

\* A part of the units is in order, too, and when the part in front of it was
\* delivered as a message, or as none, what is left comes after that.
LEMMA OrderedPart ==
    ASSUME NEW R \in Seq(Pairs), NEW n \in Nat, NEW ms \in Seq(Nat), OrderedIn(R, n, ms),
           NEW Q \in Seq(Pairs), NEW off \in Nat, off + Len(Q) <= Len(R),
           \A i \in 1 .. Len(Q) : Q[i] = R[off + i]
    PROVE  /\ OrderedIn(Q, n, ms)
           /\ \A m \in Nat : off >= 1 /\ off <= Len(R) /\ (m # 0 => R[1] = <<m, 1>>) => OrderedIn(Q, n, Append(ms, m))
<1>1. \A i \in 1 .. Len(Q) : off + i \in 1 .. Len(R)
      OBVIOUS
<1>2. OrderedIn(Q, n, ms)
  <2>1. ASSUME NEW i \in 1 .. Len(Q)
        PROVE  Q[i][1] \in 1 .. n /\ (Q[i][2] = 1 => \A j \in DOMAIN ms : ms[j] < Q[i][1])
    <3>1. off + i \in 1 .. Len(R) /\ Q[i] = R[off + i]
          BY <1>1
    <3> QED BY <3>1 DEF OrderedIn
  <2>2. ASSUME NEW i \in 1 .. Len(Q), NEW j \in 1 .. Len(Q), i < j
        PROVE  Q[i][1] <= Q[j][1] /\ (Q[j][2] = 1 => Q[i][1] < Q[j][1])
    <3>1. off + i \in 1 .. Len(R) /\ Q[i] = R[off + i] /\ off + j \in 1 .. Len(R) /\ Q[j] = R[off + j]
          BY <1>1
    <3>2. off + i < off + j
          BY <2>2
    <3> QED BY <3>1, <3>2 DEF OrderedIn
  <2> QED BY <2>1, <2>2 DEF OrderedIn
<1>3. ASSUME NEW m \in Nat, off >= 1, off <= Len(R), m # 0 => R[1] = <<m, 1>>
      PROVE  OrderedIn(Q, n, Append(ms, m))
  <2> DEFINE as == Append(ms, m)
  <2>1. as \in Seq(Nat) /\ DOMAIN as = 1 .. Len(ms) + 1 /\ as[Len(ms) + 1] = m
        /\ \A j \in 1 .. Len(ms) : as[j] = ms[j]
        OBVIOUS
  <2> HIDE DEF as
  <2>2. m <= n
    <3>1. CASE m = 0
          BY <3>1
    <3>2. CASE m # 0
      <4>1. 1 \in 1 .. Len(R) /\ R[1][1] = m
            BY <1>3, <3>2
      <4> QED BY <4>1 DEF OrderedIn
    <3> QED BY <3>1, <3>2
  <2>a. DOMAIN ms = 1 .. Len(ms)
        OBVIOUS
  <2>3. ASSUME NEW j \in DOMAIN as PROVE as[j] <= n
    <3>1. CASE j \in 1 .. Len(ms)
          BY <2>1, <2>a, <3>1 DEF OrderedIn
    <3>2. CASE j = Len(ms) + 1
          BY <2>1, <2>2, <3>2
    <3>3. j \in 1 .. Len(ms) \/ j = Len(ms) + 1
          BY <2>1
    <3> QED BY <3>1, <3>2, <3>3
  <2>4. ASSUME NEW i \in 1 .. Len(Q), Q[i][2] = 1 PROVE m < Q[i][1]
    <3>1. Q[i][1] \in 1 .. n
          BY <1>2 DEF OrderedIn
    <3>2. CASE m = 0
          BY <3>1, <3>2
    <3>3. CASE m # 0
      <4>1. /\ 1 \in 1 .. Len(R) /\ off + i \in 1 .. Len(R) /\ 1 < off + i
            /\ R[1][1] = m /\ R[off + i] = Q[i]
            BY <1>1, <1>3, <3>3
      <4> QED BY <4>1, <2>4 DEF OrderedIn
    <3> QED BY <3>2, <3>3
  <2>5. ASSUME NEW i \in 1 .. Len(Q), Q[i][2] = 1, NEW j \in DOMAIN as PROVE as[j] < Q[i][1]
    <3>1. CASE j \in 1 .. Len(ms)
          BY <1>2, <2>1, <2>5, <2>a, <3>1 DEF OrderedIn
    <3>2. CASE j = Len(ms) + 1
          BY <2>1, <2>4, <2>5, <3>2
    <3>3. j \in 1 .. Len(ms) \/ j = Len(ms) + 1
          BY <2>1
    <3> QED BY <3>1, <3>2, <3>3
  <2>6. OrderedIn(Q, n, as)
        BY <1>2, <2>3, <2>5 DEF OrderedIn
  <2> QED BY <2>6 DEF as
<1> QED BY <1>2, <1>3
-----------------------------------------------------------------------------
(* Whole messages one after the other: d + 1 comes first, ls are their     *)
(* lengths.  Only the last one may be cut short, in its body, and not      *)
(* while the sender's end is open.                                         *)

IsSize(size, ls, m) == size = HeaderLen + ls[m]

WholeAt(R, ls, d, open, i) ==
    \E m \in d + 1 .. Len(ls), s \in Nat, size \in Nat :
        /\ IsSize(size, ls, m)
        /\ i \in s + 1 .. s + size /\ R[i] = <<m, i - s>>
        /\ \A k \in 1 .. size : s + k <= Len(R) => R[s + k] = <<m, k>>
        /\ s + HeaderLen <= Len(R)
        /\ open => s + size <= Len(R)
        /\ s + size < Len(R) => R[s + size + 1] = <<m + 1, 1>>

WholeIn(R, ls, d, open) ==
    /\ d <= Len(ls)
    /\ \A i \in 1 .. Len(R) : WholeAt(R, ls, d, open, i)
    /\ \A i, j \in 1 .. Len(R) : R[i][1] = R[j][1] => i + R[j][2] = j + R[i][2]
    /\ Len(R) > 0 => R[1] = <<d + 1, 1>>
    /\ open => IF Len(R) = 0 THEN d = Len(ls) ELSE R[Len(R)][1] = Len(ls)

LEMMA WholeHead ==
    ASSUME NEW R \in Seq(Pairs), NEW ls \in Seq(Nat), NEW d \in Nat, NEW open \in BOOLEAN,
           WholeIn(R, ls, d, open), Len(R) > 0
    PROVE  \E size \in Nat :
             /\ d + 1 \in 1 .. Len(ls) /\ IsSize(size, ls, d + 1) /\ HeaderLen <= Len(R)
             /\ \A k \in 1 .. size : k <= Len(R) => R[k] = <<d + 1, k>>
             /\ open => size <= Len(R)
             /\ size < Len(R) => R[size + 1] = <<d + 2, 1>>
<1>1. R[1] = <<d + 1, 1>> /\ 1 \in 1 .. Len(R)
      BY DEF WholeIn
<1>2. WholeAt(R, ls, d, open, 1)
      BY <1>1 DEF WholeIn
<1>3. PICK m \in d + 1 .. Len(ls), s \in Nat, size \in Nat :
        /\ IsSize(size, ls, m)
        /\ 1 \in s + 1 .. s + size /\ R[1] = <<m, 1 - s>>
        /\ \A k \in 1 .. size : s + k <= Len(R) => R[s + k] = <<m, k>>
        /\ s + HeaderLen <= Len(R)
        /\ open => s + size <= Len(R)
        /\ s + size < Len(R) => R[s + size + 1] = <<m + 1, 1>>
      BY <1>2 DEF WholeAt
<1>4. m = d + 1 /\ s = 0
      BY <1>1, <1>3
<1>5. m + 1 = d + 2 /\ HeaderLen \in Nat
      BY <1>4, TransferAssumption
<1>6. \A k \in 1 .. size : s + k = k
      BY <1>4
<1>7. IsSize(size, ls, d + 1) /\ d + 1 \in 1 .. Len(ls)
      BY <1>3, <1>4
<1>8. s + HeaderLen = HeaderLen /\ s + size = size /\ s + size + 1 = size + 1
      BY <1>4, <1>5
<1>9. \A k \in 1 .. size : k <= Len(R) => R[k] = <<d + 1, k>>
      BY <1>3, <1>4, <1>6
<1>10. HeaderLen <= Len(R) /\ (open => size <= Len(R)) /\ (size < Len(R) => R[size + 1] = <<d + 2, 1>>)
       BY <1>3, <1>4, <1>5, <1>8
<1> QED BY <1>7, <1>9, <1>10

\* A part of the units in which every message that it holds a unit of has its header.
LEMMA WholeCut ==
    ASSUME NEW R \in Seq(Pairs), NEW ls \in Seq(Nat), NEW d \in Nat, NEW open \in BOOLEAN,
           WholeIn(R, ls, d, open),
           NEW Q \in Seq(Pairs), Len(Q) <= Len(R), \A i \in 1 .. Len(Q) : Q[i] = R[i],
           \A i \in Len(Q) + 1 .. Len(R) : R[i][2] > HeaderLen
    PROVE  WholeIn(Q, ls, d, FALSE)
<1>1. ASSUME NEW i \in 1 .. Len(Q) PROVE WholeAt(Q, ls, d, FALSE, i)
  <2>1. i \in 1 .. Len(R) /\ Q[i] = R[i]
        OBVIOUS
  <2>2. PICK m \in d + 1 .. Len(ls), s \in Nat, size \in Nat :
          /\ IsSize(size, ls, m)
          /\ i \in s + 1 .. s + size /\ R[i] = <<m, i - s>>
          /\ \A k \in 1 .. size : s + k <= Len(R) => R[s + k] = <<m, k>>
          /\ s + HeaderLen <= Len(R)
          /\ s + size < Len(R) => R[s + size + 1] = <<m + 1, 1>>
        BY <2>1 DEF WholeIn, WholeAt
  <2>3. HeaderLen \in 1 .. size
    <3>1. ls[m] \in Nat /\ HeaderLen \in Nat \ {0}
          BY TransferAssumption
    <3>2. IsSize(size, ls, m)
          BY <2>2
    <3> QED BY <3>1, <3>2 DEF IsSize
  <2>4. R[s + HeaderLen] = <<m, HeaderLen>>
        BY <2>2, <2>3
  <2>5. s + HeaderLen <= Len(Q)
    <3>1. R[s + HeaderLen][2] = HeaderLen /\ ~(HeaderLen > HeaderLen)
          BY <2>3, <2>4
    <3>2. s + HeaderLen \notin Len(Q) + 1 .. Len(R)
          BY <3>1
    <3> QED BY <2>2, <2>3, <3>2
  <2>6. ASSUME NEW k \in 1 .. size, s + k <= Len(Q) PROVE Q[s + k] = <<m, k>>
    <3>1. s + k \in 1 .. Len(Q) /\ s + k <= Len(R)
          BY <2>6
    <3> QED BY <2>2, <3>1
  <2>7. ASSUME s + size < Len(Q) PROVE Q[s + size + 1] = <<m + 1, 1>>
    <3>1. s + size + 1 \in 1 .. Len(Q) /\ s + size < Len(R)
          BY <2>7
    <3> QED BY <2>2, <3>1
  <2> QED BY <2>1, <2>2, <2>5, <2>6, <2>7 DEF WholeAt
<1>2. ASSUME NEW i \in 1 .. Len(Q), NEW j \in 1 .. Len(Q), Q[i][1] = Q[j][1]
      PROVE  i + Q[j][2] = j + Q[i][2]
  <2>1. i \in 1 .. Len(R) /\ j \in 1 .. Len(R) /\ Q[i] = R[i] /\ Q[j] = R[j]
        OBVIOUS
  <2> QED BY <1>2, <2>1 DEF WholeIn
<1>3. ASSUME Len(Q) > 0 PROVE Q[1] = <<d + 1, 1>>
  <2>1. 1 \in 1 .. Len(Q) /\ Len(R) > 0
        BY <1>3
  <2> QED BY <2>1 DEF WholeIn
<1> QED BY <1>1, <1>2, <1>3 DEF WholeIn

\* The next message comes behind the units in flight.
LEMMA WholeAppend ==
    ASSUME NEW R \in Seq(Pairs), NEW ls \in Seq(Nat), NEW d \in Nat, NEW b \in Nat,
           WholeIn(R, ls, d, TRUE)
    PROVE  WholeIn(Concat(R, Units(Len(ls) + 1, b)), Append(ls, b), d, TRUE)
<1> DEFINE N == Len(ls) + 1
           U == Units(N, b)
           Q == R \o U
           as == Append(ls, b)
<1>1. U \in Seq(Pairs) /\ Len(U) = HeaderLen + b /\ \A k \in 1 .. HeaderLen + b : U[k] = <<N, k>>
  <2>1. N \in Nat
        OBVIOUS
  <2> QED BY <2>1, UnitsAre
<1>2. HeaderLen \in Nat /\ HeaderLen >= 1 /\ HeaderLen + b \in Nat
      BY TransferAssumption
<1>3. as \in Seq(Nat) /\ Len(as) = N /\ as[N] = b /\ \A m \in 1 .. Len(ls) : as[m] = ls[m] /\ ls[m] \in Nat
      OBVIOUS
<1> HIDE DEF U, as
<1>4. /\ Q \in Seq(Pairs) /\ Len(Q) = Len(R) + Len(U)
      /\ \A i \in 1 .. Len(R) : Q[i] = R[i]
      /\ \A i \in Len(R) + 1 .. Len(R) + Len(U) : Q[i] = U[i - Len(R)]
      BY <1>1, Concatenated
<1>5. \A i \in Len(R) + 1 .. Len(Q) : Q[i] = <<N, i - Len(R)>>
      BY <1>1, <1>2, <1>4
<1> HIDE DEF Q
<1>6. ASSUME NEW i \in 1 .. Len(R) PROVE WholeAt(Q, as, d, TRUE, i)
  <2>1. PICK m \in d + 1 .. Len(ls), s \in Nat, size \in Nat :
          /\ IsSize(size, ls, m)
          /\ i \in s + 1 .. s + size /\ R[i] = <<m, i - s>>
          /\ \A k \in 1 .. size : s + k <= Len(R) => R[s + k] = <<m, k>>
          /\ s + size <= Len(R)
          /\ s + size < Len(R) => R[s + size + 1] = <<m + 1, 1>>
        BY DEF WholeIn, WholeAt
  <2>a. s + size <= Len(R) /\ Len(R) \in Nat /\ Len(Q) \in Nat
        BY <1>4, <2>1
  <2>2. Q[i] = R[i] /\ i \in 1 .. Len(Q)
        BY <1>4
  <2>3. IsSize(size, as, m) /\ size >= 1 /\ size >= HeaderLen
    <3>1. m \in 1 .. Len(ls)
          OBVIOUS
    <3>2. as[m] = ls[m] /\ ls[m] \in Nat
          BY <1>3, <3>1
    <3>3. IsSize(size, ls, m)
          BY <2>1
    <3> QED BY <1>2, <3>2, <3>3 DEF IsSize
  <2>4. R[s + size] = <<m, size>>
    <3>1. size >= 1
          BY <2>3
    <3>2. size \in 1 .. size
          BY <3>1
    <3> QED BY <2>1, <2>a, <3>2
  <2>5. ASSUME NEW k \in 1 .. size, s + k <= Len(Q) PROVE Q[s + k] = <<m, k>>
    <3>1. s + k \in 1 .. Len(R) /\ s + k <= Len(R)
          BY <2>a
    <3>2. R[s + k] = <<m, k>>
          BY <2>1, <3>1
    <3> QED BY <1>4, <3>1, <3>2
  <2>6. ASSUME s + size < Len(Q) PROVE Q[s + size + 1] = <<m + 1, 1>>
    <3>1. CASE s + size < Len(R)
      <4>1. s + size + 1 \in 1 .. Len(R)
            BY <2>a, <3>1
      <4>2. R[s + size + 1] = <<m + 1, 1>>
            BY <2>1, <3>1
      <4> QED BY <1>4, <4>1, <4>2
    <3>2. CASE s + size = Len(R)
      <4>b. R[Len(R)] = <<m, size>>
            BY <2>4, <3>2
      <4>1. R[Len(R)][1] = m
            BY <4>b
      <4>a. Len(R) # 0
            BY <2>3, <3>2
      <4>2. m = Len(ls)
            BY <4>1, <4>a DEF WholeIn
      <4>3. Q[Len(R) + 1] = <<N, 1>>
        <5>1. Len(R) + 1 \in Len(R) + 1 .. Len(Q) /\ (Len(R) + 1) - Len(R) = 1
              BY <1>1, <1>2, <1>4
        <5> QED BY <1>5, <5>1
      <4> QED BY <3>2, <4>2, <4>3
    <3>3. s + size < Len(R) \/ s + size = Len(R)
          BY <2>a
    <3> QED BY <3>1, <3>2, <3>3
  <2>7. m \in d + 1 .. Len(as) /\ s + HeaderLen <= Len(Q) /\ s + size <= Len(Q)
    <3>1. Len(R) <= Len(Q)
          BY <1>1, <1>2, <1>4
    <3>2. Len(as) = Len(ls) + 1 /\ m \in d + 1 .. Len(ls) + 1
          BY <1>3
    <3>3. HeaderLen \in Nat /\ size >= HeaderLen
          BY <1>2, <2>3
    <3> QED BY <2>a, <3>1, <3>2, <3>3
  <2> QED BY <2>1, <2>2, <2>3, <2>5, <2>6, <2>7 DEF WholeAt
<1>7. d <= Len(ls)
      BY DEF WholeIn
<1>8. ASSUME NEW i \in Len(R) + 1 .. Len(Q) PROVE WholeAt(Q, as, d, TRUE, i)
  <2>1. Q[i] = <<N, i - Len(R)>>
        BY <1>5
  <2>2. PICK size \in Nat : size = HeaderLen + b
        BY <1>2
  <2>3. IsSize(size, as, N) /\ Len(R) + size = Len(Q)
        BY <1>1, <1>3, <1>4, <2>2 DEF IsSize
  <2>4. N \in d + 1 .. Len(as)
        BY <1>3, <1>7
  <2>5. i \in Len(R) + 1 .. Len(R) + size
        BY <2>3
  <2>6. ASSUME NEW k \in 1 .. size PROVE Q[Len(R) + k] = <<N, k>>
    <3>1. Len(R) + k \in Len(R) + 1 .. Len(Q) /\ (Len(R) + k) - Len(R) = k
      <4>1. Len(R) + size = Len(Q)
            BY <2>3
      <4> QED BY <4>1
    <3> QED BY <1>5, <3>1
  <2>7. Len(R) + HeaderLen <= Len(Q) /\ ~(Len(R) + size < Len(Q)) /\ Len(R) \in Nat /\ Len(R) + size <= Len(Q)
        BY <1>2, <2>2, <2>3
  <2> HIDE DEF N
  <2> QED BY <2>1, <2>3, <2>4, <2>5, <2>6, <2>7 DEF WholeAt
<1>9. ASSUME NEW i \in 1 .. Len(Q) PROVE i \in 1 .. Len(R) \/ i \in Len(R) + 1 .. Len(Q)
      OBVIOUS
<1>10. ASSUME NEW i \in 1 .. Len(R) PROVE Q[i][1] <= Len(ls) /\ Q[i] = R[i]
  <2>1. \E m \in d + 1 .. Len(ls), s \in Nat : R[i] = <<m, i - s>>
        BY DEF WholeIn, WholeAt
  <2> QED BY <1>4, <2>1
<1>11. ASSUME NEW i \in 1 .. Len(Q), NEW j \in 1 .. Len(Q), Q[i][1] = Q[j][1]
       PROVE  i + Q[j][2] = j + Q[i][2]
  <2>1. CASE i \in 1 .. Len(R) /\ j \in 1 .. Len(R)
        BY <1>10, <1>11, <2>1 DEF WholeIn
  <2>2. CASE i \in Len(R) + 1 .. Len(Q) /\ j \in Len(R) + 1 .. Len(Q)
        BY <1>5, <2>2
  <2>3. ~(i \in 1 .. Len(R) /\ j \in Len(R) + 1 .. Len(Q))
    <3>1. ASSUME i \in 1 .. Len(R), j \in Len(R) + 1 .. Len(Q) PROVE FALSE
      <4>1. Q[i][1] <= Len(ls) /\ Q[j][1] = N
            BY <1>5, <1>10, <3>1
      <4> QED BY <1>11, <4>1
    <3> QED BY <3>1
  <2>4. ~(j \in 1 .. Len(R) /\ i \in Len(R) + 1 .. Len(Q))
    <3>1. ASSUME j \in 1 .. Len(R), i \in Len(R) + 1 .. Len(Q) PROVE FALSE
      <4>1. Q[j][1] <= Len(ls) /\ Q[i][1] = N
            BY <1>5, <1>10, <3>1
      <4> QED BY <1>11, <4>1
    <3> QED BY <3>1
  <2> QED BY <1>9, <2>1, <2>2, <2>3, <2>4
<1>12. Len(Q) >= 1 /\ Q[Len(Q)][1] = N
  <2>1. Len(Q) \in Len(R) + 1 .. Len(Q)
        BY <1>1, <1>2, <1>4
  <2> QED BY <1>5, <2>1
<1>13. Q[1] = <<d + 1, 1>>
  <2>1. CASE Len(R) = 0
    <3>1. d = Len(ls)
          BY <2>1 DEF WholeIn
    <3>2. 1 \in Len(R) + 1 .. Len(Q) /\ 1 - Len(R) = 1
          BY <1>12, <2>1
    <3> QED BY <1>5, <3>1, <3>2
  <2>2. CASE Len(R) > 0
    <3>1. 1 \in 1 .. Len(R)
          BY <2>2
    <3> QED BY <1>4, <2>2, <3>1 DEF WholeIn
  <2> QED BY <2>1, <2>2
<1>14. WholeIn(Q, as, d, TRUE)
  <2>1. \A i \in 1 .. Len(Q) : WholeAt(Q, as, d, TRUE, i)
        BY <1>6, <1>8, <1>9
  <2>2. d <= Len(as) /\ Len(Q) # 0 /\ Q[Len(Q)][1] = Len(as)
        BY <1>3, <1>7, <1>12
  <2> QED BY <1>11, <1>13, <2>1, <2>2 DEF WholeIn
<1> QED BY <1>14 DEF Q, U, as, Concat

\* Q is what R has after its first off units.
Behind(Q, R, off) ==
    Len(R) = off + Len(Q) /\ \A i \in 1 .. Len(Q) : off + i \in 1 .. Len(R) /\ Q[i] = R[off + i]

\* The message in front is delivered.
LEMMA WholeDrop ==
    ASSUME NEW R \in Seq(Pairs), NEW ls \in Seq(Nat), NEW d \in Nat, NEW open \in BOOLEAN,
           WholeIn(R, ls, d, open), Len(R) > 0,
           NEW Q \in Seq(Pairs), NEW off \in Nat, IsSize(off, ls, d + 1),
           Behind(Q, R, off)
    PROVE  WholeIn(Q, ls, d + 1, open)
<1>0. Len(R) = off + Len(Q) /\ Len(Q) \in Nat /\ Len(R) \in Nat
      BY DEF Behind
<1>1. /\ d + 1 \in 1 .. Len(ls)
      /\ \A k \in 1 .. off : R[k] = <<d + 1, k>>
      /\ off < Len(R) => R[off + 1] = <<d + 2, 1>>
  <2>1. \A k \in 1 .. off : k <= Len(R)
        BY <1>0
  <2>2. PICK size \in Nat :
             /\ d + 1 \in 1 .. Len(ls) /\ IsSize(size, ls, d + 1) /\ HeaderLen <= Len(R)
             /\ \A k \in 1 .. size : k <= Len(R) => R[k] = <<d + 1, k>>
             /\ open => size <= Len(R)
             /\ size < Len(R) => R[size + 1] = <<d + 2, 1>>
        BY WholeHead
  <2>3. size = off
        BY <2>2 DEF IsSize
  <2> QED BY <2>1, <2>2, <2>3
<1>2. off >= 1 /\ HeaderLen \in Nat /\ HeaderLen >= 1
  <2>1. ls[d + 1] \in Nat
        BY <1>1
  <2> QED BY <2>1, TransferAssumption DEF IsSize
<1>5. ASSUME NEW i \in 1 .. Len(Q) PROVE WholeAt(Q, ls, d + 1, open, i)
  <2>1. Q[i] = R[off + i] /\ off + i \in 1 .. Len(R)
        BY DEF Behind
  <2>2. PICK m \in d + 1 .. Len(ls), t \in Nat, size \in Nat :
          /\ IsSize(size, ls, m)
          /\ off + i \in t + 1 .. t + size /\ R[off + i] = <<m, (off + i) - t>>
          /\ \A k \in 1 .. size : t + k <= Len(R) => R[t + k] = <<m, k>>
          /\ t + HeaderLen <= Len(R)
          /\ open => t + size <= Len(R)
          /\ t + size < Len(R) => R[t + size + 1] = <<m + 1, 1>>
        BY <2>1 DEF WholeIn, WholeAt
  <2>3. m # d + 1
    <3>a. 1 \in 1 .. Len(R) /\ 1 \in 1 .. off
          BY <1>0, <1>2
    <3>b. R[1] = <<d + 1, 1>>
          BY <1>1, <3>a
    <3>1. 1 \in 1 .. Len(R) /\ R[1][1] = d + 1 /\ R[1][2] = 1
          BY <3>a, <3>b
    <3>2. ASSUME m = d + 1 PROVE FALSE
      <4>1. R[off + i][1] = R[1][1] /\ R[off + i][2] = (off + i) - t
            BY <2>2, <3>1, <3>2
      <4>2. (off + i) + R[1][2] = 1 + R[off + i][2]
            BY <2>1, <3>1, <4>1 DEF WholeIn
      <4>3. t = 0
            BY <3>1, <4>1, <4>2
      <4>4. size = off
            BY <2>2, <3>2 DEF IsSize
      <4>5. off + i \in t + 1 .. t + size
            BY <2>2
      <4> QED BY <4>3, <4>4, <4>5
    <3> QED BY <3>2
  <2>4. t >= off
    <3>1. ASSUME t < off PROVE FALSE
      <4>1. t + 1 \in 1 .. off
            BY <3>1
      <4>2. R[t + 1] = <<d + 1, t + 1>>
            BY <1>1, <4>1
      <4>a. off + i \in t + 1 .. t + size
            BY <2>2
      <4>3. 1 \in 1 .. size /\ t + 1 <= off + i
            BY <4>a
      <4>b. off + i <= Len(R)
            BY <2>1
      <4>4. R[t + 1] = <<m, 1>>
        <5>1. t + 1 <= Len(R)
              BY <1>0, <4>3, <4>b
        <5> QED BY <2>2, <4>3, <5>1
      <4> QED BY <2>3, <4>2, <4>4
    <3> QED BY <3>1
  <2>5. PICK s \in Nat : t = off + s
        BY <2>4, Difference
  <2>6. i \in s + 1 .. s + size /\ Q[i] = <<m, i - s>>
    <3>1. off + i \in t + 1 .. t + size
          BY <2>2
    <3>4. R[off + i] = <<m, (off + i) - t>>
          BY <2>2
    <3>2. i \in Nat
          OBVIOUS
    <3>3. (off + i) - t = i - s /\ i \in s + 1 .. s + size
          BY <2>5, <3>1, <3>2
    <3> QED BY <2>1, <3>3, <3>4
  <2>9. ASSUME NEW k \in 1 .. size, s + k <= Len(Q) PROVE Q[s + k] = <<m, k>>
    <3>1. k \in Nat /\ s + k \in 1 .. Len(Q)
          BY <1>0, <2>9
    <3>2. off + (s + k) = t + k /\ t + k <= Len(R)
      <4>1. off + (s + k) = t + k
            BY <2>5, <3>1
      <4>2. t + k <= Len(R) <=> s + k <= Len(Q)
            BY <1>0, <2>5, <3>1
      <4> QED BY <2>9, <4>1, <4>2
    <3>3. Q[s + k] = R[t + k]
          BY <3>1, <3>2 DEF Behind
    <3> QED BY <2>2, <3>2, <3>3
  <2>10. ASSUME s + size < Len(Q) PROVE Q[s + size + 1] = <<m + 1, 1>>
    <3>1. s + size + 1 \in 1 .. Len(Q)
          BY <1>0, <2>10
    <3>2. off + (s + size + 1) = t + size + 1 /\ t + size < Len(R)
      <4>1. off + (s + size + 1) = t + size + 1
            BY <2>5
      <4>2. t + size < Len(R) <=> s + size < Len(Q)
            BY <1>0, <2>5
      <4> QED BY <2>10, <4>1, <4>2
    <3>4. Q[s + size + 1] = R[off + (s + size + 1)]
          BY <3>1 DEF Behind
    <3>3. Q[s + size + 1] = R[t + size + 1]
          BY <3>2, <3>4
    <3> QED BY <2>2, <3>2, <3>3
  <2>11. s + HeaderLen <= Len(Q) /\ (open => s + size <= Len(Q))
    <3>1. t + HeaderLen <= Len(R) /\ (open => t + size <= Len(R))
          BY <2>2
    <3>2. t + HeaderLen <= Len(R) <=> s + HeaderLen <= Len(Q)
          BY <1>0, <1>2, <2>5
    <3>3. t + size <= Len(R) <=> s + size <= Len(Q)
          BY <1>0, <2>5
    <3> QED BY <3>1, <3>2, <3>3
  <2>12. m \in (d + 1) + 1 .. Len(ls)
         BY <2>3
  <2> QED BY <2>2, <2>6, <2>9, <2>10, <2>11, <2>12 DEF WholeAt
<1>6. ASSUME NEW i \in 1 .. Len(Q), NEW j \in 1 .. Len(Q), Q[i][1] = Q[j][1]
      PROVE  i + Q[j][2] = j + Q[i][2]
  <2>1. off + i \in 1 .. Len(R) /\ off + j \in 1 .. Len(R) /\ Q[i] = R[off + i] /\ Q[j] = R[off + j]
        BY DEF Behind
  <2>2. (off + i) + R[off + j][2] = (off + j) + R[off + i][2]
    <3>1. R[off + i][1] = R[off + j][1]
          BY <1>6, <2>1
    <3> QED BY <2>1, <3>1 DEF WholeIn
  <2>3. Q[i] \in Pairs /\ Q[j] \in Pairs
        OBVIOUS
  <2>4. Q[i][2] \in Nat /\ Q[j][2] \in Nat
        BY <2>3 DEF Pairs
  <2>5. (off + i) + Q[j][2] = (off + j) + Q[i][2]
        BY <2>1, <2>2
  <2>6. \A x \in Nat, y \in Nat : (off + i) + y = (off + j) + x => i + y = j + x
        OBVIOUS
  <2> QED BY <2>4, <2>5, <2>6
<1>7. Len(Q) > 0 => Q[1] = <<(d + 1) + 1, 1>>
  <2>1. (d + 1) + 1 = d + 2
        OBVIOUS
  <2>2. ASSUME Len(Q) > 0 PROVE Q[1] = R[off + 1] /\ off < Len(R)
    <3>1. 1 \in 1 .. Len(Q) /\ off < Len(R)
          BY <1>0, <2>2
    <3> QED BY <3>1 DEF Behind
  <2> QED BY <1>1, <2>1, <2>2
<1>8. open => IF Len(Q) = 0 THEN d + 1 = Len(ls) ELSE Q[Len(Q)][1] = Len(ls)
  <2>1. open => R[Len(R)][1] = Len(ls)
        BY DEF WholeIn
  <2>2. CASE Len(Q) = 0
    <3>2. Len(R) = off /\ off \in 1 .. off
          BY <1>0, <1>2, <2>2
    <3>3. R[Len(R)] = <<d + 1, off>>
          BY <1>1, <3>2
    <3>1. R[Len(R)][1] = d + 1 /\ Len(R) # 0
          BY <1>2, <3>2, <3>3
    <3> QED BY <2>1, <2>2, <3>1
  <2>3. CASE Len(Q) # 0
    <3>1. Len(Q) \in 1 .. Len(Q)
          BY <2>3
    <3>2. Q[Len(Q)] = R[Len(R)]
          BY <1>0, <3>1 DEF Behind
    <3> QED BY <2>1, <2>3, <3>2
  <2> QED BY <2>2, <2>3
<1>9. d + 1 <= Len(ls)
      BY <1>1
<1> QED BY <1>5, <1>6, <1>7, <1>8, <1>9 DEF WholeIn

LEMMA WholeNone ==
    ASSUME NEW ls \in Seq(Nat), NEW d \in Nat, d <= Len(ls)
    PROVE  WholeIn(<<>>, ls, d, FALSE) /\ (d = Len(ls) => WholeIn(<<>>, ls, d, TRUE))
BY DEF WholeIn

-----------------------------------------------------------------------------
(* What is handed out.                                                     *)

LEMMA BehindFront ==
    ASSUME NEW u \in Seq(Pairs), NEW v \in Seq(Pairs)
    PROVE  Concat(u, v) \in Seq(Pairs) /\ Behind(v, Concat(u, v), Len(u))
<1>1. /\ Concat(u, v) \in Seq(Pairs) /\ Len(Concat(u, v)) = Len(u) + Len(v)
      /\ \A i \in Len(u) + 1 .. Len(u) + Len(v) : Concat(u, v)[i] = v[i - Len(u)]
      BY Concatenated DEF Concat
<1>2. ASSUME NEW i \in 1 .. Len(v) PROVE Len(u) + i \in 1 .. Len(Concat(u, v)) /\ v[i] = Concat(u, v)[Len(u) + i]
  <2>1. Len(u) + i \in Len(u) + 1 .. Len(u) + Len(v) /\ (Len(u) + i) - Len(u) = i
        OBVIOUS
  <2>2. Concat(u, v)[Len(u) + i] = v[(Len(u) + i) - Len(u)]
        BY <1>1, <2>1
  <2> QED BY <1>1, <2>1, <2>2
<1> QED BY <1>1, <1>2 DEF Behind

\* The units of a call are put in front of those it leaves.
LEMMA TakenApart ==
    ASSUME NEW g \in Seq(Pairs), NEW s \in Seq(Pairs), NEW z \in Seq(Pairs), NEW n \in 0 .. Len(s)
    PROVE  /\ SubSeq(s, 1, n) \in Seq(Pairs) /\ SubSeq(s, n + 1, Len(s)) \in Seq(Pairs)
           /\ Concat(g, Concat(s, z)) = Concat(Concat(g, SubSeq(s, 1, n)), Concat(SubSeq(s, n + 1, Len(s)), z))
<1> DEFINE f == SubSeq(s, 1, n)
           b == SubSeq(s, n + 1, Len(s))
<1>1. f \in Seq(Pairs) /\ b \in Seq(Pairs) /\ Concat(f, b) = s
      BY Front, Back, FrontAndBack DEF Concat
<1> HIDE DEF f, b
<1>2. Concat(s, z) = Concat(f, Concat(b, z)) /\ Concat(b, z) \in Seq(Pairs)
      BY <1>1, Associative, Joined
<1>3. Concat(g, Concat(f, Concat(b, z))) = Concat(Concat(g, f), Concat(b, z))
      BY <1>1, <1>2, Associative
<1> QED BY <1>1, <1>2, <1>3 DEF f, b

LEMMA OrderedFront ==
    ASSUME NEW u \in Seq(Pairs), NEW v \in Seq(Pairs), NEW n \in Nat, NEW ms \in Seq(Nat),
           OrderedIn(Concat(u, v), n, ms)
    PROVE  OrderedIn(u, n, ms)
<1> DEFINE R == Concat(u, v)
<1>1. R \in Seq(Pairs) /\ Len(R) = Len(u) + Len(v) /\ \A i \in 1 .. Len(u) : R[i] = u[i]
      BY Concatenated DEF Concat
<1>2. OrderedIn(R, n, ms)
      OBVIOUS
<1> HIDE DEF R
<1>3. \A i \in 1 .. Len(u) : u[i] = R[0 + i]
      BY <1>1
<1>4. 0 + Len(u) <= Len(R)
      BY <1>1
<1> QED BY <1>1, <1>2, <1>3, <1>4, OrderedPart

LEMMA MessageOfSome ==
    ASSUME NEW u \in Seq(Pairs)
    PROVE  MessageOf(u) \in Nat /\ (MessageOf(u) # 0 => u[1] = <<MessageOf(u), 1>>)
<1>1. CASE u # <<>> /\ u = Units(u[1][1], Len(u) - HeaderLen)
  <2>1. 1 \in 1 .. Len(u) /\ u[1] \in Pairs
        BY <1>1
  <2>2. u[1][1] \in Nat
        BY <2>1 DEF Pairs
  <2>3. HeaderLen \in Nat
        BY TransferAssumption
  <2>4. 1 \in 1 .. HeaderLen + (Len(u) - HeaderLen)
        BY <2>1, <2>3
  <2>5. Units(u[1][1], Len(u) - HeaderLen)[1] = <<u[1][1], 1>>
        BY <2>4 DEF Units
  <2>6. MessageOf(u) = u[1][1]
        BY <1>1 DEF MessageOf
  <2> QED BY <1>1, <2>2, <2>5, <2>6
<1>2. CASE ~(u # <<>> /\ u = Units(u[1][1], Len(u) - HeaderLen))
      BY <1>2 DEF MessageOf
<1> QED BY <1>1, <1>2

LEMMA OrderedDelivery ==
    ASSUME NEW u \in Seq(Pairs), NEW v \in Seq(Pairs), Len(u) >= 1, NEW n \in Nat, NEW ms \in Seq(Nat),
           OrderedIn(Concat(u, v), n, ms)
    PROVE  /\ OrderedIn(v, n, ms)
           /\ OrderedIn(v, n, Append(ms, MessageOf(u)))
           /\ MessageOf(u) \in 0 .. n
           /\ MessageOf(u) > 0 => \A i \in 1 .. Len(ms) : ms[i] < MessageOf(u)
<1> DEFINE R == Concat(u, v)
           m == MessageOf(u)
<1>1. /\ R \in Seq(Pairs) /\ Len(R) = Len(u) + Len(v) /\ \A i \in 1 .. Len(u) : R[i] = u[i]
      BY Concatenated DEF Concat
<1>2. Behind(v, R, Len(u))
      BY BehindFront
<1>3. OrderedIn(R, n, ms)
      OBVIOUS
<1> HIDE DEF R
<1>4. Len(u) + Len(v) <= Len(R) /\ \A i \in 1 .. Len(v) : v[i] = R[Len(u) + i]
      BY <1>1, <1>2 DEF Behind
<1>5. R[1] = u[1] /\ 1 \in 1 .. Len(R)
      BY <1>1
<1>6. m \in Nat /\ (m # 0 => R[1] = <<m, 1>>)
      BY <1>5, MessageOfSome
<1> HIDE DEF m
<1>7. Len(u) >= 1 /\ Len(u) <= Len(R) /\ Len(u) \in Nat
      BY <1>1
<1>8. OrderedIn(v, n, ms) /\ OrderedIn(v, n, Append(ms, m))
      BY <1>1, <1>3, <1>4, <1>6, <1>7, OrderedPart
<1>9. m > 0 => m <= n /\ \A i \in 1 .. Len(ms) : ms[i] < m
  <2>1. ASSUME m > 0 PROVE R[1][1] = m /\ R[1][2] = 1
    <3>1. m # 0
          BY <1>6, <2>1
    <3> QED BY <1>6, <3>1
  <2>2. R[1][1] \in 1 .. n /\ (R[1][2] = 1 => \A j \in DOMAIN ms : ms[j] < R[1][1])
        BY <1>3, <1>5 DEF OrderedIn
  <2>3. DOMAIN ms = 1 .. Len(ms)
        OBVIOUS
  <2> QED BY <2>1, <2>2, <2>3
<1>10. m \in 0 .. n
       BY <1>6, <1>9
<1> QED BY <1>8, <1>9, <1>10 DEF m

LEMMA WholeDelivery ==
    ASSUME NEW u \in Seq(Pairs), NEW v \in Seq(Pairs), Len(u) >= 1,
           NEW ls \in Seq(Nat), NEW d \in Nat, NEW open \in BOOLEAN,
           WholeIn(Concat(u, v), ls, d, open), IsSize(Len(u), ls, d + 1)
    PROVE  WholeIn(v, ls, d + 1, open) /\ MessageOf(u) = d + 1 /\ d < Len(ls)
<1> DEFINE R == Concat(u, v)
<1>1. /\ R \in Seq(Pairs) /\ Len(R) = Len(u) + Len(v) /\ \A i \in 1 .. Len(u) : R[i] = u[i]
      BY Concatenated DEF Concat
<1>2. Behind(v, R, Len(u))
      BY BehindFront
<1>3. WholeIn(R, ls, d, open)
      OBVIOUS
<1> HIDE DEF R
<1>4. Len(R) > 0 /\ Len(u) \in Nat /\ Len(u) <= Len(R)
      BY <1>1
<1>5. WholeIn(v, ls, d + 1, open)
      BY <1>1, <1>2, <1>3, <1>4, WholeDrop
<1>6. PICK size \in Nat :
        /\ d + 1 \in 1 .. Len(ls) /\ IsSize(size, ls, d + 1) /\ HeaderLen <= Len(R)
        /\ \A k \in 1 .. size : k <= Len(R) => R[k] = <<d + 1, k>>
        /\ open => size <= Len(R)
        /\ size < Len(R) => R[size + 1] = <<d + 2, 1>>
      BY <1>1, <1>3, <1>4, WholeHead
<1>7. size = Len(u)
      BY <1>6 DEF IsSize
<1>8. d + 1 \in 1 .. Len(ls)
      BY <1>6
<1>9. ASSUME NEW k \in 1 .. Len(u) PROVE u[k] = <<d + 1, k>>
  <2>1. k <= Len(R)
        BY <1>4
  <2> QED BY <1>1, <1>6, <1>7, <2>1
<1>10. MessageOf(u) = d + 1
  <2> DEFINE b == Len(u) - HeaderLen
             U == Units(d + 1, b)
  <2>1. b \in Nat /\ HeaderLen \in Nat /\ HeaderLen + b = Len(u)
    <3>1. ls[d + 1] \in Nat
          BY <1>8
    <3>2. Len(u) = HeaderLen + ls[d + 1] /\ HeaderLen \in Nat
          BY TransferAssumption DEF IsSize
    <3> QED BY <3>1, <3>2
  <2>2. U \in Seq(Pairs) /\ Len(U) = HeaderLen + b /\ \A k \in 1 .. HeaderLen + b : U[k] = <<d + 1, k>>
    <3>1. d + 1 \in Nat
          OBVIOUS
    <3> HIDE DEF b
    <3> QED BY <2>1, <3>1, UnitsAre
  <2> HIDE DEF U
  <2>3. u = U
    <3>1. Len(u) = Len(U)
          BY <2>1, <2>2
    <3>2. \A i \in 1 .. Len(u) : u[i] = U[i]
          BY <1>9, <2>1, <2>2
    <3> QED BY <2>2, <3>1, <3>2, SameSeq
  <2>4. u[1][1] = d + 1 /\ u # <<>>
    <3>1. 1 \in 1 .. Len(u)
          OBVIOUS
    <3>2. u[1] = <<d + 1, 1>>
          BY <1>9, <3>1
    <3> QED BY <3>1, <3>2
  <2> QED BY <2>3, <2>4 DEF MessageOf, U
<1>11. d < Len(ls)
       BY <1>8
<1> QED BY <1>5, <1>10, <1>11

-----------------------------------------------------------------------------
(* The units in flight, and the invariant about them.                      *)

Held == IF recvpc = "body" THEN got ELSE <<>>
InFlight == Concat(Held, Concat(stream, sending))

Receiving ==
    /\ (recvpc = "header" => got = <<>>) /\ (recvpc = "body" => got # <<>>)
    /\ hungup => sending = <<>>
    /\ \A i \in 1 .. Len(sending) : sending[i][2] > HeaderLen

Unspoilt ==
    /\ WholeIn(InFlight, lens, Len(delivered), ~hungup)
    /\ recvpc = "body" => IsSize(Len(got) + remain, lens, Len(delivered) + 1)

TransferInv ==
    /\ TransferTypeOK /\ NodataIsClean /\ Receiving
    /\ OrderedIn(InFlight, Len(lens), delivered)
    /\ ~spoilt => Unspoilt

LEMMA FlightTypes ==
    ASSUME TransferTypeOK
    PROVE  /\ Held \in Seq(Pairs) /\ stream \in Seq(Pairs) /\ sending \in Seq(Pairs) /\ got \in Seq(Pairs)
           /\ Concat(stream, sending) \in Seq(Pairs) /\ InFlight \in Seq(Pairs)
           /\ lens \in Seq(Nat) /\ delivered \in Seq(Nat) /\ Len(lens) \in Nat /\ Len(delivered) \in Nat
           /\ (recvpc # "body" => Held = <<>> /\ InFlight = Concat(stream, sending))
<1>1. stream \in Seq(Pairs) /\ sending \in Seq(Pairs) /\ got \in Seq(Pairs) /\ delivered \in Seq(Nat)
      BY DEF TransferTypeOK, Pairs
<1>2. lens \in Seq(Nat)
  <2>1. BodyLens \subseteq Nat
        BY TransferAssumption
  <2>2. lens \in Seq(BodyLens)
        BY DEF TransferTypeOK
  <2> QED BY <2>1, <2>2, SeqOfMore
<1>3. Held \in Seq(Pairs)
      BY <1>1 DEF Held
<1>4. Concat(stream, sending) \in Seq(Pairs) /\ InFlight \in Seq(Pairs)
  <2>1. Concat(stream, sending) \in Seq(Pairs)
        BY <1>1, Joined
  <2> QED BY <1>3, <2>1, Joined DEF InFlight
<1>5. ASSUME recvpc # "body" PROVE Held = <<>> /\ InFlight = Concat(stream, sending)
  <2>1. Held = <<>>
        BY <1>5 DEF Held
  <2> QED BY <1>4, <2>1, Joined DEF InFlight
<1>6. Len(lens) \in Nat /\ Len(delivered) \in Nat
      BY <1>1, <1>2
<1> QED BY <1>1, <1>2, <1>3, <1>4, <1>5, <1>6

\* A step that moves units inside what is in flight, or none.
LEMMA FlightKept ==
    ASSUME TransferInv, TransferTypeOK', NodataIsClean', Receiving', InFlight' = InFlight,
           UNCHANGED <<lens, hungup, delivered>>, ~spoilt' => ~spoilt,
           ~spoilt' /\ recvpc' = "body" => IsSize((Len(got) + remain)', lens', (Len(delivered) + 1)')
    PROVE  TransferInv'
<1>1. OrderedIn(InFlight', Len(lens'), delivered')
      BY DEF TransferInv
<1>2. ASSUME ~spoilt' PROVE Unspoilt'
  <2>1. WholeIn(InFlight', lens', Len(delivered'), ~hungup')
        BY <1>2 DEF TransferInv, Unspoilt
  <2> QED BY <1>2, <2>1 DEF Unspoilt
<1> QED BY <1>1, <1>2 DEF TransferInv

\* A step after which nothing is known but the order.
LEMMA FlightSpoilt ==
    ASSUME TransferTypeOK', NodataIsClean', Receiving', spoilt',
           OrderedIn(InFlight', Len(lens'), delivered')
    PROVE  TransferInv'
BY DEF TransferInv

LEMMA SendHeaderKeeps == TransferInv /\ SendHeader => TransferInv'
<1> SUFFICES ASSUME TransferInv, SendHeader PROVE TransferInv'
    OBVIOUS
<1>1. PICK b \in BodyLens :
        /\ lens' = Append(lens, b)
        /\ sending' = SubSeq(Units(Len(lens) + 1, b), HeaderLen + 1, HeaderLen + b)
      BY DEF SendHeader
<1> DEFINE N == Len(lens) + 1
           U == Units(N, b)
           F == SubSeq(U, 1, HeaderLen)
<1>2. /\ sending = <<>> /\ ~hungup /\ stream' = stream \o SubSeq(Units(N, 0), 1, HeaderLen)
      /\ UNCHANGED <<hungup, recvpc, cnt, got, remain, status, delivered, spoilt>>
      BY DEF SendHeader, recvVars
<1>3. HeaderLen \in Nat /\ HeaderLen >= 1 /\ b \in Nat /\ N \in Nat
      BY TransferAssumption, FlightTypes DEF TransferInv
<1>4. U \in Seq(Pairs) /\ Len(U) = HeaderLen + b /\ \A k \in 1 .. HeaderLen + b : U[k] = <<N, k>>
      BY <1>3, UnitsAre
<1> HIDE DEF N, U
<1>5. SubSeq(Units(N, 0), 1, HeaderLen) = F
  <2> DEFINE V == Units(N, 0)
             G == SubSeq(V, 1, HeaderLen)
  <2>1. 0 \in Nat /\ HeaderLen + 0 = HeaderLen
        BY <1>3
  <2>2. V \in Seq(Pairs) /\ Len(V) = HeaderLen /\ \A k \in 1 .. HeaderLen : V[k] = <<N, k>>
        BY <1>3, <2>1, UnitsAre
  <2> HIDE DEF V
  <2>3. HeaderLen \in 0 .. Len(V) /\ HeaderLen \in 0 .. Len(U)
        BY <1>3, <1>4, <2>2
  <2>4. G \in Seq(Pairs) /\ Len(G) = HeaderLen /\ \A k \in 1 .. HeaderLen : G[k] = V[k]
        BY <2>2, <2>3, Front
  <2>5. F \in Seq(Pairs) /\ Len(F) = HeaderLen /\ \A k \in 1 .. HeaderLen : F[k] = U[k]
        BY <1>4, <2>3, Front
  <2> HIDE DEF G, F
  <2>6. \A k \in 1 .. HeaderLen : U[k] = <<N, k>>
        BY <1>3, <1>4
  <2>7. G = F
        BY <2>2, <2>4, <2>5, <2>6, SameSeq
  <2> QED BY <2>7 DEF G, V
<1>6. sending' = SubSeq(U, HeaderLen + 1, Len(U))
      BY <1>1, <1>4 DEF U, N
<1>7. HeaderLen \in 0 .. Len(U)
      BY <1>3, <1>4
<1>8. /\ InFlight' = Concat(InFlight, U)
      /\ sending' \in Seq(Pairs) /\ stream' \in Seq(Pairs) /\ \A i \in 1 .. Len(sending') : sending'[i][2] > HeaderLen
  <2>1. /\ Held' = Held /\ Held \in Seq(Pairs) /\ stream \in Seq(Pairs) /\ Concat(stream, sending) = stream
        BY <1>2, FlightTypes, Joined DEF TransferInv, Held
  <2>2. Concat(F, sending') = U
        BY <1>4, <1>6, <1>7, FrontAndBack DEF Concat
  <2>3. F \in Seq(Pairs) /\ sending' \in Seq(Pairs)
        BY <1>4, <1>6, <1>7, Front, Back
  <2>4. stream' = Concat(stream, F)
        BY <1>2, <1>5 DEF Concat
  <2>5. \A i \in 1 .. Len(sending') : sending'[i][2] > HeaderLen
    <3>1. Len(sending') = Len(U) - HeaderLen /\ \A i \in 1 .. Len(U) - HeaderLen : sending'[i] = U[HeaderLen + i]
          BY <1>4, <1>6, <1>7, Back
    <3>2. ASSUME NEW i \in 1 .. b PROVE U[HeaderLen + i] = <<N, HeaderLen + i>> /\ HeaderLen + i > HeaderLen
      <4>1. HeaderLen + i \in 1 .. HeaderLen + b /\ HeaderLen + i > HeaderLen
            BY <1>3
      <4> QED BY <1>4, <4>1
    <3>3. Len(U) - HeaderLen = b
          BY <1>3, <1>4
    <3> QED BY <3>1, <3>2, <3>3
  <2> HIDE DEF F
  <2>6. Concat(stream', sending') = Concat(stream, U)
        BY <2>1, <2>2, <2>3, <2>4, Associative
  <2>7. Concat(Held, Concat(stream, U)) = Concat(Concat(Held, stream), U)
        BY <1>4, <2>1, Associative
  <2>8. stream' \in Seq(Pairs)
        BY <2>1, <2>3, <2>4, Joined
  <2> QED BY <2>1, <2>3, <2>5, <2>6, <2>7, <2>8 DEF InFlight
<1>9. lens \in Seq(Nat) /\ InFlight \in Seq(Pairs) /\ delivered \in Seq(Nat) /\ Len(delivered) \in Nat
      BY FlightTypes DEF TransferInv
<1>10. Len(lens') = N /\ \A m \in 1 .. Len(lens) : lens'[m] = lens[m]
       BY <1>1, <1>9 DEF N
<1>11. OrderedIn(InFlight', Len(lens'), delivered')
  <2>1. OrderedIn(Concat(InFlight, U), N, delivered)
        BY <1>3, <1>9, OrderedAppend DEF TransferInv, U, N
  <2> QED BY <1>2, <1>8, <1>10, <2>1
<1>12. ASSUME ~spoilt' PROVE Unspoilt'
  <2>1. Unspoilt /\ ~hungup
        BY <1>2, <1>12 DEF TransferInv
  <2>2. WholeIn(InFlight, lens, Len(delivered), TRUE)
        BY <2>1 DEF Unspoilt
  <2>3. WholeIn(Concat(InFlight, U), Append(lens, b), Len(delivered), TRUE)
        BY <1>3, <1>9, <2>2, WholeAppend DEF U, N
  <2>4. WholeIn(InFlight', lens', Len(delivered'), ~hungup')
        BY <1>1, <1>2, <1>8, <2>3
  <2>5. ASSUME recvpc = "body" PROVE IsSize(Len(got) + remain, lens', Len(delivered) + 1)
    <3>1. IsSize(Len(got) + remain, lens, Len(delivered) + 1)
          BY <2>1, <2>5 DEF Unspoilt
    <3>2. Len(InFlight) > 0
      <4>1. Held = got /\ got # <<>> /\ got \in Seq(Pairs) /\ Concat(stream, sending) \in Seq(Pairs)
            BY <2>5, FlightTypes DEF TransferInv, Receiving, Held
      <4>2. Len(Concat(got, Concat(stream, sending))) = Len(got) + Len(Concat(stream, sending))
            BY <4>1, Concatenated DEF Concat
      <4> QED BY <4>1, <4>2 DEF InFlight
    <3>3. Len(delivered) + 1 \in 1 .. Len(lens)
          BY <1>9, <2>2, <3>2, WholeHead
    <3> QED BY <1>10, <3>1, <3>3 DEF IsSize
  <2> QED BY <1>2, <2>4, <2>5 DEF Unspoilt
<1>13. Receiving' /\ NodataIsClean'
       BY <1>2, <1>8 DEF TransferInv, Receiving, NodataIsClean
<1>14. TransferTypeOK'
  <2>1. lens' \in Seq(BodyLens)
        BY <1>1 DEF TransferInv, TransferTypeOK
  <2> QED BY <1>2, <1>8, <2>1 DEF TransferInv, TransferTypeOK, Pairs
<1> QED BY <1>11, <1>12, <1>13, <1>14 DEF TransferInv

\* The other steps of the sender.
LEMMA SendPieceKeeps == TransferInv /\ SendPiece => TransferInv'
<1> SUFFICES ASSUME TransferInv, SendPiece PROVE TransferInv'
    OBVIOUS
<1>1. PICK n \in 1 .. Len(sending) :
        /\ stream' = stream \o SubSeq(sending, 1, n)
        /\ sending' = SubSeq(sending, n + 1, Len(sending))
      BY DEF SendPiece
<1>2. ~hungup /\ UNCHANGED <<lens, hungup, recvpc, cnt, got, remain, status, delivered, spoilt>>
      BY DEF SendPiece, recvVars
<1>3. stream \in Seq(Pairs) /\ sending \in Seq(Pairs) /\ n \in 0 .. Len(sending) /\ n \in Nat
      BY FlightTypes DEF TransferInv
<1> DEFINE F == SubSeq(sending, 1, n)
<1>4. F \in Seq(Pairs) /\ sending' \in Seq(Pairs) /\ Concat(F, sending') = sending
      BY <1>1, <1>3, Front, Back, FrontAndBack DEF Concat
<1>5. stream' = Concat(stream, F)
      BY <1>1 DEF Concat
<1> HIDE DEF F
<1>6. Concat(stream', sending') = Concat(stream, sending) /\ stream' \in Seq(Pairs)
      BY <1>3, <1>4, <1>5, Associative, Joined
<1>7. InFlight' = InFlight
      BY <1>2, <1>6 DEF InFlight, Held
<1>8. \A i \in 1 .. Len(sending') : sending'[i][2] > HeaderLen
  <2>1. \A i \in 1 .. Len(sending) : sending[i][2] > HeaderLen
        BY DEF TransferInv, Receiving
  <2>2. Len(sending') = Len(sending) - n /\ \A i \in 1 .. Len(sending) - n : sending'[i] = sending[n + i]
        BY <1>1, <1>3, Back
  <2>3. \A i \in 1 .. Len(sending) - n : n + i \in 1 .. Len(sending)
        BY <1>3
  <2> QED BY <2>1, <2>2, <2>3
<1>9. TransferTypeOK' /\ NodataIsClean' /\ Receiving'
      BY <1>2, <1>4, <1>6, <1>8 DEF TransferInv, TransferTypeOK, NodataIsClean, Receiving, Pairs
<1>10. ~spoilt' /\ recvpc' = "body" => IsSize((Len(got) + remain)', lens', (Len(delivered) + 1)')
       BY <1>2 DEF TransferInv, Unspoilt
<1> QED BY <1>2, <1>7, <1>9, <1>10, FlightKept

\* The sender stops in front of what is in its hand.
LEMMA HandDropped ==
    ASSUME TransferInv, sending' = <<>>, UNCHANGED <<stream, recvpc, got>>
    PROVE  /\ InFlight = Concat(InFlight', sending) /\ InFlight' \in Seq(Pairs) /\ sending \in Seq(Pairs)
           /\ OrderedIn(InFlight', Len(lens), delivered)
<1>1. /\ Held \in Seq(Pairs) /\ stream \in Seq(Pairs) /\ sending \in Seq(Pairs)
      /\ Len(lens) \in Nat /\ delivered \in Seq(Nat)
      BY FlightTypes DEF TransferInv
<1>2. InFlight' = Concat(Held, stream)
  <2>1. Held' = Held
        BY DEF Held
  <2>2. Concat(stream', sending') = stream
        BY <1>1, Joined
  <2> QED BY <2>1, <2>2 DEF InFlight
<1>3. InFlight = Concat(InFlight', sending)
      BY <1>1, <1>2, Associative DEF InFlight
<1>4. InFlight' \in Seq(Pairs)
      BY <1>1, <1>2, Joined
<1>5. OrderedIn(Concat(InFlight', sending), Len(lens), delivered)
      BY <1>3 DEF TransferInv
<1>6. OrderedIn(InFlight', Len(lens), delivered)
      BY <1>1, <1>4, <1>5, OrderedFront
<1> QED BY <1>1, <1>3, <1>4, <1>6

LEMMA SendShortKeeps == TransferInv /\ SendShort => TransferInv'
<1> SUFFICES ASSUME TransferInv, SendShort PROVE TransferInv'
    OBVIOUS
<1>1. /\ sending' = <<>> /\ spoilt' = TRUE
      /\ UNCHANGED <<stream, lens, hungup, recvpc, cnt, got, remain, status, delivered>>
      BY DEF SendShort, recvVars
<1>2. OrderedIn(InFlight', Len(lens'), delivered')
      BY <1>1, HandDropped
<1>3. TransferTypeOK' /\ NodataIsClean' /\ Receiving'
      BY <1>1 DEF TransferInv, TransferTypeOK, NodataIsClean, Receiving
<1> QED BY <1>1, <1>2, <1>3, FlightSpoilt

LEMMA SenderClosesKeeps == TransferInv /\ SenderCloses => TransferInv'
<1> SUFFICES ASSUME TransferInv, SenderCloses PROVE TransferInv'
    OBVIOUS
<1>1. /\ ~hungup /\ hungup' = TRUE /\ sending' = <<>>
      /\ UNCHANGED <<stream, lens, recvpc, cnt, got, remain, status, delivered, spoilt>>
      BY DEF SenderCloses, recvVars
<1>2. /\ InFlight = Concat(InFlight', sending) /\ InFlight' \in Seq(Pairs) /\ sending \in Seq(Pairs)
      /\ OrderedIn(InFlight', Len(lens), delivered)
      BY <1>1, HandDropped
<1>3. TransferTypeOK' /\ NodataIsClean' /\ Receiving'
      BY <1>1 DEF TransferInv, TransferTypeOK, NodataIsClean, Receiving
<1>4. ASSUME ~spoilt' PROVE Unspoilt'
  <2> DEFINE Q == InFlight'
             R == InFlight
  <2>1. Unspoilt
        BY <1>1, <1>4 DEF TransferInv
  <2>2. WholeIn(R, lens, Len(delivered), TRUE) /\ R \in Seq(Pairs) /\ lens \in Seq(Nat) /\ Len(delivered) \in Nat
        BY <1>1, <2>1, FlightTypes DEF Unspoilt, TransferInv
  <2>3. R = Q \o sending /\ Q \in Seq(Pairs)
        BY <1>2 DEF Concat
  <2>4. \A i \in 1 .. Len(sending) : sending[i][2] > HeaderLen
        BY DEF TransferInv, Receiving
  <2> HIDE DEF Q, R
  <2>5. /\ Len(R) = Len(Q) + Len(sending)
        /\ \A i \in 1 .. Len(Q) : R[i] = Q[i]
        /\ \A i \in Len(Q) + 1 .. Len(Q) + Len(sending) : R[i] = sending[i - Len(Q)]
        BY <1>2, <2>3, Concatenated
  <2>6. ASSUME NEW i \in Len(Q) + 1 .. Len(R) PROVE R[i][2] > HeaderLen
    <3>1. i - Len(Q) \in 1 .. Len(sending) /\ R[i] = sending[i - Len(Q)]
          BY <1>2, <2>3, <2>5
    <3> QED BY <2>4, <3>1
  <2>7. Len(Q) <= Len(R)
        BY <1>2, <2>3, <2>5
  <2>8. WholeIn(Q, lens, Len(delivered), FALSE)
        BY <2>2, <2>3, <2>5, <2>6, <2>7, WholeCut
  <2>9. WholeIn(InFlight', lens', Len(delivered'), ~hungup')
        BY <1>1, <2>8 DEF Q
  <2> QED BY <1>1, <2>1, <2>9 DEF Unspoilt
<1> QED BY <1>1, <1>2, <1>3, <1>4 DEF TransferInv

-----------------------------------------------------------------------------
(* The steps of scandif_recv.                                              *)

LEMMA RecvCallKeeps == TransferInv /\ RecvCall => TransferInv'
<1> SUFFICES ASSUME TransferInv, RecvCall PROVE TransferInv'
    OBVIOUS
<1>1. /\ recvpc = "idle" /\ recvpc' = "header" /\ cnt' = 0 /\ got' = <<>> /\ remain' = 0
      /\ UNCHANGED <<stream, lens, sending, hungup, status, delivered, spoilt>>
      BY DEF RecvCall
<1>2. InFlight' = InFlight
      BY <1>1 DEF InFlight, Held
<1>3. 0 \in 0 .. RecvRetry - 1
      BY TransferAssumption
<1>4. TransferTypeOK' /\ NodataIsClean' /\ Receiving'
      BY <1>1, <1>3 DEF TransferInv, TransferTypeOK, NodataIsClean, Receiving
<1> QED BY <1>1, <1>2, <1>4, FlightKept

LEMMA CountsOn == ASSUME TransferTypeOK PROVE 0 \in 0 .. RecvRetry - 1 /\ (cnt + 1 # RecvRetry => cnt + 1 \in 0 .. RecvRetry - 1)
BY TransferAssumption DEF TransferTypeOK

LEMMA RecvHeaderRetryKeeps == TransferInv /\ RecvHeaderRetry => TransferInv'
<1> SUFFICES ASSUME TransferInv, RecvHeaderRetry PROVE TransferInv'
    OBVIOUS
<1>1. recvpc = "header" /\ UNCHANGED <<stream, lens, sending, hungup, got, delivered, spoilt>>
      BY DEF RecvHeaderRetry
<1>2. got = <<>> /\ remain = 0
      BY <1>1 DEF TransferInv, Receiving, TransferTypeOK
<1>3. CASE cnt + 1 = RecvRetry
  <2>1. recvpc' = "idle" /\ status' = "NODATA" /\ cnt' = 0 /\ remain' = 0
        BY <1>3 DEF RecvHeaderRetry, Return
  <2>2. InFlight' = InFlight
        BY <1>1, <2>1 DEF InFlight, Held
  <2>3. 0 \in 0 .. RecvRetry - 1
        BY CountsOn DEF TransferInv
  <2>4. TransferTypeOK' /\ NodataIsClean' /\ Receiving'
        BY <1>1, <1>2, <2>1, <2>3 DEF TransferInv, TransferTypeOK, NodataIsClean, Receiving, Status
  <2> QED BY <1>1, <2>1, <2>2, <2>4, FlightKept
<1>4. CASE cnt + 1 # RecvRetry
  <2>1. cnt' = cnt + 1 /\ UNCHANGED <<recvpc, status, remain>>
        BY <1>4 DEF RecvHeaderRetry
  <2>2. InFlight' = InFlight
        BY <1>1, <2>1 DEF InFlight, Held
  <2>3. cnt' \in 0 .. RecvRetry - 1
        BY <1>4, <2>1, CountsOn DEF TransferInv
  <2>4. TransferTypeOK' /\ NodataIsClean' /\ Receiving'
        BY <1>1, <2>1, <2>3 DEF TransferInv, TransferTypeOK, NodataIsClean, Receiving
  <2> QED BY <1>1, <2>1, <2>2, <2>4, FlightKept
<1> QED BY <1>3, <1>4

\* A call gives up inside a body: what it has read is lost.
LEMMA GivenUp ==
    ASSUME TransferInv, recvpc = "body", UNCHANGED <<stream, lens, sending, hungup, got, delivered>>,
           recvpc' = "idle", status' = "IOERROR", cnt' = 0, remain' = 0, spoilt' = TRUE
    PROVE  TransferInv'
<1>1. /\ Held = got /\ Len(got) >= 1 /\ got \in Seq(Pairs) /\ Concat(stream, sending) \in Seq(Pairs)
      /\ Len(lens) \in Nat /\ delivered \in Seq(Nat) /\ stream \in Seq(Pairs) /\ sending \in Seq(Pairs)
      BY FlightTypes DEF TransferInv, Receiving, Held
<1>2. OrderedIn(Concat(got, Concat(stream, sending)), Len(lens), delivered)
      BY <1>1 DEF TransferInv, InFlight
<1>3. InFlight' = Concat(stream, sending)
  <2>1. Held' = <<>>
        BY DEF Held
  <2> QED BY <1>1, <2>1, Joined DEF InFlight
<1>4. OrderedIn(InFlight', Len(lens'), delivered')
      BY <1>1, <1>2, <1>3, OrderedDelivery
<1>5. 0 \in 0 .. RecvRetry - 1
      BY CountsOn DEF TransferInv
<1>6. TransferTypeOK' /\ NodataIsClean' /\ Receiving'
      BY <1>5 DEF TransferInv, TransferTypeOK, NodataIsClean, Receiving, Status
<1> QED BY <1>4, <1>6, FlightSpoilt

LEMMA RecvBodyRetryKeeps == TransferInv /\ RecvBodyRetry => TransferInv'
<1> SUFFICES ASSUME TransferInv, RecvBodyRetry PROVE TransferInv'
    OBVIOUS
<1>1. recvpc = "body" /\ UNCHANGED <<stream, lens, sending, hungup, got, delivered>>
      BY DEF RecvBodyRetry
<1>3. CASE cnt + 1 = RecvRetry
  <2>1. recvpc' = "idle" /\ status' = "IOERROR" /\ cnt' = 0 /\ remain' = 0 /\ spoilt' = TRUE
        BY <1>3 DEF RecvBodyRetry, Return
  <2> QED BY <1>1, <2>1, GivenUp
<1>4. CASE cnt + 1 # RecvRetry
  <2>1. cnt' = cnt + 1 /\ UNCHANGED <<recvpc, status, remain, spoilt>>
        BY <1>4 DEF RecvBodyRetry
  <2>2. InFlight' = InFlight
        BY <1>1, <2>1 DEF InFlight, Held
  <2>3. cnt' \in 0 .. RecvRetry - 1
        BY <1>4, <2>1, CountsOn DEF TransferInv
  <2>4. TransferTypeOK' /\ NodataIsClean' /\ Receiving'
        BY <1>1, <2>1, <2>3 DEF TransferInv, TransferTypeOK, NodataIsClean, Receiving
  <2>5. ~spoilt' => IsSize((Len(got) + remain)', lens', (Len(delivered) + 1)')
        BY <1>1, <2>1 DEF TransferInv, Unspoilt
  <2> QED BY <1>1, <2>1, <2>2, <2>4, <2>5, FlightKept
<1> QED BY <1>3, <1>4

LEMMA RecvFailKeeps == TransferInv /\ RecvFail => TransferInv'
<1> SUFFICES ASSUME TransferInv, RecvFail PROVE TransferInv'
    OBVIOUS
<1>1. /\ recvpc \in {"header", "body"} /\ UNCHANGED <<stream, lens, sending, hungup, got, delivered>>
      /\ recvpc' = "idle" /\ status' = "IOERROR" /\ cnt' = 0 /\ remain' = 0
      /\ spoilt' = (spoilt \/ recvpc = "body")
      BY DEF RecvFail, Return
<1>2. CASE recvpc = "body"
      BY <1>1, <1>2, GivenUp
<1>3. CASE recvpc = "header"
  <2>1. InFlight' = InFlight
        BY <1>1, <1>3 DEF InFlight, Held
  <2>2. 0 \in 0 .. RecvRetry - 1 /\ spoilt' = spoilt
        BY <1>1, <1>3, CountsOn DEF TransferInv, TransferTypeOK
  <2>3. TransferTypeOK' /\ NodataIsClean' /\ Receiving'
        BY <1>1, <1>3, <2>2 DEF TransferInv, TransferTypeOK, NodataIsClean, Receiving, Status
  <2> QED BY <1>1, <2>1, <2>2, <2>3, FlightKept
<1> QED BY <1>1, <1>2, <1>3

LEMMA RecvClosedKeeps == TransferInv /\ RecvClosed => TransferInv'
<1> SUFFICES ASSUME TransferInv, RecvClosed PROVE TransferInv'
    OBVIOUS
<1>1. /\ recvpc \in {"header", "body"} /\ hungup /\ stream = <<>>
      /\ UNCHANGED <<stream, lens, sending, hungup, got, delivered, spoilt>>
      /\ recvpc' = "idle" /\ status' = "DISCONNECTED" /\ cnt' = 0 /\ remain' = 0
      BY DEF RecvClosed, Return
<1>2. sending = <<>>
      BY <1>1 DEF TransferInv, Receiving
<1>3. 0 \in 0 .. RecvRetry - 1
      BY CountsOn DEF TransferInv
<1>4. TransferTypeOK' /\ NodataIsClean' /\ Receiving'
      BY <1>1, <1>3 DEF TransferInv, TransferTypeOK, NodataIsClean, Receiving, Status
<1>5. /\ stream \in Seq(Pairs) /\ Concat(stream, sending) = <<>> /\ Held \in Seq(Pairs) /\ delivered \in Seq(Nat)
      /\ Len(lens) \in Nat /\ lens \in Seq(Nat) /\ Len(delivered) \in Nat
      BY <1>1, <1>2, FlightTypes, Joined DEF TransferInv
<1>6. InFlight' = <<>>
  <2>1. Held' = <<>> /\ Concat(stream', sending') = <<>>
        BY <1>1, <1>5 DEF Held
  <2> QED BY <1>1, <1>5, <2>1, Joined DEF InFlight
<1>7. OrderedIn(InFlight', Len(lens'), delivered')
  <2>1. \A j \in DOMAIN delivered : delivered[j] <= Len(lens)
        BY DEF TransferInv, OrderedIn
  <2>2. Len(<<>>) = 0
        OBVIOUS
  <2> QED BY <1>1, <1>6, <2>1, <2>2 DEF OrderedIn
<1>8. ASSUME ~spoilt' PROVE Unspoilt'
  <2>1. Len(delivered) <= Len(lens)
        BY <1>1, <1>8 DEF TransferInv, Unspoilt, WholeIn
  <2>2. WholeIn(<<>>, lens, Len(delivered), FALSE)
        BY <1>5, <2>1, WholeNone
  <2> QED BY <1>1, <1>6, <2>2 DEF Unspoilt
<1> QED BY <1>4, <1>7, <1>8 DEF TransferInv

\* What recv() hands out: the units of the call, then those that are left.
LEMMA Takes ==
    ASSUME TransferInv, NEW n \in 1 .. Len(stream),
           stream' = SubSeq(stream, n + 1, Len(stream)), UNCHANGED sending
    PROVE  LET us == Concat(Held, SubSeq(stream, 1, n))
           IN /\ us \in Seq(Pairs) /\ Len(us) = Len(Held) + n /\ Len(us) >= 1
              /\ stream' \in Seq(Pairs) /\ Concat(stream', sending') \in Seq(Pairs)
              /\ InFlight = Concat(us, Concat(stream', sending'))
<1> DEFINE F == SubSeq(stream, 1, n)
<1>1. Held \in Seq(Pairs) /\ stream \in Seq(Pairs) /\ sending \in Seq(Pairs) /\ n \in 0 .. Len(stream) /\ n >= 1
      BY FlightTypes DEF TransferInv
<1>2. F \in Seq(Pairs) /\ stream' \in Seq(Pairs) /\ Len(F) = n
      BY <1>1, Front, Back
<1>3. InFlight = Concat(Concat(Held, F), Concat(stream', sending'))
      BY <1>1, TakenApart DEF InFlight
<1> HIDE DEF F
<1>4. Concat(Held, F) \in Seq(Pairs) /\ Concat(stream', sending') \in Seq(Pairs)
      BY <1>1, <1>2, Joined
<1>5. Len(Concat(Held, F)) = Len(Held) + n
      BY <1>1, <1>2, Concatenated DEF Concat
<1>6. Len(Held) + n >= 1
      BY <1>1
<1> QED BY <1>2, <1>3, <1>4, <1>5, <1>6 DEF F

\* A call that returns SUCCESS hands out a message.
HandsOut(us) ==
    /\ us \in Seq(Pairs) /\ Len(us) >= 1
    /\ stream' \in Seq(Pairs) /\ Concat(stream', sending') \in Seq(Pairs)
    /\ InFlight = Concat(us, Concat(stream', sending'))
    /\ ~spoilt => IsSize(Len(us), lens, Len(delivered) + 1)
    /\ recvpc' = "idle" /\ status' = "SUCCESS" /\ cnt' = 0 /\ remain' = 0
    /\ delivered' = Append(delivered, MessageOf(us)) /\ got' \in Seq(Pairs)
    /\ UNCHANGED <<lens, sending, hungup, spoilt>>

LEMMA HandsOutKeeps ==
    ASSUME TransferInv, NEW us, HandsOut(us)
    PROVE  TransferInv' /\ (Messages!Take \/ Messages!TakeJunk)
<1> DEFINE v == Concat(stream', sending')
           m == MessageOf(us)
<1>1. /\ us \in Seq(Pairs) /\ Len(us) >= 1 /\ v \in Seq(Pairs) /\ InFlight = Concat(us, v)
      /\ lens \in Seq(Nat) /\ delivered \in Seq(Nat) /\ Len(lens) \in Nat /\ Len(delivered) \in Nat
      /\ hungup \in BOOLEAN /\ spoilt \in BOOLEAN
      BY FlightTypes DEF HandsOut, TransferInv, TransferTypeOK
<1>2. /\ recvpc' = "idle" /\ delivered' = Append(delivered, m) /\ UNCHANGED <<lens, hungup, spoilt>>
      BY DEF HandsOut
<1>3. InFlight' = v
  <2>1. Held' = <<>>
        BY <1>2 DEF Held
  <2> QED BY <1>1, <2>1, Joined DEF InFlight
<1> HIDE DEF v
<1>4. OrderedIn(Concat(us, v), Len(lens), delivered)
      BY <1>1 DEF TransferInv
<1>5. /\ OrderedIn(v, Len(lens), Append(delivered, m)) /\ m \in 0 .. Len(lens)
      /\ m > 0 => \A i \in 1 .. Len(delivered) : delivered[i] < m
      BY <1>1, <1>4, OrderedDelivery
<1>6. ASSUME ~spoilt
      PROVE  WholeIn(v, lens, Len(delivered) + 1, ~hungup) /\ m = Len(delivered) + 1 /\ Len(delivered) < Len(lens)
  <2>1. WholeIn(Concat(us, v), lens, Len(delivered), ~hungup)
        BY <1>1, <1>6 DEF TransferInv, Unspoilt
  <2>2. IsSize(Len(us), lens, Len(delivered) + 1)
        BY <1>6 DEF HandsOut
  <2>3. (~hungup) \in BOOLEAN
        OBVIOUS
  <2> QED BY <1>1, <2>1, <2>2, <2>3, WholeDelivery
<1> HIDE DEF m
<1>7. Len(delivered') = Len(delivered) + 1 /\ delivered' \in Seq(Nat)
  <2>1. m \in Nat
        BY <1>1, <1>5
  <2> QED BY <1>1, <1>2, <2>1
<1>8. ASSUME ~spoilt' PROVE Unspoilt'
  <2>1. WholeIn(v, lens, Len(delivered) + 1, ~hungup)
        BY <1>2, <1>6, <1>8
  <2>2. WholeIn(InFlight', lens', Len(delivered'), ~hungup')
        BY <1>2, <1>3, <1>7, <2>1
  <2> QED BY <1>2, <2>2 DEF Unspoilt
<1>9. TransferTypeOK' /\ NodataIsClean' /\ Receiving'
  <2>1. 0 \in 0 .. RecvRetry - 1
        BY CountsOn DEF TransferInv
  <2> QED BY <1>7, <2>1 DEF HandsOut, TransferInv, TransferTypeOK, NodataIsClean, Receiving, Status, Pairs
<1>10. OrderedIn(InFlight', Len(lens'), delivered')
       BY <1>2, <1>3, <1>5
<1>11. TransferInv'
       BY <1>8, <1>9, <1>10 DEF TransferInv
<1>12. CASE ~spoilt
  <2>1. Messages!Take
        BY <1>2, <1>6, <1>12 DEF Messages!Take
  <2> QED BY <1>11, <2>1
<1>13. CASE spoilt
  <2>1. Messages!TakeJunk
        BY <1>2, <1>5, <1>13 DEF Messages!TakeJunk
  <2> QED BY <1>11, <2>1
<1> QED BY <1>12, <1>13

LEMMA HeaderFirst ==
    ASSUME NEW s \in Seq(Pairs), NEW z \in Seq(Pairs), Len(s) >= 1, \A i \in 1 .. Len(z) : z[i][2] > HeaderLen,
           NEW ls \in Seq(Nat), NEW d \in Nat, NEW open \in BOOLEAN, WholeIn(Concat(s, z), ls, d, open)
    PROVE  /\ d + 1 \in 1 .. Len(ls) /\ HeaderLen <= Len(s)
           /\ SubSeq(s, 1, HeaderLen) = Units(d + 1, 0)
<1> DEFINE R == Concat(s, z)
<1>1. /\ R \in Seq(Pairs) /\ Len(R) = Len(s) + Len(z) /\ \A i \in 1 .. Len(s) : R[i] = s[i]
      /\ \A i \in Len(s) + 1 .. Len(s) + Len(z) : R[i] = z[i - Len(s)]
      BY Concatenated DEF Concat
<1>2. WholeIn(R, ls, d, open)
      OBVIOUS
<1> HIDE DEF R
<1>3. Len(R) > 0
      BY <1>1
<1>4. PICK size \in Nat :
        /\ d + 1 \in 1 .. Len(ls) /\ IsSize(size, ls, d + 1) /\ HeaderLen <= Len(R)
        /\ \A k \in 1 .. size : k <= Len(R) => R[k] = <<d + 1, k>>
        /\ open => size <= Len(R)
        /\ size < Len(R) => R[size + 1] = <<d + 2, 1>>
      BY <1>1, <1>2, <1>3, WholeHead
<1>5. HeaderLen \in Nat /\ HeaderLen >= 1 /\ HeaderLen <= size
  <2>1. d + 1 \in 1 .. Len(ls)
        BY <1>4
  <2>2. ls[d + 1] \in Nat
        BY <2>1
  <2>3. HeaderLen \in Nat /\ HeaderLen >= 1
        BY TransferAssumption
  <2>4. size = HeaderLen + ls[d + 1]
        BY <1>4 DEF IsSize
  <2> QED BY <2>2, <2>3, <2>4
<1>6. ASSUME NEW k \in 1 .. HeaderLen PROVE R[k] = <<d + 1, k>> /\ R[k][2] = k
  <2>1. k \in 1 .. size /\ k <= Len(R)
    <3>1. HeaderLen <= Len(R)
          BY <1>4
    <3> QED BY <1>1, <1>5, <3>1
  <2> QED BY <1>4, <2>1
<1>7. HeaderLen <= Len(s)
  <2>1. ASSUME HeaderLen > Len(s) PROVE FALSE
    <3>1. HeaderLen \in Len(s) + 1 .. Len(s) + Len(z)
      <4>1. HeaderLen <= Len(R)
            BY <1>4
      <4> QED BY <1>1, <1>5, <2>1, <4>1
    <3>2. HeaderLen - Len(s) \in 1 .. Len(z) /\ R[HeaderLen] = z[HeaderLen - Len(s)]
          BY <1>1, <1>5, <3>1
    <3>3. R[HeaderLen][2] > HeaderLen
          BY <3>2
    <3>4. HeaderLen \in 1 .. HeaderLen
          BY <1>5
    <3>5. R[HeaderLen][2] = HeaderLen
          BY <1>6, <3>4
    <3> QED BY <1>5, <3>3, <3>5
  <2> QED BY <1>5, <2>1
<1>8. SubSeq(s, 1, HeaderLen) = Units(d + 1, 0)
  <2> DEFINE F == SubSeq(s, 1, HeaderLen)
             U == Units(d + 1, 0)
  <2>1. F \in Seq(Pairs) /\ Len(F) = HeaderLen /\ \A i \in 1 .. HeaderLen : F[i] = s[i]
    <3>1. HeaderLen \in 0 .. Len(s)
          BY <1>5, <1>7
    <3> QED BY <3>1, Front
  <2>2. d + 1 \in Nat /\ 0 \in Nat /\ HeaderLen + 0 = HeaderLen
        BY <1>5
  <2>3. U \in Seq(Pairs) /\ Len(U) = HeaderLen /\ \A k \in 1 .. HeaderLen : U[k] = <<d + 1, k>>
        BY <2>2, UnitsAre
  <2> HIDE DEF F, U
  <2>4. \A k \in 1 .. HeaderLen : s[k] = <<d + 1, k>>
    <3>1. \A k \in 1 .. HeaderLen : k \in 1 .. Len(s)
          BY <1>5, <1>7
    <3> QED BY <1>1, <1>6, <3>1
  <2>5. F = U
        BY <2>1, <2>3, <2>4, SameSeq
  <2> QED BY <2>5 DEF F, U
<1> QED BY <1>4, <1>7, <1>8

LEMMA RecvHeaderKeeps ==
    TransferInv /\ RecvHeader
      => TransferInv' /\ (Messages!Take \/ Messages!TakeJunk \/ UNCHANGED <<lens, delivered, spoilt>>)
<1> SUFFICES ASSUME TransferInv, RecvHeader
             PROVE  TransferInv' /\ (Messages!Take \/ Messages!TakeJunk \/ UNCHANGED <<lens, delivered, spoilt>>)
    OBVIOUS
<1> DEFINE n == IF Len(stream) < HeaderLen THEN Len(stream) ELSE HeaderLen
           us == SubSeq(stream, 1, n)
<1>1. /\ recvpc = "header" /\ stream # <<>>
      /\ stream' = SubSeq(stream, n + 1, Len(stream)) /\ got' = us
      /\ UNCHANGED <<lens, sending, hungup, spoilt>>
      BY DEF RecvHeader
<1>2. PICK len \in LengthIn(us) :
        IF len > 0
        THEN /\ recvpc' = "body" /\ cnt' = 0 /\ remain' = len
             /\ UNCHANGED <<status, delivered>>
        ELSE /\ Return("SUCCESS")
             /\ delivered' = Append(delivered, MessageOf(us))
      BY DEF RecvHeader
<1>3. /\ stream \in Seq(Pairs) /\ sending \in Seq(Pairs) /\ Held = <<>> /\ InFlight = Concat(stream, sending)
      /\ lens \in Seq(Nat) /\ Len(lens) \in Nat /\ Len(delivered) \in Nat
      BY <1>1, FlightTypes DEF TransferInv
<1>4. n \in 1 .. Len(stream) /\ HeaderLen \in Nat /\ HeaderLen >= 1
      BY <1>1, <1>3, TransferAssumption
<1> HIDE DEF n
<1>5. us \in Seq(Pairs) /\ Len(us) = n
      BY <1>3, <1>4, Front
<1>6. Concat(Held, us) = us
      BY <1>3, <1>5, Joined
<1>7. /\ Len(us) >= 1 /\ stream' \in Seq(Pairs) /\ Concat(stream', sending') \in Seq(Pairs)
      /\ InFlight = Concat(us, Concat(stream', sending'))
      BY <1>1, <1>4, <1>6, Takes
<1>8. ASSUME ~spoilt PROVE IsSize(Len(us) + len, lens, Len(delivered) + 1) /\ Len(us) = HeaderLen
  <2> DEFINE d == Len(delivered)
  <2>1. WholeIn(Concat(stream, sending), lens, d, ~hungup)
        BY <1>3, <1>8 DEF TransferInv, Unspoilt
  <2>2. (~hungup) \in BOOLEAN /\ Len(stream) >= 1 /\ \A i \in 1 .. Len(sending) : sending[i][2] > HeaderLen
        BY <1>1, <1>3 DEF TransferInv, Receiving
  <2>3. /\ d + 1 \in 1 .. Len(lens) /\ HeaderLen <= Len(stream)
        /\ SubSeq(stream, 1, HeaderLen) = Units(d + 1, 0)
        BY <1>3, <2>1, <2>2, HeaderFirst
  <2>4. n = HeaderLen
        BY <1>3, <1>4, <2>3 DEF n
  <2>5. us = Units(d + 1, 0) /\ Len(us) = HeaderLen
        BY <1>5, <2>3, <2>4
  <2>6. us[1][1] = d + 1
    <3>1. d + 1 \in Nat /\ 0 \in Nat /\ 1 \in 1 .. HeaderLen + 0
          BY <1>3, <1>4
    <3>2. Units(d + 1, 0)[1] = <<d + 1, 1>>
          BY <3>1, UnitsAre
    <3> HIDE DEF us
    <3>3. us[1] = <<d + 1, 1>>
          BY <2>5, <3>2
    <3> QED BY <3>3
  <2>7. len = lens[d + 1]
        BY <2>5, <2>6 DEF LengthIn
  <2> QED BY <2>5, <2>7 DEF IsSize
<1>9. len \in Nat
  <2>1. CASE Len(us) = HeaderLen /\ us = Units(us[1][1], 0)
    <3>1. len = lens[us[1][1]]
          BY <2>1 DEF LengthIn
    <3>2. us[1][1] \in 1 .. Len(lens)
      <4> DEFINE v == Concat(stream', sending')
      <4>1. InFlight = us \o v /\ v \in Seq(Pairs)
            BY <1>7 DEF Concat
      <4> HIDE DEF us, v
      <4>2. 1 \in 1 .. Len(InFlight) /\ InFlight[1] = us[1]
            BY <1>5, <1>7, <4>1
      <4> QED BY <4>2 DEF TransferInv, OrderedIn
    <3>3. \A k \in 1 .. Len(lens) : lens[k] \in Nat
          BY <1>3
    <3> HIDE DEF us
    <3> QED BY <3>1, <3>2, <3>3
  <2>2. CASE ~(Len(us) = HeaderLen /\ us = Units(us[1][1], 0))
    <3>1. len \in BodyLens
          BY <2>2 DEF LengthIn
    <3> QED BY <3>1, TransferAssumption
  <2> QED BY <2>1, <2>2
<1> HIDE DEF us
<1>10. CASE len > 0
  <2>1. recvpc' = "body" /\ cnt' = 0 /\ remain' = len /\ UNCHANGED <<status, delivered>>
        BY <1>2, <1>10
  <2>2. InFlight' = InFlight
    <3>1. Held' = us
          BY <1>1, <2>1 DEF Held
    <3> QED BY <1>7, <3>1 DEF InFlight
  <2>3. 0 \in 0 .. RecvRetry - 1
        BY CountsOn DEF TransferInv
  <2>4. us # <<>>
        BY <1>7
  <2>5. TransferTypeOK' /\ NodataIsClean' /\ Receiving'
        BY <1>1, <1>5, <1>7, <1>9, <1>10, <2>1, <2>3, <2>4
        DEF TransferInv, TransferTypeOK, NodataIsClean, Receiving, Pairs
  <2>6. ~spoilt' => IsSize((Len(got) + remain)', lens', (Len(delivered) + 1)')
        BY <1>1, <1>8, <2>1
  <2>7. TransferInv'
        BY <1>1, <2>1, <2>2, <2>5, <2>6, FlightKept
  <2> QED BY <1>1, <2>1, <2>7
<1>11. CASE ~(len > 0)
  <2>1. /\ recvpc' = "idle" /\ status' = "SUCCESS" /\ cnt' = 0 /\ remain' = 0
        /\ delivered' = Append(delivered, MessageOf(us))
        BY <1>2, <1>11 DEF Return
  <2>2. len = 0 /\ Len(us) \in Nat
        BY <1>9, <1>11, <1>5, <1>3, <1>4
  <2>3. ~spoilt => IsSize(Len(us), lens, Len(delivered) + 1)
    <3>1. Len(us) + len = Len(us)
          BY <2>2
    <3> QED BY <1>8, <3>1
  <2>4. HandsOut(us)
        BY <1>1, <1>5, <1>7, <2>1, <2>3 DEF HandsOut
  <2> QED BY <2>4, HandsOutKeeps
<1> QED BY <1>10, <1>11

LEMMA RecvBodyKeeps ==
    TransferInv /\ RecvBody
      => /\ TransferInv'
         /\ \/ Messages!Take \/ Messages!TakeJunk
            \/ UNCHANGED <<lens, delivered>> /\ (spoilt' = spoilt \/ spoilt' = TRUE)
<1> SUFFICES ASSUME TransferInv, RecvBody
             PROVE  /\ TransferInv'
                    /\ \/ Messages!Take \/ Messages!TakeJunk
                       \/ UNCHANGED <<lens, delivered>> /\ (spoilt' = spoilt \/ spoilt' = TRUE)
    OBVIOUS
<1> DEFINE n == IF Len(stream) < remain THEN Len(stream) ELSE remain
           us == Concat(got, SubSeq(stream, 1, n))
<1>1. /\ recvpc = "body" /\ stream # <<>>
      /\ stream' = SubSeq(stream, n + 1, Len(stream)) /\ got' = us
      /\ UNCHANGED <<lens, sending, hungup>>
      BY DEF RecvBody, Concat
<1>2. IF remain = n
      THEN /\ Return("SUCCESS")
           /\ delivered' = Append(delivered, MessageOf(us))
           /\ UNCHANGED spoilt
      ELSE IF cnt + 1 = RecvRetry
      THEN Return("IOERROR") /\ spoilt' = TRUE /\ UNCHANGED delivered
      ELSE /\ remain' = remain - n /\ cnt' = cnt + 1
           /\ UNCHANGED <<recvpc, status, delivered, spoilt>>
      BY DEF RecvBody, Concat
<1>3. /\ stream \in Seq(Pairs) /\ sending \in Seq(Pairs) /\ got \in Seq(Pairs) /\ Held = got
      /\ lens \in Seq(Nat) /\ Len(lens) \in Nat /\ delivered \in Seq(Nat) /\ Len(delivered) \in Nat
      BY <1>1, FlightTypes DEF TransferInv, Held
<1>4. n \in 1 .. Len(stream) /\ n <= remain /\ remain \in Nat /\ n \in Nat
      BY <1>1, <1>3 DEF TransferInv, TransferTypeOK
<1> HIDE DEF n
<1>5. /\ us \in Seq(Pairs) /\ Len(us) = Len(got) + n /\ Len(us) >= 1
      /\ stream' \in Seq(Pairs) /\ Concat(stream', sending') \in Seq(Pairs)
      /\ InFlight = Concat(us, Concat(stream', sending'))
      BY <1>1, <1>3, <1>4, Takes
<1>6. ~spoilt => IsSize(Len(got) + remain, lens, Len(delivered) + 1)
      BY <1>1 DEF TransferInv, Unspoilt
<1> HIDE DEF us
<1>7. CASE remain = n
  <2>1. /\ recvpc' = "idle" /\ status' = "SUCCESS" /\ cnt' = 0 /\ remain' = 0
        /\ delivered' = Append(delivered, MessageOf(us)) /\ UNCHANGED spoilt
        BY <1>2, <1>7 DEF Return
  <2>2. ~spoilt => IsSize(Len(us), lens, Len(delivered) + 1)
        BY <1>5, <1>6, <1>7
  <2>3. HandsOut(us)
        BY <1>1, <1>5, <2>1, <2>2 DEF HandsOut
  <2> QED BY <2>3, HandsOutKeeps
<1>8. CASE remain # n /\ cnt + 1 = RecvRetry
  <2>1. recvpc' = "idle" /\ status' = "IOERROR" /\ cnt' = 0 /\ remain' = 0 /\ spoilt' = TRUE /\ UNCHANGED delivered
        BY <1>2, <1>8 DEF Return
  <2>2. OrderedIn(Concat(us, Concat(stream', sending')), Len(lens), delivered)
        BY <1>5 DEF TransferInv
  <2>3. OrderedIn(Concat(stream', sending'), Len(lens), delivered)
        BY <1>3, <1>5, <2>2, OrderedDelivery
  <2>4. InFlight' = Concat(stream', sending')
    <3>1. Held' = <<>>
          BY <2>1 DEF Held
    <3> QED BY <1>5, <3>1, Joined DEF InFlight
  <2>5. OrderedIn(InFlight', Len(lens'), delivered')
        BY <1>1, <2>1, <2>3, <2>4
  <2>6. 0 \in 0 .. RecvRetry - 1
        BY CountsOn DEF TransferInv
  <2>7. TransferTypeOK' /\ NodataIsClean' /\ Receiving'
        BY <1>1, <1>5, <2>1, <2>6 DEF TransferInv, TransferTypeOK, NodataIsClean, Receiving, Status, Pairs
  <2>8. TransferInv'
        BY <2>1, <2>5, <2>7, FlightSpoilt
  <2> QED BY <1>1, <2>1, <2>8
<1>9. CASE remain # n /\ cnt + 1 # RecvRetry
  <2>1. remain' = remain - n /\ cnt' = cnt + 1 /\ UNCHANGED <<recvpc, status, delivered, spoilt>>
        BY <1>2, <1>9
  <2>2. InFlight' = InFlight
    <3>1. Held' = us
          BY <1>1, <2>1 DEF Held
    <3> QED BY <1>5, <3>1 DEF InFlight
  <2>3. cnt' \in 0 .. RecvRetry - 1
        BY <1>9, <2>1, CountsOn DEF TransferInv
  <2>4. us # <<>> /\ remain' \in Nat /\ remain' > 0
        BY <1>4, <1>5, <1>9, <2>1
  <2>5. TransferTypeOK' /\ NodataIsClean' /\ Receiving'
        BY <1>1, <1>5, <2>1, <2>3, <2>4
        DEF TransferInv, TransferTypeOK, NodataIsClean, Receiving, Pairs
  <2>6. Len(us) + (remain - n) = Len(got) + remain
        BY <1>3, <1>4, <1>5
  <2>7. ~spoilt' => IsSize((Len(got) + remain)', lens', (Len(delivered) + 1)')
        BY <1>1, <1>6, <2>1, <2>6
  <2>8. TransferInv'
        BY <1>1, <2>1, <2>2, <2>5, <2>7, FlightKept
  <2> QED BY <1>1, <2>1, <2>8
<1> QED BY <1>7, <1>8, <1>9

-----------------------------------------------------------------------------
(* The theorems.                                                           *)

LEMMA TransferInvInit == TransferInit => TransferInv
<1> SUFFICES ASSUME TransferInit PROVE TransferInv
    OBVIOUS
<1>1. /\ stream = <<>> /\ lens = <<>> /\ sending = <<>> /\ hungup = FALSE
      /\ recvpc = "idle" /\ cnt = 0 /\ got = <<>> /\ remain = 0
      /\ status = "SUCCESS" /\ delivered = <<>> /\ spoilt = FALSE
      BY DEF TransferInit
<1>2. TransferTypeOK /\ NodataIsClean /\ Receiving
  <2>1. 0 \in 0 .. RecvRetry - 1
        BY TransferAssumption
  <2>2. lens \in Seq(BodyLens) /\ stream \in Seq(Nat \X Nat) /\ sending \in Seq(Nat \X Nat)
        /\ got \in Seq(Nat \X Nat) /\ delivered \in Seq(Nat)
        BY <1>1
  <2>3. recvpc \in {"idle", "header", "body"} /\ status \in Status
        BY <1>1 DEF Status
  <2>4. remain \in Nat /\ (recvpc = "body" <=> remain > 0)
        BY <1>1
  <2>5. TransferTypeOK
        BY <1>1, <2>1, <2>2, <2>3, <2>4 DEF TransferTypeOK
  <2>6. NodataIsClean
        BY <1>1 DEF NodataIsClean
  <2>7. Receiving
        BY <1>1 DEF Receiving
  <2> QED BY <2>5, <2>6, <2>7
<1>3. InFlight = <<>>
  <2>1. Held = <<>> /\ <<>> \in Seq(Pairs)
        BY <1>1 DEF Held
  <2> QED BY <1>1, <2>1, Joined DEF InFlight
<1>4. <<>> \in Seq(Nat) /\ Len(<<>>) = 0
      OBVIOUS
<1>5. OrderedIn(InFlight, Len(lens), delivered)
      BY <1>1, <1>3 DEF OrderedIn
<1>6. WholeIn(InFlight, lens, Len(delivered), ~hungup)
  <2>1. WholeIn(<<>>, <<>>, 0, TRUE)
    <3>1. 0 \in Nat /\ 0 <= Len(<<>>) /\ 0 = Len(<<>>)
          BY <1>4
    <3> QED BY <1>4, <3>1, WholeNone
  <2> QED BY <1>1, <1>3, <1>4, <2>1
<1>7. Unspoilt
      BY <1>1, <1>6 DEF Unspoilt
<1> QED BY <1>2, <1>5, <1>7 DEF TransferInv

LEMMA TornOrNot ==
    ASSUME TransferInv, UNCHANGED <<lens, delivered>>, spoilt' = spoilt \/ spoilt' = TRUE
    PROVE  [Messages!StreamNext]_(Messages!streamVars)
<1>1. CASE ~spoilt /\ spoilt' = TRUE
  <2>1. Messages!TearOne
        BY <1>1 DEF Messages!TearOne
  <2> QED BY <2>1 DEF Messages!StreamNext
<1>2. CASE spoilt' = spoilt
      BY <1>2 DEF Messages!streamVars
<1>3. spoilt' = spoilt \/ (~spoilt /\ spoilt' = TRUE)
      BY DEF TransferInv, TransferTypeOK
<1> QED BY <1>1, <1>2, <1>3

LEMMA TransferInvStep ==
    TransferInv /\ [TransferNext]_transferVars => TransferInv' /\ [Messages!StreamNext]_(Messages!streamVars)
<1> SUFFICES ASSUME TransferInv, [TransferNext]_transferVars
             PROVE  TransferInv' /\ [Messages!StreamNext]_(Messages!streamVars)
    OBVIOUS
<1>1. CASE SendHeader
  <2>1. Len(lens') = Len(lens) + 1 /\ UNCHANGED <<delivered, spoilt>>
    <3>1. lens \in Seq(Nat)
          BY FlightTypes DEF TransferInv
    <3> QED BY <1>1, <3>1 DEF SendHeader, recvVars
  <2>2. Messages!Put
        BY <2>1 DEF Messages!Put
  <2> QED BY <1>1, <2>2, SendHeaderKeeps DEF Messages!StreamNext
<1>2. CASE SendPiece
  <2>1. UNCHANGED <<lens, delivered, spoilt>>
        BY <1>2 DEF SendPiece, recvVars
  <2> QED BY <1>2, <2>1, SendPieceKeeps DEF Messages!streamVars
<1>3. CASE SendShort
  <2>1. UNCHANGED <<lens, delivered>> /\ spoilt' = TRUE
        BY <1>3 DEF SendShort, recvVars
  <2> QED BY <1>3, <2>1, SendShortKeeps, TornOrNot
<1>4. CASE SenderCloses
  <2>1. UNCHANGED <<lens, delivered, spoilt>>
        BY <1>4 DEF SenderCloses, recvVars
  <2> QED BY <1>4, <2>1, SenderClosesKeeps DEF Messages!streamVars
<1>5. CASE RecvCall
  <2>1. UNCHANGED <<lens, delivered, spoilt>>
        BY <1>5 DEF RecvCall
  <2> QED BY <1>5, <2>1, RecvCallKeeps DEF Messages!streamVars
<1>6. CASE RecvHeaderRetry
  <2>1. UNCHANGED <<lens, delivered, spoilt>>
        BY <1>6 DEF RecvHeaderRetry
  <2> QED BY <1>6, <2>1, RecvHeaderRetryKeeps DEF Messages!streamVars
<1>7. CASE RecvHeader
      BY <1>7, RecvHeaderKeeps DEF Messages!streamVars, Messages!StreamNext
<1>8. CASE RecvBodyRetry
  <2>1. UNCHANGED <<lens, delivered>> /\ (spoilt' = spoilt \/ spoilt' = TRUE)
        BY <1>8 DEF RecvBodyRetry, Return
  <2> QED BY <1>8, <2>1, RecvBodyRetryKeeps, TornOrNot
<1>9. CASE RecvBody
      BY <1>9, RecvBodyKeeps, TornOrNot DEF Messages!StreamNext
<1>10. CASE RecvClosed
  <2>1. UNCHANGED <<lens, delivered, spoilt>>
        BY <1>10 DEF RecvClosed
  <2> QED BY <1>10, <2>1, RecvClosedKeeps DEF Messages!streamVars
<1>11. CASE RecvFail
  <2>1. UNCHANGED <<lens, delivered>> /\ (spoilt' = spoilt \/ spoilt' = TRUE)
        BY <1>11 DEF RecvFail, TransferInv, TransferTypeOK
  <2> QED BY <1>11, <2>1, RecvFailKeeps, TornOrNot
<1>12. CASE UNCHANGED transferVars
  <2>1. UNCHANGED <<stream, lens, sending, hungup, recvpc, cnt, got, remain, status, delivered, spoilt>>
        BY <1>12 DEF transferVars
  <2>2. InFlight' = InFlight
        BY <2>1 DEF InFlight, Held
  <2>3. TransferTypeOK' /\ NodataIsClean' /\ Receiving'
        BY <2>1 DEF TransferInv, TransferTypeOK, NodataIsClean, Receiving
  <2>4. ~spoilt' /\ recvpc' = "body" => IsSize((Len(got) + remain)', lens', (Len(delivered) + 1)')
        BY <2>1 DEF TransferInv, Unspoilt
  <2>5. TransferInv'
        BY <2>1, <2>2, <2>3, <2>4, FlightKept
  <2> QED BY <2>1, <2>5 DEF Messages!streamVars
<1> QED BY <1>1, <1>2, <1>3, <1>4, <1>5, <1>6, <1>7, <1>8, <1>9, <1>10, <1>11, <1>12
        DEF TransferNext, Sender, RecvStep

\* The counters and pieces of the two loops of scandif_recv stay what they are
\* meant to be, and a call that returned NODATA has taken nothing from the stream,
\* so that its caller may repeat it (odc_products.cpp:767).
THEOREM NodataCanBeRepeated == TransferSpec => []TransferSafe
<1>1. TransferInit => TransferInv
      BY TransferInvInit
<1>2. TransferInv /\ [TransferNext]_transferVars => TransferInv'
      BY TransferInvStep
<1>3. TransferInv => TransferSafe
      BY DEF TransferInv, TransferSafe
<1> QED BY <1>1, <1>2, <1>3, PTL DEF TransferSpec

\* What receive_message hands out are the messages that were sent, in order and
\* each once, until one is torn; and none comes twice even then.
THEOREM TransferIsStream == TransferSpec => ImplementsStream
<1>1. TransferInit => TransferInv /\ Messages!StreamInit
  <2>1. TransferInit => Messages!StreamInit
        BY DEF TransferInit, Messages!StreamInit
  <2> QED BY <2>1, TransferInvInit
<1>2. TransferInv /\ [TransferNext]_transferVars => TransferInv' /\ [Messages!StreamNext]_(Messages!streamVars)
      BY TransferInvStep
<1> QED BY <1>1, <1>2, PTL DEF TransferSpec, ImplementsStream, Messages!StreamSpec
=============================================================================
