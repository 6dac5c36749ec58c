------------------------------ MODULE SaneiThread ------------------------------
(***************************************************************************)
(* Tasks of a backend (sanei_thread.c): a thread where the library is      *)
(* built with threads, a process where it forks.  A task is begun with a   *)
(* function, ends with a status or is killed, and is waited for; its       *)
(* status can be asked for.  All the threads share one record td for the   *)
(* function to call and the status, and one static variable status.        *)
(***************************************************************************)
EXTENDS FiniteSets, Integers

CONSTANTS
    Tasks,          \* every one with a function of its own
    MaxAlive,       \* bound: tasks begun and not waited for
    TaskStatuses,   \* what the functions return, "good" among them
    NoTask

ASSUME SaneiThreadAssumption ==
    NoTask \notin Tasks /\ MaxAlive \in Nat \ {0} /\ "good" \in TaskStatuses

VARIABLES
    forked,         \* sanei_thread_is_forked
    tasks,          \* per task: where it is, the function it runs, what it returned
    td,             \* func, the task whose function it is, and status
    lastStatus,     \* the static status of local_thread
    application,    \* the handler of SIGPIPE that the application had: the default, none
                    \* (ignored) or one of its own
    sigpipe,        \* the handler of SIGPIPE
    overlapped,     \* the task begun last was begun while another one was left
    answer          \* of the last waitpid or get_status since a task was begun: call,
                    \* task, its state, status

forkVars == <<forked, tasks, td, lastStatus, application, sigpipe, overlapped, answer>>

NoAnswer == [call |-> "none", task |-> NoTask, state |-> "none", status |-> "good"]

TaskInit ==
    /\ forked \in BOOLEAN
    /\ tasks = [t \in Tasks |-> [state |-> "none", runs |-> NoTask, result |-> "good"]]
    /\ td = [func |-> NoTask, status |-> "good"] /\ lastStatus = "good"
    /\ application \in {"dfl", "ign", "own"} /\ sigpipe = application
    /\ overlapped = FALSE
    /\ answer = NoAnswer

Alive == {t \in Tasks : tasks[t].state \notin {"none", "waited"}}
Going == {t \in Tasks : tasks[t].state \in {"created", "running", "returning"}}

\* Mutation of Ignoring: the handler is left alone.
Ignoring_Never(handler) == handler

\* Mutation of Ignoring: a handler of the application is replaced too.
Ignoring_Always(handler) == IF forked THEN handler ELSE "ign"

\* SIGPIPE is ignored from the first thread on, unless the application has a handler of
\* its own (362).
Ignoring(handler) == IF ~forked /\ handler = "dfl" THEN "ign" ELSE handler

\* restore_sigpipe: the default comes back when a thread has been waited for - also where
\* the application had it ignored.
Restored(handler) == IF ~forked /\ handler = "ign" THEN "dfl" ELSE handler

\* sanei_thread_begin: the thread gets the address of td; a process has its own copy of
\* what it runs.  Creating it may fail.
ThreadBegin(t) ==
    /\ tasks[t].state = "none" /\ Cardinality(Alive) < MaxAlive
    /\ sigpipe' = Ignoring(sigpipe)
    /\ overlapped' = (Alive # {})
    /\ td' = IF forked THEN td ELSE [td EXCEPT !.func = t]
    /\ tasks' \in {tasks, [tasks EXCEPT ![t].state = IF forked THEN "running" ELSE "created",
                                     ![t].runs = IF forked THEN t ELSE NoTask]}
    /\ answer' = NoAnswer
    /\ UNCHANGED <<forked, lastStatus, application>>

\* local_thread calls the function that td holds by now.
LocalThread(t) ==
    /\ tasks[t].state = "created"
    /\ tasks' = [tasks EXCEPT ![t].state = "running", ![t].runs = td.func]
    /\ UNCHANGED <<forked, td, lastStatus, application, sigpipe, overlapped, answer>>

\* The function returns; a thread stores what it returned.
FuncReturns(t, s) ==
    /\ tasks[t].state = "running"
    /\ tasks' = [tasks EXCEPT ![t].state = IF forked THEN "ended" ELSE "returning", ![t].result = s]
    /\ lastStatus' = IF forked THEN lastStatus ELSE s
    /\ UNCHANGED <<forked, td, application, sigpipe, overlapped, answer>>

\* The thread copies the stored status into td and exits with the address of it.
ThreadExits(t) ==
    /\ tasks[t].state = "returning"
    /\ tasks' = [tasks EXCEPT ![t].state = "ended"]
    /\ td' = [td EXCEPT !.status = lastStatus]
    /\ UNCHANGED <<forked, lastStatus, application, sigpipe, overlapped, answer>>

\* sanei_thread_kill (pthread_cancel or SIGTERM), or a signal of sanei_thread_sendsig that
\* ends a process.
ThreadKill(t) ==
    /\ t \in Going
    /\ \E how \in {"killed"} \cup (IF forked THEN {"signalled"} ELSE {}) :
         tasks' = [tasks EXCEPT ![t].state = how]
    /\ UNCHANGED <<forked, td, lastStatus, application, sigpipe, overlapped, answer>>

EvalWpResult_Exited(t) == IF tasks[t].state = "ended" THEN "good" ELSE "io_error"

\* eval_wp_result of a child that waitpid has reaped: SIGTERM was asked for, another
\* signal is an error.
EvalWpResult(t) ==
    IF tasks[t].state = "ended" THEN tasks[t].result
    ELSE IF tasks[t].state = "killed" THEN "good" ELSE "io_error"

\* What a thread's exit value points to when it is joined.
JoinedStatus(t) == IF tasks[t].state = "killed" THEN "good" ELSE lastStatus

\* sanei_thread_waitpid; a child that was reaped before counts as good.
ThreadWait(t) ==
    /\ tasks[t].state \in {"ended", "killed", "signalled", "reaped"}
    /\ answer' = [call |-> "wait", task |-> t, state |-> tasks[t].state,
                  status |-> IF tasks[t].state = "reaped" THEN "good"
                             ELSE IF forked THEN EvalWpResult(t) ELSE JoinedStatus(t)]
    /\ tasks' = [tasks EXCEPT ![t].state = "waited"]
    /\ sigpipe' = Restored(sigpipe)
    /\ UNCHANGED <<forked, td, lastStatus, application, overlapped>>

\* sanei_thread_get_status: a thread's is the one in td, whoever wrote it; a child that
\* has ended is reaped.
ThreadGetStatus(t) ==
    /\ t \in Alive
    /\ answer' = [call |-> "status", task |-> t, state |-> tasks[t].state,
                  status |-> IF ~forked THEN td.status
                             ELSE IF t \in Going \/ tasks[t].state = "reaped" THEN "io_error"
                             ELSE EvalWpResult(t)]
    /\ tasks' = IF forked /\ tasks[t].state \in {"ended", "killed", "signalled"}
               THEN [tasks EXCEPT ![t].state = "reaped"] ELSE tasks
    /\ UNCHANGED <<forked, td, lastStatus, application, sigpipe, overlapped>>

TaskNext ==
    \E t \in Tasks :
        \/ ThreadBegin(t) \/ LocalThread(t) \/ ThreadExits(t) \/ ThreadKill(t)
        \/ ThreadWait(t) \/ ThreadGetStatus(t)
        \/ \E s \in TaskStatuses : FuncReturns(t, s)

TaskSpec == TaskInit /\ [][TaskNext]_forkVars

-----------------------------------------------------------------------------
(* Properties *)

\* A scanner that hangs up must be an error of write and not the end of the application:
\* no thread goes on under the default of SIGPIPE that an earlier waitpid has brought
\* back, as long as no task was begun before the others had been waited for.  A handler
\* of the application's own is never replaced, and a forking build touches none.
SigpipeIgnored ==
    /\ ~forked /\ ~overlapped /\ Going # {} => sigpipe # "dfl"
    /\ sigpipe = "own" <=> application = "own"
    /\ forked => sigpipe = application

\* A task runs the function it was begun with, and what waitpid and get_status say of a
\* task that has ended is what its function returned: neither td nor the static status
\* holds what an earlier task has left.  (The status of a child that get_status has
\* reaped is lost.)  It is so for any processes, and for threads of which none was begun
\* before the others had been waited for.
OwnStatus == forked \/ ~overlapped =>
    /\ \A t \in Going : tasks[t].runs \in {t, NoTask}
    /\ answer.call # "none" /\ answer.state = "ended" =>
         answer.status = tasks[answer.task].result
    /\ answer.call = "wait" =>
         /\ answer.state = "killed" => answer.status = "good"
         /\ answer.state = "signalled" => answer.status # "good"

\* What a backend relies on of its reader tasks: SIGPIPE does not end the application
\* while a thread writes, and the status it waits for is the one of that task.
TasksSafe == SigpipeIgnored /\ OwnStatus
=============================================================================
