------------------------------- MODULE Threads -------------------------------
(***************************************************************************)
(* The thread helpers of the driver library (driver/odc_misc.h):           *)
(* interaction, where take() waits for a give() on a condition variable;   *)
(* exclusive_param, a value that is tested and set under a mutex; and      *)
(* thread_base.  Each thread calls one operation after the other; a step   *)
(* ends where another thread can come in between: at lock(), at the wait,  *)
(* at unlock().                                                            *)
(*                                                                         *)
(* act_give, pre_take and act_take are those of the base class: they       *)
(* return 0.  exclusive_param's tester belongs to the application; the one *)
(* here is the use the class is named for: a value is taken when it is     *)
(* "free" and given back by its owner.                                     *)
(***************************************************************************)
CONSTANT Workers    \* the threads

ASSUME ThreadsAssumption == "free" \notin Workers /\ "none" \notin Workers

VARIABLES
    doing,          \* per thread: the operation it is in, and where
    cmutex,         \* interaction's mutex: its owner, or "none"
    waiting,        \* threads in pthread_cond_wait
    given,          \* threads for which a give came since they began to wait
    strays,         \* threads whose latest wait ended without a signal
    pmutex,         \* exclusive_param's mutex: its owner, or "none"
    param,          \* exclusive_param::param
    oldval,         \* per thread: *oldval of its latest set
    owners,         \* threads that set() told they have the value
    task,           \* the thread of a thread_base: "none", "running", "ended"
    started         \* its start() returned 0

interactionVars == <<cmutex, waiting, given, strays>>
paramVars == <<pmutex, param, oldval, owners>>
taskVars == <<task, started>>
threadsVars == <<doing, interactionVars, paramVars, taskVars>>

Doing == {"idle", "give", "act_give", "take", "timed", "pre_take", "pre_timed",
          "wait", "timed_wait", "woken", "timedout", "set", "test", "reset", "clear"}

ThreadsInit ==
    /\ doing = [t \in Workers |-> "idle"]
    /\ cmutex = "none" /\ waiting = {} /\ given = {} /\ strays = {}
    /\ pmutex = "none" /\ param = "free" /\ owners = {}
    /\ oldval = [t \in Workers |-> "free"]
    /\ task = "none" /\ started = FALSE

Goto(t, d) == doing' = [doing EXCEPT ![t] = d]

\* A call begins; take with a timeout and set of "free" are calls of their own.
Begin(t) ==
    /\ doing[t] = "idle"
    /\ \E d \in {"give", "take", "timed", "set", "reset"} : Goto(t, d)
    /\ UNCHANGED <<interactionVars, paramVars, taskVars>>

-----------------------------------------------------------------------------
(* interaction.                                                            *)

\* lock(), then act_give or pre_take.
LockInteraction(t) ==
    /\ doing[t] \in {"give", "take", "timed"} /\ cmutex = "none"
    /\ cmutex' = t
    /\ Goto(t, CASE doing[t] = "give" -> "act_give"
                 [] doing[t] = "take" -> "pre_take"
                 [] OTHER -> "pre_timed")
    /\ UNCHANGED <<waiting, given, strays, paramVars, taskVars>>

\* pthread_cond_signal wakes one of the threads that wait, when there is one;
\* unlock().
Give(t) ==
    /\ doing[t] = "act_give"
    /\ given' = given \cup waiting
    /\ \/ waiting = {} /\ waiting' = {} /\ Goto(t, "idle")
       \/ \E w \in waiting :
            /\ waiting' = waiting \ {w}
            /\ doing' = [doing EXCEPT ![t] = "idle", ![w] = "woken"]
    /\ cmutex' = "none"
    /\ UNCHANGED <<strays, paramVars, taskVars>>

StartWait_KeepsMutex(t) ==
    /\ doing[t] \in {"pre_take", "pre_timed"}
    /\ waiting' = waiting \cup {t}
    /\ given' = given \ {t} /\ strays' = strays \ {t}
    /\ Goto(t, IF doing[t] = "pre_timed" THEN "timed_wait" ELSE "wait")
    /\ UNCHANGED <<cmutex, paramVars, taskVars>>

\* pthread_cond_wait releases the mutex and waits, in one step.
StartWait(t) ==
    /\ doing[t] \in {"pre_take", "pre_timed"}
    /\ cmutex' = "none" /\ waiting' = waiting \cup {t}
    /\ given' = given \ {t} /\ strays' = strays \ {t}
    /\ Goto(t, IF doing[t] = "pre_timed" THEN "timed_wait" ELSE "wait")
    /\ UNCHANGED <<paramVars, taskVars>>

TimeOut_ActsAnyway(t) ==
    /\ t \in waiting /\ doing[t] = "timed_wait"
    /\ waiting' = waiting \ {t} /\ Goto(t, "woken")
    /\ UNCHANGED <<cmutex, given, strays, paramVars, taskVars>>

\* ETIMEDOUT, for the take that has a timeout: act_take is not called.
TimeOut(t) ==
    /\ t \in waiting /\ doing[t] = "timed_wait"
    /\ waiting' = waiting \ {t} /\ Goto(t, "timedout")
    /\ UNCHANGED <<cmutex, given, strays, paramVars, taskVars>>

\* POSIX lets a wait end without a signal; nothing in take looks again.
WakeSpuriously(t) ==
    /\ t \in waiting
    /\ waiting' = waiting \ {t} /\ strays' = strays \cup {t} /\ Goto(t, "woken")
    /\ UNCHANGED <<cmutex, given, paramVars, taskVars>>

\* The wait gets the mutex back; act_take unless it timed out; unlock().
TakeReturns(t) ==
    /\ doing[t] \in {"woken", "timedout"} /\ cmutex = "none"
    /\ Goto(t, "idle")
    /\ UNCHANGED <<interactionVars, paramVars, taskVars>>

-----------------------------------------------------------------------------
(* exclusive_param::set.                                                   *)

\* The tester: only a free value can be taken, and only its owner frees it.
Test(t, nowval, newval) == nowval = "free" \/ (nowval = t /\ newval = "free")

LockParam_Unlocked(t) ==
    /\ doing[t] \in {"set", "reset"}
    /\ oldval' = [oldval EXCEPT ![t] = param]
    /\ Goto(t, IF doing[t] = "set" THEN "test" ELSE "clear")
    /\ UNCHANGED <<pmutex, param, owners, interactionVars, taskVars>>

\* lock() and the copy of the old value.
LockParam(t) ==
    /\ doing[t] \in {"set", "reset"} /\ pmutex = "none"
    /\ pmutex' = t
    /\ oldval' = [oldval EXCEPT ![t] = param]
    /\ Goto(t, IF doing[t] = "set" THEN "test" ELSE "clear")
    /\ UNCHANGED <<param, owners, interactionVars, taskVars>>

\* The test, the assignment and unlock().
SetParam(t) ==
    /\ doing[t] \in {"test", "clear"}
    /\ LET newval == IF doing[t] = "test" THEN t ELSE "free" IN
       IF Test(t, oldval[t], newval)
       THEN /\ param' = newval
            /\ owners' = IF newval = t THEN owners \cup {t} ELSE owners \ {t}
       ELSE UNCHANGED <<param, owners>>
    /\ pmutex' = "none" /\ Goto(t, "idle")
    /\ UNCHANGED <<oldval, interactionVars, taskVars>>

-----------------------------------------------------------------------------
(* thread_base, used by one thread of the application.                     *)

threadHelpers == <<doing, interactionVars, paramVars>>

\* pthread_create returns a positive error number when it fails, which the test
\* for a negative one misses: start() returns 0 in either case.
StartThread ==
    /\ ~started
    /\ started' = TRUE /\ task' \in {"none", "running"}
    /\ UNCHANGED threadHelpers

\* run() returns.
ThreadEnds ==
    /\ task = "running" /\ task' = "ended"
    /\ UNCHANGED <<started, threadHelpers>>

\* join() of an application that starts first: it waits for the thread, or reads
\* an id that was never written.
Join ==
    /\ started /\ task # "running"
    /\ started' = FALSE /\ task' = "none"
    /\ UNCHANGED threadHelpers

-----------------------------------------------------------------------------
Step(t) == LockInteraction(t) \/ Give(t) \/ StartWait(t) \/ TimeOut(t)
           \/ TakeReturns(t) \/ LockParam(t) \/ SetParam(t)

ThreadsNext == \/ \E t \in Workers : Begin(t) \/ Step(t) \/ WakeSpuriously(t)
               \/ StartThread \/ ThreadEnds \/ Join

ThreadsSpec == ThreadsInit /\ [][ThreadsNext]_threadsVars

\* Threads run, a timeout expires, and a mutex that is free again and again is
\* had in the end.
ThreadsFair ==
    \A t \in Workers :
      /\ WF_threadsVars(Give(t) \/ StartWait(t) \/ TimeOut(t) \/ SetParam(t))
      /\ SF_threadsVars(LockInteraction(t) \/ TakeReturns(t))
      /\ SF_threadsVars(LockParam(t))

ThreadsFairSpec == ThreadsSpec /\ ThreadsFair

-----------------------------------------------------------------------------
(* Properties.                                                             *)

ThreadsTypeOK ==
    /\ doing \in [Workers -> Doing]
    /\ cmutex \in Workers \cup {"none"} /\ pmutex \in Workers \cup {"none"}
    /\ waiting \subseteq Workers /\ given \subseteq Workers
    /\ strays \subseteq Workers /\ owners \subseteq Workers
    /\ param \in Workers \cup {"free"} /\ oldval \in [Workers -> Workers \cup {"free"}]
    /\ task \in {"none", "running", "ended"} /\ started \in BOOLEAN

\* Both mutexes are held by the thread that is between lock() and unlock() and
\* by no other, and a thread that waits does not hold interaction's (odc_misc.h:
\* 209-248, 295-306): nobody is locked out.
MutexesHeld ==
    \A t \in Workers :
      /\ cmutex = t <=> doing[t] \in {"act_give", "pre_take", "pre_timed"}
      /\ pmutex = t <=> doing[t] \in {"test", "clear"}
      /\ t \in waiting <=> doing[t] \in {"wait", "timed_wait"}

\* A take goes on to act_take only when a give came after it began to wait; a
\* give before that is lost to it (odc_misc.h:221-248).  The exception is a wait
\* that ends without a signal: take does not look again.
TakeNeedsGive ==
    \A t \in Workers : doing[t] = "woken" => t \in given \cup strays

\* Whoever set() told that it has the value has it: of threads that try at the
\* same time one succeeds (odc_misc.h:295-306).
OneOwner == owners = {param} \ {"free"}

\* A take with a timeout returns, whatever the other threads do.
TimedTakeReturns ==
    \A t \in Workers : doing[t] = "timed" ~> doing[t] = "idle"

\* Whatever threads do at the same time: nobody is locked out of the two mutexes,
\* no take goes on without a give of its own time, and an exclusive_param has one
\* owner (odc_misc.h:189-306).
ThreadsSafe == ThreadsTypeOK /\ MutexesHeld /\ TakeNeedsGive /\ OneOwner
=============================================================================
