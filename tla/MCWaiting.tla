------------------------------ MODULE MCWaiting ------------------------------
(***************************************************************************)
(* The parts of the system that wait for another thread, process or peer,  *)
(* side by side in one run: a behaviour is one of Transfer, of Threads     *)
(* (its interaction and exclusive_param, or its thread_base) or of         *)
(* AccessLock; part says which, and the variables of the others stay as    *)
(* they began.                                                             *)
(***************************************************************************)
EXTENDS Transfer, Threads, AccessLock

VARIABLE part

mcVars == <<part, transferVars, threadsVars, lockVars>>

MCInit ==
    /\ TransferInit /\ ThreadsInit /\ LockInit
    /\ part \in {"transfer", "threads", "base", "lock"}

TransferPart ==
    part = "transfer" /\ TransferNext /\ UNCHANGED <<part, threadsVars, lockVars>>
WorkersPart ==
    /\ part = "threads"
    /\ \E t \in Workers : Begin(t) \/ Step(t) \/ WakeSpuriously(t)
    /\ UNCHANGED <<part, transferVars, lockVars>>
BasePart ==
    /\ part = "base" /\ (StartThread \/ ThreadEnds \/ Join)
    /\ UNCHANGED <<part, transferVars, lockVars>>
LockPart ==
    part = "lock" /\ LockNext /\ UNCHANGED <<part, transferVars, threadsVars>>

MCNext == TransferPart \/ WorkersPart \/ BasePart \/ LockPart

-----------------------------------------------------------------------------
\* The fairness of each part, for its own behaviours.
MCReceives == part = "transfer" /\ RecvStep /\ UNCHANGED <<part, threadsVars, lockVars>>
MCRuns(t) ==
    /\ part = "threads" /\ (Give(t) \/ StartWait(t) \/ TimeOut(t) \/ SetParam(t))
    /\ UNCHANGED <<part, transferVars, lockVars>>
MCEntersInteraction(t) ==
    /\ part = "threads" /\ (LockInteraction(t) \/ TakeReturns(t))
    /\ UNCHANGED <<part, transferVars, lockVars>>
MCEntersParam(t) ==
    part = "threads" /\ LockParam(t) /\ UNCHANGED <<part, transferVars, lockVars>>
MCLocks(p) ==
    part = "lock" /\ LockStep(p) /\ UNCHANGED <<part, transferVars, threadsVars>>

MCFair ==
    /\ WF_mcVars(MCReceives)
    /\ \A t \in Workers : WF_mcVars(MCRuns(t)) /\ SF_mcVars(MCEntersInteraction(t)) /\ SF_mcVars(MCEntersParam(t))
    /\ \A p \in Procs : WF_mcVars(MCLocks(p))

MCSpec == MCInit /\ [][MCNext]_mcVars /\ MCFair

-----------------------------------------------------------------------------
\* Every wait of this library ends: receive_message with a timeout set, a take with
\* a timeout, and sanei_access_lock behind a process that died with the lock.
WaitersReturn == RecvReturns /\ TimedTakeReturns /\ LockReturns
=============================================================================
