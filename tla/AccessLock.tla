------------------------------- MODULE AccessLock -------------------------------
(***************************************************************************)
(* The lock of a device among frontends (sanei_access.c): a file that is   *)
(* created exclusively and holds the id of its process.  A process that    *)
(* finds the file asks whether its owner still lives, removes the file of  *)
(* a dead one, and otherwise tries again every second until its time is    *)
(* over.  Every system call is a step of its own.                          *)
(***************************************************************************)
EXTENDS Integers, FiniteSets

CONSTANTS
    Procs,          \* processes; one that has died does not come back
    LockTries,      \* the timeout, in seconds
    MaxDeaths,      \* how many processes may die
    EmptyFileSays,  \* what get_lock_status may say of a file without an id
    NoProc

ASSUME AccessAssumption ==
    /\ LockTries \in Nat \ {0} /\ MaxDeaths \in Nat /\ NoProc \notin Procs
    /\ EmptyFileSays \subseteq {"self", "dead", "other"} /\ EmptyFileSays # {}

VARIABLES
    lockFile,       \* by: the process that has created it; written: with its id
    locking,        \* per process: the step of its call
    triesLeft,      \* per process
    result          \* per process: of its last sanei_access_lock

lockVars == <<lockFile, locking, triesLeft, result>>

NoFile == [by |-> NoProc, written |-> FALSE]

LockInit ==
    /\ lockFile = NoFile
    /\ locking = [p \in Procs |-> "idle"] /\ triesLeft = [p \in Procs |-> 0]
    /\ result = [p \in Procs |-> "none"]

Dead == {p \in Procs : locking[p] = "dead"}

At(p, from, to) == locking[p] = from /\ locking' = [locking EXCEPT ![p] = to]

\* sanei_access_lock is called; a process may hold the lock already.
AccessLock(p) ==
    /\ locking[p] \in {"idle", "held"}
    /\ locking' = [locking EXCEPT ![p] = "open"]
    /\ triesLeft' = [triesLeft EXCEPT ![p] = LockTries] /\ result' = [result EXCEPT ![p] = "none"]
    /\ UNCHANGED lockFile

Returns(p, status, to) ==
    locking' = [locking EXCEPT ![p] = to] /\ result' = [result EXCEPT ![p] = status]

\* open with O_CREAT and O_EXCL; the directory may not be writable.
OpenLock(p) ==
    /\ locking[p] = "open" /\ triesLeft[p] > 0
    /\ \/ lockFile = NoFile /\ lockFile' = [by |-> p, written |-> FALSE]
          /\ locking' = [locking EXCEPT ![p] = "write"] /\ UNCHANGED result
       \/ lockFile # NoFile /\ locking' = [locking EXCEPT ![p] = "check"] /\ UNCHANGED <<lockFile, result>>
       \/ lockFile = NoFile /\ Returns(p, "denied", "idle") /\ UNCHANGED lockFile
    /\ UNCHANGED triesLeft

\* The id is written to the file that was created, which may be gone by now.
WriteLock(p) ==
    /\ locking[p] = "write" /\ Returns(p, "good", "held")
    /\ lockFile' = IF lockFile.by = p THEN [lockFile EXCEPT !.written = TRUE] ELSE lockFile
    /\ UNCHANGED triesLeft

\* get_lock_status: a file that is gone counts as somebody else's; one without an id
\* leaves a buffer that was never initialised, so any process id may be read.
LockStatus(p) ==
    IF lockFile = NoFile THEN {"other"}
    ELSE IF ~lockFile.written THEN EmptyFileSays
    ELSE IF lockFile.by = p THEN {"self"}
    ELSE IF lockFile.by \in Dead THEN {"dead"} ELSE {"other"}

OneLess_NotDead(tries, status) == IF status = "dead" THEN tries ELSE tries - 1
OneLess(tries, status) == tries - 1

CheckLock(p) ==
    /\ locking[p] = "check"
    /\ \E status \in LockStatus(p) :
         /\ IF status = "self" THEN Returns(p, "good", "held")
            ELSE locking' = [locking EXCEPT ![p] = IF status = "dead" THEN "unlink" ELSE "open"]
                 /\ UNCHANGED result
         /\ triesLeft' = [triesLeft EXCEPT ![p] = OneLess(@, status)]
    /\ UNCHANGED lockFile

\* The file that is removed is the one there now.
UnlinkStale(p) ==
    /\ At(p, "unlink", "open") /\ lockFile' = NoFile
    /\ UNCHANGED <<triesLeft, result>>

LockTimeout(p) ==
    /\ locking[p] = "open" /\ triesLeft[p] = 0 /\ Returns(p, "denied", "idle")
    /\ UNCHANGED <<lockFile, triesLeft>>

Unlinked_Keeps(p) == IF lockFile.by = p THEN lockFile ELSE NoFile

\* sanei_access_unlock removes the file, whoever has made it.
Unlinked(p) == NoFile

AccessUnlock(p) ==
    /\ At(p, "held", "idle") /\ lockFile' = Unlinked(p)
    /\ UNCHANGED <<triesLeft, result>>

Die(p) ==
    /\ locking[p] # "dead" /\ Cardinality(Dead) < MaxDeaths
    /\ locking' = [locking EXCEPT ![p] = "dead"]
    /\ UNCHANGED <<lockFile, triesLeft, result>>

LockStep(p) == OpenLock(p) \/ WriteLock(p) \/ CheckLock(p) \/ UnlinkStale(p) \/ LockTimeout(p)

LockNext == \E p \in Procs : AccessLock(p) \/ LockStep(p) \/ AccessUnlock(p) \/ Die(p)

LockFairness == \A p \in Procs : WF_lockVars(LockStep(p))

LockSpec == LockInit /\ [][LockNext]_lockVars /\ LockFairness

-----------------------------------------------------------------------------
(* Properties *)

\* The file never stays behind: the process that has made it is dead, holds the lock or
\* is on its way to - through every mistaken removal - so that a lock that was given
\* back locks nobody out.
FileHasOwner ==
    lockFile # NoFile => locking[lockFile.by] # "idle"

\* A dead owner locks nobody out for ever: whoever finds its file removes it and is
\* denied only when the time is over.
LockReturns == \A p \in Procs : (locking[p] = "open") ~> (locking[p] \in {"held", "idle", "dead"})
=============================================================================
