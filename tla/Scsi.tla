--------------------------------- MODULE Scsi ---------------------------------
(***************************************************************************)
(* sanei_scsi.c as it is built on Linux.  Part one is a handle and its     *)
(* queue of requests: sanei_scsi_open, req_enter2, req_wait, flush_all and *)
(* close, over the old interface of the SG driver (write and read) and     *)
(* over the new one (the ioctl SG_IO, which returns when the command is    *)
(* done).  Part two is the search for device files that belong to a SCSI   *)
(* device, lx_chk_devicename and what it calls.                            *)
(*                                                                         *)
(* The requests of a handle are the sequence queue; free counts those on   *)
(* the free list.  Signals are blocked where the code says ATOMIC, so that *)
(* a flush from a handler comes between the other operations.              *)
(***************************************************************************)
EXTENDS Integers, Sequences, SequencesExt, FiniteSetsExt

CONSTANTS
    Sizes,          \* sizes of SG buffers
    WantedSize,     \* SCSIBUFFERSIZE, or what SANE_SG_BUFFERSIZE asks for
    QueueDepths,    \* queue depths that a host adapter reports
    MaxRequests,    \* bound: requests in the queue, and how far sg_queue_used drifts
    MaxFree,        \* bound: requests that are allocated
    ScanMisses,     \* SCAN_MISSES
    DevNums,        \* numbers of device files, from 0
    DevPrefixes,    \* 1 .. the number of prefixes in lx_dnl
    ScsiIds         \* <host, channel, id, lun>

ASSUME ScsiAssumption ==
    /\ Sizes \subseteq Nat \ {0} /\ WantedSize \in Nat \ {0}
    /\ QueueDepths \subseteq Int /\ MaxRequests \in Nat /\ MaxFree \in Nat
    /\ ScanMisses \in Nat \ {0, 1} /\ DevNums \subseteq Nat /\ \A n \in DevNums : 0 .. n \subseteq DevNums
    /\ DevPrefixes \subseteq Nat \ {0} /\ 1 \in DevPrefixes /\ IsFiniteSet(ScsiIds) /\ ScsiIds \cap {"none", "denied"} = {}

VARIABLES
    sg,             \* sg_version: "old" below 30000, or "sg3"
    maxRequest,     \* sanei_scsi_max_request_size; 0 before the first open
    firstOpen,      \* first_time of sanei_scsi_open
    handle,         \* the open handle: its buffer, its queue depth
    queue,          \* sane_qhead .. sane_qtail
    used,           \* sg_queue_used
    free,           \* the length of sane_free_list
    waited          \* what the last req_wait said, and of which request

queueVars == <<sg, maxRequest, firstOpen, handle, queue, used, free, waited>>

Closed == [open |-> FALSE, buf |-> 0, max |-> 1, first |-> FALSE]
NotWaited == [status |-> "GOOD", ran |-> "ok"]

\* ran: what the device has made of it, "no" while it did not get it.
Request == [running |-> FALSE, done |-> FALSE, status |-> "GOOD", ran |-> "no"]

QueueInit ==
    /\ sg \in {"old", "sg3"} /\ maxRequest = 0 /\ firstOpen = TRUE
    /\ handle = Closed /\ queue = <<>> /\ used = 0 /\ free = 0
    /\ waited = NotWaited

-----------------------------------------------------------------------------
(* issue(req): hands requests to the driver, from the first that does not  *)
(* run, while the driver takes them.                                       *)

Ran == {"ok", "error"}

\* The request i is taken.  With SG_IO it has run when the ioctl returns; the
\* status goes to the request that issue was called for, not to the one it took.
Taken(s, i, arg) ==
    {[s EXCEPT !.used = @ + 1, !.go = TRUE,
               !.q = [[@ EXCEPT ![i].running = TRUE, ![i].ran = r]
                        EXCEPT ![arg].status = IF sg = "old" THEN "IO_ERROR" ELSE "GOOD"]]
       : r \in IF sg = "old" THEN {"no"} ELSE Ran}

\* It is not, for now: EAGAIN after the 20 tries that the first one gets, or
\* ENOMEM for another one.
TakenLater(s, i) == {[s EXCEPT !.go = FALSE, !.q[i].running = FALSE]}

\* An error.  The old interface leaves it running, SG_IO does not.
Refused(s, i) ==
    {[s EXCEPT !.go = FALSE,
               !.q[i] = [@ EXCEPT !.running = sg = "old", !.done = TRUE, !.status = e]]
       : e \in IF sg = "old" THEN {"IO_ERROR", "NO_MEM"} ELSE {"IO_ERROR"}}

FirstIdle(q) == IF \E i \in DOMAIN q : ~q[i].running
                THEN Min({i \in DOMAIN q : ~q[i].running}) ELSE Len(q) + 1

IssueOne(s, i, arg) ==
    IF ~s.go \/ i < FirstIdle(s.q) \/ s.used >= handle.max THEN {s}
    ELSE Taken(s, i, arg) \cup TakenLater(s, i) \cup Refused(s, i)

Issue_ArgOnly(q, n, arg) ==
    IF arg \notin DOMAIN q THEN {[q |-> q, used |-> n, go |-> TRUE]}
    ELSE IssueOne([q |-> q, used |-> n, go |-> TRUE], arg, arg)

\* What issue may leave of queue and sg_queue_used, called for request arg; it
\* does nothing for none.
Issue(q, n, arg) ==
    IF arg \notin DOMAIN q THEN {[q |-> q, used |-> n, go |-> TRUE]}
    ELSE LET after[i \in 0 .. Len(q)] ==
               IF i = 0 THEN {[q |-> q, used |-> n, go |-> TRUE]}
               ELSE UNION {IssueOne(s, i, arg) : s \in after[i - 1]}
         IN after[Len(q)]

-----------------------------------------------------------------------------
(* The operations on a handle.                                             *)

\* The size that the driver grants of the one asked for.
Granted(want) == {IF s < want THEN s ELSE want : s \in Sizes}

\* get_max_buffer_size for each scanner there is, at the first open.
Probed == {WantedSize} \cup Granted(WantedSize)

Depths == {1} \cup {IF d <= 0 THEN 1 ELSE d : d \in QueueDepths}

ScsiOpen_Unchecked ==
    /\ ~handle.open
    /\ \E max \in (IF maxRequest = 0 THEN Probed ELSE {maxRequest}), depth \in Depths :
         LET want == IF firstOpen THEN WantedSize ELSE max IN
         \E buf \in Granted(want) :
           /\ maxRequest' = max /\ firstOpen' = FALSE
           /\ handle' = [open |-> TRUE, buf |-> buf, max |-> depth, first |-> firstOpen]
    /\ queue' = <<>> /\ used' = 0 /\ free' = 0 /\ waited' = NotWaited
    /\ UNCHANGED sg

\* sanei_scsi_open: the first time it takes what it gets; later a handle whose
\* buffer is smaller than sanei_scsi_max_request_size is closed again.
ScsiOpen ==
    /\ ~handle.open
    /\ \E max \in (IF maxRequest = 0 THEN Probed ELSE {maxRequest}), depth \in Depths :
         LET want == IF firstOpen THEN WantedSize ELSE max IN
         \E buf \in Granted(want) :
           /\ maxRequest' = max /\ firstOpen' = FALSE
           /\ handle' = IF ~firstOpen /\ buf # want THEN Closed
                        ELSE [open |-> TRUE, buf |-> buf, max |-> depth, first |-> firstOpen]
    /\ queue' = <<>> /\ used' = 0 /\ free' = 0 /\ waited' = NotWaited
    /\ UNCHANGED sg

\* The open fails before that: no file, no access, not a scanner, no memory.
ScsiOpenFails ==
    /\ ~handle.open /\ firstOpen' = FALSE
    /\ maxRequest' \in IF maxRequest = 0 THEN Probed ELSE {maxRequest}
    /\ UNCHANGED <<sg, handle, queue, used, free, waited>>

ReqEnter_KeepsFree ==
    /\ handle.open /\ Len(queue) < MaxRequests /\ used \in -MaxRequests .. MaxRequests
    /\ free > 0 \/ Len(queue) < MaxFree
    /\ \E s \in Issue(Append(queue, Request), used, Len(queue) + 1) :
         queue' = s.q /\ used' = s.used
    /\ UNCHANGED <<sg, maxRequest, firstOpen, handle, free, waited>>

\* sanei_scsi_req_enter2: a request of the free list or a new one goes to the
\* end of the queue.  sanei_scsi_cmd2 is this and the wait for it.
ReqEnter ==
    /\ handle.open /\ Len(queue) < MaxRequests /\ used \in -MaxRequests .. MaxRequests
    /\ free > 0 \/ Len(queue) < MaxFree
    /\ free' = IF free > 0 THEN free - 1 ELSE free
    /\ \E s \in Issue(Append(queue, Request), used, Len(queue) + 1) :
         queue' = s.q /\ used' = s.used
    /\ UNCHANGED <<sg, maxRequest, firstOpen, handle, waited>>

\* What req_wait makes of a command that has run: with an error the device is
\* busy, or the sense handler of the backend says what it means.
StatusOf(r) == IF r = "error" THEN {"DEVICE_BUSY", "IO_ERROR", "GOOD"} ELSE {"GOOD"}

Dequeue(q, status) ==
    /\ queue' = Tail(q) /\ free' = free + 1
    /\ waited' = [status |-> status, ran |-> q[1].ran]
    /\ UNCHANGED <<sg, maxRequest, firstOpen, handle>>

WaitDone_Good(s) ==
    /\ s.q[1].done
    /\ \E t \in Issue(s.q, s.used, 2) : used' = t.used /\ Dequeue(t.q, "GOOD")

\* The request is done already: issue the next, give its status.
WaitDone(s) ==
    /\ s.q[1].done
    /\ \E t \in Issue(s.q, s.used, 2) : used' = t.used /\ Dequeue(t.q, t.q[1].status)

WaitRead_NotCounted(s) ==
    /\ ~s.q[1].done /\ s.q[1].running
    /\ \E r \in Ran : \E t \in Issue([s.q EXCEPT ![1].done = TRUE, ![1].ran = r], s.used, 2) :
         used' = t.used /\ \E st \in StatusOf(r) \cup {"IO_ERROR"} : Dequeue(t.q, st)

\* The old interface: waits until the driver has the answer, and reads it.  A
\* request that does not run gets none: the wait goes on.
WaitRead(s) ==
    /\ ~s.q[1].done /\ s.q[1].running
    /\ \E r \in Ran : \E t \in Issue([s.q EXCEPT ![1].done = TRUE, ![1].ran = r], s.used - 1, 2) :
         used' = t.used /\ \E st \in StatusOf(r) \cup {"IO_ERROR"} : Dequeue(t.q, st)

\* SG_IO: nothing to wait for.  Whether the request has run is not asked.
WaitSgIo(s) ==
    /\ ~s.q[1].done
    /\ \E t \in Issue([s.q EXCEPT ![1].done = TRUE], s.used - 1, 2) :
         used' = t.used /\ \E st \in StatusOf(t.q[1].ran) : Dequeue(t.q, st)

\* sanei_scsi_req_wait, of the first request only.
ReqWait ==
    /\ handle.open /\ queue # <<>>
    /\ \E s \in Issue(queue, used, 1) :
         WaitDone(s) \/ IF sg = "old" THEN WaitRead(s) ELSE WaitSgIo(s)

Outstanding(q) == {i \in DOMAIN q : q[i].running /\ ~q[i].done}

\* sanei_scsi_req_flush_all: every request goes to the free list, after the
\* answer of those that run is read or sane_scsicmd_timeout has passed.
ReqFlushAll ==
    /\ handle.open
    /\ used' = used - Cardinality(Outstanding(queue))
    /\ free' = free + Len(queue) /\ queue' = <<>>
    /\ UNCHANGED <<sg, maxRequest, firstOpen, handle, waited>>

\* sanei_scsi_close: a flush, and the free list is given back.
ScsiClose ==
    /\ handle.open /\ handle' = Closed
    /\ queue' = <<>> /\ used' = 0 /\ free' = 0 /\ waited' = NotWaited
    /\ UNCHANGED <<sg, maxRequest, firstOpen>>

QueueNext == ScsiOpen \/ ScsiOpenFails \/ ReqEnter \/ ReqWait \/ ReqFlushAll \/ ScsiClose

QueueSpec == QueueInit /\ [][QueueNext]_queueVars

-----------------------------------------------------------------------------
(* Properties of the queue.                                                *)

ScsiTypeOK ==
    /\ sg \in {"old", "sg3"} /\ maxRequest \in Nat /\ firstOpen \in BOOLEAN
    /\ \A i \in DOMAIN queue :
         queue[i] \in [running : BOOLEAN, done : BOOLEAN,
                       status : {"GOOD", "IO_ERROR", "NO_MEM"}, ran : {"no"} \cup Ran]
    /\ used \in Int /\ free \in 0 .. MaxFree /\ Len(queue) + free <= MaxFree
    /\ waited.status \in {"GOOD", "IO_ERROR", "NO_MEM", "DEVICE_BUSY"}
    /\ ~handle.open => queue = <<>>

\* Commands reach the driver in the order they were entered: none runs behind
\* one that does not, whatever was refused or put off on the way (issue, 1870-1908).
RunsInOrder ==
    \A i, j \in DOMAIN queue : i < j /\ queue[j].running => queue[i].running

\* With the old interface sg_queue_used counts the commands the driver has, so
\* that it never gets more of them than the adapter's queue holds - over every
\* failed write, put off write, wait and flush.  (With SG_IO it does not.)
QueueCounted ==
    sg = "old" /\ handle.open =>
      used = Cardinality(Outstanding(queue)) /\ used <= handle.max

\* A handle that is not the first to be opened can transfer what
\* sanei_scsi_max_request_size promises (1530-1542).
BufferFits == handle.open /\ ~handle.first => handle.buf >= maxRequest

\* sanei_scsi_req_wait says GOOD only of a command that the device was given
\* and has run; an error of the driver is reported (sanei_scsi.h:242-245).
\* It holds with the old interface.
OldGoodMeansRan == sg = "old" /\ waited.status = "GOOD" => waited.ran # "no"

-----------------------------------------------------------------------------
(* Part two: device files.  node[k][n] is what the file with the prefix k  *)
(* and the number n leads to.                                              *)

VARIABLES
    node,           \* per prefix and number: "none", "denied", or the device
    devfsNodes,     \* the devices that have a file in /dev/scsi
    base,           \* lx_sg_dev_base; 0 for -1
    devfs,          \* lx_devfs: -1, 0 or 1
    listed,         \* the SCSI devices of the last search, in the order of the list
    attached        \* <<device, file>> that attach was called for in it

nameVars == <<node, devfsNodes, base, devfs, listed, attached>>

NoScsi == {"none", "denied"}

DevfsFile == <<0, 0>>

NameInit ==
    /\ node \in [DevPrefixes -> [DevNums -> ScsiIds \cup NoScsi]]
    /\ \A k, l \in DevPrefixes, n, m \in DevNums :
         node[k][n] = node[l][m] /\ node[k][n] \in ScsiIds => k = l /\ n = m
    /\ devfsNodes \in SUBSET ScsiIds
    /\ base = 0 /\ devfs = -1 /\ listed = <<>> /\ attached = {}

\* lx_mk_devicename: the prefixes in turn, until one is known to be in use.
MkDevicename(s, n) ==
    LET there == {k \in IF s.base = 0 THEN DevPrefixes ELSE {s.base} :
                    n \in DevNums /\ node[k][n] # "none"} IN
    IF there = {} THEN [base |-> s.base, found |-> "none", file |-> <<0, n>>]
    ELSE [base |-> Min(there), found |-> node[Min(there)][n], file |-> <<Min(there), n>>]

\* What missed counts at k: from the last file that was there, or the one left out.
Missed(b, k, exclude) ==
    LET hits == {j \in DevNums : j < k /\ (j = exclude \/ node[b][j] # "none")} IN
    IF hits = {} THEN k ELSE k - Max(hits)

LxScanSg_NoSkip(b, exclude, id) ==
    {k \in DevNums : /\ k # exclude /\ node[b][k] = id
                     /\ \A j \in 0 .. k : j \notin DevNums \/ node[b][j] # "denied"}

\* lx_scan_sg: the files of the prefix up to ScanMisses gaps in a row, but the
\* one that was tried.  The numbers of the files that lead to the device.
LxScanSg(b, exclude, id) ==
    {k \in DevNums : /\ k # exclude /\ node[b][k] = id
                     /\ \A j \in 0 .. k : Missed(b, j, exclude) < ScanMisses}

LxChkDevicename_NoCheck(s, guess, id) ==
    LET g == MkDevicename(s, guess)
        s1 == [s EXCEPT !.base = g.base]
    IN IF g.found \in NoScsi THEN s1
       ELSE [s1 EXCEPT !.att = @ \cup {<<id, g.file>>}]

\* lx_chk_devicename(guess, id) with the static variables in s: by devfs if there
\* is one, by the guess (or /dev/sg0, /dev/sg1), by a scan of the others.
LxChkDevicename(s, guess, id) ==
    LET load == IF s.devfs = -1 THEN MkDevicename(s, guess).base ELSE s.base
        s0 == [s EXCEPT !.base = load]
        g == CHOOSE m \in {MkDevicename(s0, n) : n \in {guess, 0, 1}} :
               \/ m = MkDevicename(s0, guess) /\ m.found # "none"
               \/ m = MkDevicename(s0, 0) /\ MkDevicename(s0, guess).found = "none" /\ m.found # "none"
               \/ /\ m = MkDevicename(s0, 1)
                  /\ \A n \in {guess, 0} : MkDevicename(s0, n).found = "none"
        s1 == [s0 EXCEPT !.base = g.base, !.devfs = 0]
    IN IF s.devfs # 0 /\ id \in devfsNodes
       THEN [s0 EXCEPT !.devfs = 1, !.att = @ \cup {<<id, DevfsFile>>}]
       ELSE IF g.found = "none" THEN s1
       ELSE IF g.found = id THEN [s1 EXCEPT !.att = @ \cup {<<id, g.file>>}]
       ELSE IF LxScanSg(s1.base, guess, id) = {} THEN s1
       ELSE [s1 EXCEPT !.att = @ \cup {<<id, <<s1.base, Min(LxScanSg(s1.base, guess, id))>>>>}]

\* The devices of a list that are asked for, each with its guessed number.
Search(list, number) ==
    LET after[i \in 0 .. Len(list)] ==
          IF i = 0 THEN [base |-> base, devfs |-> devfs, att |-> {}]
          ELSE LxChkDevicename(after[i - 1], number[i], list[i])
        s == after[Len(list)]
    IN
    /\ listed' = list /\ base' = s.base /\ devfs' = s.devfs /\ attached' = s.att
    /\ UNCHANGED <<node, devfsNodes>>

\* sanei_proc_scsi_find_devices: /proc/scsi/scsi numbers the devices.
ProcFindDevices(list) == Search(list, [i \in DOMAIN list |-> i - 1])

\* sanei_scsi_find_devices: in /sys only a new bus counts, and the order is any.
SysFindDevices(list) ==
    \E number \in [DOMAIN list -> DevNums] :
      /\ \A i \in DOMAIN list : IF i = 1 THEN number[i] = 0
                                ELSE number[i] \in {number[i - 1], number[i - 1] + 1}
      /\ Search(list, number)

\* A device comes or goes between two searches.
Replug ==
    /\ listed # <<>> /\ listed' = <<>> /\ attached' = {}
    /\ \E k \in DevPrefixes, n \in DevNums, to \in ScsiIds \cup NoScsi :
         /\ to \in ScsiIds => \A l \in DevPrefixes, m \in DevNums : node[l][m] # to
         /\ node' = [node EXCEPT ![k][n] = to]
    /\ UNCHANGED <<devfsNodes, base, devfs>>

NameNext ==
    \/ \E list \in SetToSeqs(ScsiIds) : ProcFindDevices(list) \/ SysFindDevices(list)
    \/ Replug

NameSpec == NameInit /\ [][NameNext]_nameVars

-----------------------------------------------------------------------------
\* A backend is only given a file that leads to the device that was asked for,
\* whichever number was guessed and whatever the searches before have learnt.
AttachedRight ==
    \A a \in attached :
      IF a[2] = DevfsFile THEN a[1] \in devfsNodes ELSE node[a[2][1]][a[2][2]] = a[1]

\* When the files are numbered without gaps, under the first prefix, every
\* device whose file can be opened is found - next to files that cannot be
\* opened, in every order of the list and with any guess (2594-2686).
NoneMissed ==
    \A i \in DOMAIN listed :
      /\ base \in {0, 1}
      /\ \E n \in DevNums : node[1][n] = listed[i]
      /\ \A n \in DevNums : node[1][n] # "none" => \A j \in DevNums : j < n => node[1][j] # "none"
      => \E f \in {<<1, n>> : n \in DevNums} \cup {DevfsFile} : <<listed[i], f>> \in attached

\* The queue of commands of a SCSI handle, and the device files that backends get.
ScsiSafe ==
    /\ ScsiTypeOK /\ RunsInOrder /\ QueueCounted /\ BufferFits /\ OldGoodMeansRan
    /\ AttachedRight /\ NoneMissed
=============================================================================
