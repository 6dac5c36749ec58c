----------------------------- MODULE ScanClient -----------------------------
(***************************************************************************)
(* The driver's own client of the scan daemon: scandif::scan               *)
(* (driver/scandifc.cpp) scans a document to files, one page after the     *)
(* other, and looks at a flag that cancel_scan, called by its progress     *)
(* callback or by another thread, sets.  The notifications themselves      *)
(* change no state and are left out.                                       *)
(*                                                                         *)
(* scan() is cut at its socket calls, at the two places where it looks at  *)
(* the flag and at the calls of the PNM writer (driver/odc_pnm.cpp).       *)
(***************************************************************************)
EXTENDS Scandif

CONSTANTS
    WriteFails      \* may a write to the page's file fail?

ASSUME ScanClientAssumption == WriteFails \in BOOLEAN

VARIABLES
    canceled,       \* scandif::canceled
    pc,             \* where scan() stands, "idle" outside of it
    pagecnt,
    used_src,       \* TRUE for the ADF
    total_read,
    has_more_docs,
    lsts,           \* the local lsts, and what the latest scan() returned
    files,          \* what this scan wrote: one record for each page it opened
    page,           \* the page the daemon announced last
    late,           \* requests sent and messages written since cancel_scan
    misled          \* a message was taken from a stream out of step since scan()
                    \* was called

clientVars == <<canceled, pc, pagecnt, used_src, total_read, has_more_docs, lsts,
                files, page, late, misled>>
vars == <<scandVars, sock, clientVars>>

\* A page's file: the image it is named after, the bytes received for it,
\* whether they came in order, and whether all of them reached the disk.
File == [image : Image, got : Nat, inOrder : BOOLEAN, written : BOOLEAN]

Init ==
    /\ ScandInit
    /\ sock = "none"
    /\ canceled = FALSE
    /\ pc = "idle"
    /\ pagecnt = 0 /\ total_read = 0
    /\ used_src = FALSE /\ has_more_docs = FALSE
    /\ lsts = "none"
    /\ files = <<>> /\ page = image
    /\ late = 0
    /\ misled = FALSE

-----------------------------------------------------------------------------
(* The application: it opens and closes the connection, scans, cancels.    *)

Open ==
    /\ pc = "idle"
    /\ OpenSucceeds \/ OpenFails
    /\ UNCHANGED clientVars

CloseConnection ==
    /\ pc = "idle" /\ sock # "none"
    /\ Close
    /\ UNCHANGED clientVars

Scan ==
    /\ pc = "idle"
    /\ pc' = "top"
    /\ canceled' = FALSE
    /\ pagecnt' = 0 /\ used_src' = FALSE /\ has_more_docs' = FALSE
    /\ lsts' = "none" /\ files' = <<>> /\ late' = 0
    /\ page' = image /\ misled' = FALSE
    /\ UNCHANGED <<scandVars, sock, total_read>>

\* cancel_scan.
CancelScan ==
    /\ canceled' = TRUE
    /\ late' = IF canceled THEN late ELSE 0
    /\ UNCHANGED <<scandVars, sock, pc, pagecnt, used_src, total_read, has_more_docs, lsts,
                   files, page, misled>>

-----------------------------------------------------------------------------
(* scan                                                                    *)

\* The return statements inside the loops.
ReturnEarly(s) == pc' = "idle" /\ lsts' = s

\* Mutation of Top: the flag is not looked at between two pages.
Top_Blind ==
    /\ pc = "top"
    /\ pc' = IF pagecnt = 0 THEN "sendScan" ELSE "sendContinue"
    /\ pagecnt' = pagecnt + 1
    /\ UNCHANGED <<scandVars, sock, canceled, used_src, total_read, has_more_docs, files,
                   page, late, misled, lsts>>

Top ==
    /\ pc = "top"
    /\ IF canceled
       THEN pc' = "finish" /\ lsts' = "CANCELED" /\ UNCHANGED pagecnt
       ELSE /\ pc' = IF pagecnt = 0 THEN "sendScan" ELSE "sendContinue"
            /\ pagecnt' = pagecnt + 1 /\ UNCHANGED lsts
    /\ UNCHANGED <<scandVars, sock, canceled, used_src, total_read, has_more_docs, files,
                   page, late, misled>>

SendRequest(t, next) ==
    /\ \/ /\ sock = "conn" /\ \E m \in Modes : Send([type |-> t, mode |-> m])
          /\ pc' = next /\ UNCHANGED lsts
          /\ late' = IF canceled THEN late + 1 ELSE late
       \/ UNCHANGED scandVars /\ ReturnEarly("IOERROR") /\ UNCHANGED late
    /\ UNCHANGED <<sock, canceled, pagecnt, used_src, total_read, has_more_docs, files, page,
                   misled>>

SendScan == pc = "sendScan" /\ SendRequest("SCAN", "recvScan")

SendContinue == pc = "sendContinue" /\ SendRequest("SCANCONTINUE", "recvContinue")

\* scandif_recv finds m.
Takes(m) == Receives(m) /\ misled' = (misled \/ torn > 0)

\* A message that is not the one waited for: the daemon's error or a protocol
\* error.
Unexpected(m) ==
    ReturnEarly(IF m.type = "ERRORSTATUS" THEN m.status ELSE "IOERROR")

\* NODATA goes round the loop: no step.
RecvScan ==
    /\ pc = "recvScan"
    /\ \/ \E m \in Arriving :
             /\ Takes(m)
             /\ IF m.type = "SCAN"
                THEN pc' = "open" /\ page' = m.image /\ used_src' = m.adf /\ UNCHANGED lsts
                ELSE Unexpected(m) /\ UNCHANGED <<page, used_src>>
       \/ RecvFails /\ ReturnEarly("IOERROR") /\ UNCHANGED <<page, used_src, misled>>
    /\ UNCHANGED <<sock, canceled, pagecnt, total_read, has_more_docs, files, late>>

\* Mutation of RecvContinue: image data that is left over means that the page
\* asked for is there.
RecvContinue_TakesData ==
    /\ pc = "recvContinue"
    /\ \/ \E m \in Arriving :
             /\ Takes(m)
             /\ IF m.type \in {"SCANCONTINUE", "SCANDATA"}
                THEN pc' = "open" /\ page' = m.image /\ UNCHANGED lsts
                ELSE Unexpected(m) /\ UNCHANGED page
       \/ /\ RecvFails \/ RecvInterrupted
          /\ ReturnEarly("IOERROR") /\ UNCHANGED <<page, misled>>
    /\ UNCHANGED <<sock, canceled, pagecnt, used_src, total_read, has_more_docs, files, late>>

\* Mutation of RecvContinue: it waits on after an ERRORSTATUS.
RecvContinue_IgnoresError ==
    /\ pc = "recvContinue"
    /\ \/ \E m \in Arriving :
             /\ Takes(m)
             /\ CASE m.type = "SCANCONTINUE" -> pc' = "open" /\ page' = m.image /\ UNCHANGED lsts
                  [] m.type \in {"SCANDATA", "ERRORSTATUS"} -> UNCHANGED <<pc, page, lsts>>
                  [] OTHER -> Unexpected(m) /\ UNCHANGED page
       \/ /\ RecvFails \/ RecvInterrupted
          /\ ReturnEarly("IOERROR") /\ UNCHANGED <<page, misled>>
    /\ UNCHANGED <<sock, canceled, pagecnt, used_src, total_read, has_more_docs, files, late>>

\* Image data that is still in the socket is skipped.
RecvContinue ==
    /\ pc = "recvContinue"
    /\ \/ \E m \in Arriving :
             /\ Takes(m)
             /\ CASE m.type = "SCANCONTINUE" -> pc' = "open" /\ page' = m.image /\ UNCHANGED lsts
                  [] m.type = "SCANDATA" -> UNCHANGED <<pc, page, lsts>>
                  [] OTHER -> Unexpected(m) /\ UNCHANGED page
       \/ /\ RecvFails \/ RecvInterrupted
          /\ ReturnEarly("IOERROR") /\ UNCHANGED <<page, misled>>
    /\ UNCHANGED <<sock, canceled, pagecnt, used_src, total_read, has_more_docs, files, late>>

\* Mutation of OpenPage: every page goes to the same file.
OpenPage_SamePath ==
    /\ pc = "open"
    /\ \/ /\ pc' = "page" /\ lsts' = "SUCCESS" /\ total_read' = 0
          /\ files' = <<[image |-> page, got |-> 0, inOrder |-> TRUE, written |-> TRUE]>>
       \/ /\ WriteFails
          /\ pc' = "finish" /\ lsts' = "FIOERROR" /\ UNCHANGED <<total_read, files>>
    /\ UNCHANGED <<scandVars, sock, canceled, pagecnt, used_src, has_more_docs, page, late,
                   misled>>

\* wp->open creates the page's file and writes its header.
OpenPage ==
    /\ pc = "open"
    /\ \/ /\ pc' = "page" /\ lsts' = "SUCCESS" /\ total_read' = 0
          /\ files' = Append(files, [image |-> page, got |-> 0, inOrder |-> TRUE,
                                     written |-> TRUE])
       \/ /\ WriteFails
          /\ pc' = "finish" /\ lsts' = "FIOERROR" /\ UNCHANGED <<total_read, files>>
    /\ UNCHANGED <<scandVars, sock, canceled, pagecnt, used_src, has_more_docs, page, late,
                   misled>>

\* Mutation of PageTop: the flag is not looked at inside a page.
PageTop_Blind ==
    /\ pc = "page"
    /\ pc' = "recvData"
    /\ UNCHANGED <<scandVars, sock, canceled, pagecnt, used_src, total_read, has_more_docs,
                   files, page, late, misled, lsts>>

PageTop ==
    /\ pc = "page"
    /\ IF canceled
       THEN pc' = "close" /\ lsts' = "CANCELED"
       ELSE pc' = "recvData" /\ UNCHANGED lsts
    /\ UNCHANGED <<scandVars, sock, canceled, pagecnt, used_src, total_read, has_more_docs,
                   files, page, late, misled>>

\* wp->write puts the bytes of message m behind those the file has.
Written(file, m, ok) ==
    [file EXCEPT !.got = @ + m.size,
                 !.inOrder = @ /\ m.image = page /\ m.from = total_read,
                 !.written = @ /\ ok]

\* Mutation of WriteData: the page ends when the daemon has no more of them.
WriteData_EndsByMore(m, ok) ==
    /\ files' = [files EXCEPT ![Len(files)] = Written(@, m, ok)]
    /\ total_read' = total_read + m.size
    /\ has_more_docs' = IF Last(m) THEN m.more ELSE has_more_docs
    /\ lsts' = IF ~m.more THEN "END_OF_PAGE" ELSE IF ok THEN "SUCCESS" ELSE "FIOERROR"
    /\ pc' = IF lsts' = "SUCCESS" THEN "page" ELSE "close"
    /\ late' = IF canceled THEN late + 1 ELSE late

\* Mutation of WriteData: the flag has_more_docs of an earlier page stays.
WriteData_NeverMore(m, ok) ==
    /\ files' = [files EXCEPT ![Len(files)] = Written(@, m, ok)]
    /\ total_read' = total_read + m.size
    /\ lsts' = IF Last(m) THEN "END_OF_PAGE" ELSE IF ok THEN "SUCCESS" ELSE "FIOERROR"
    /\ pc' = IF lsts' = "SUCCESS" THEN "page" ELSE "close"
    /\ late' = IF canceled THEN late + 1 ELSE late
    /\ UNCHANGED has_more_docs

\* wp->write and the end of the page, which replaces the error of a write
\* that failed.
WriteData(m, ok) ==
    /\ files' = [files EXCEPT ![Len(files)] = Written(@, m, ok)]
    /\ total_read' = total_read + m.size
    /\ has_more_docs' = IF Last(m) THEN m.more ELSE has_more_docs
    /\ lsts' = IF Last(m) THEN "END_OF_PAGE" ELSE IF ok THEN "SUCCESS" ELSE "FIOERROR"
    /\ pc' = IF lsts' = "SUCCESS" THEN "page" ELSE "close"
    /\ late' = IF canceled THEN late + 1 ELSE late

RecvData ==
    /\ pc = "recvData"
    /\ \/ \E m \in Arriving :
             /\ Takes(m)
             /\ IF m.type = "SCANDATA"
                THEN \E ok \in IF WriteFails THEN BOOLEAN ELSE {TRUE} : WriteData(m, ok)
                ELSE Unexpected(m) /\ UNCHANGED <<files, total_read, has_more_docs, late>>
       \/ /\ RecvFails \/ RecvInterrupted
          /\ ReturnEarly("IOERROR")
          /\ UNCHANGED <<files, total_read, has_more_docs, late, misled>>
    /\ UNCHANGED <<sock, canceled, pagecnt, used_src, page>>

\* wp->close and the way on.
ClosePage ==
    /\ pc = "close"
    /\ lsts' = IF lsts = "END_OF_PAGE" THEN "SUCCESS" ELSE lsts
    /\ pc' = IF lsts = "END_OF_PAGE" /\ used_src /\ has_more_docs THEN "top" ELSE "finish"
    /\ UNCHANGED <<scandVars, sock, canceled, pagecnt, used_src, total_read, has_more_docs,
                   files, page, late, misled>>

Finish ==
    /\ pc = "finish"
    /\ pc' = "idle"
    /\ UNCHANGED <<scandVars, sock, canceled, pagecnt, used_src, total_read, has_more_docs,
                   lsts, files, page, late, misled>>

-----------------------------------------------------------------------------
Client == \/ Top \/ SendScan \/ RecvScan \/ SendContinue \/ RecvContinue
          \/ OpenPage \/ PageTop \/ RecvData \/ ClosePage \/ Finish

Application == Open \/ CloseConnection \/ Scan \/ CancelScan

DaemonStep == Daemon /\ UNCHANGED <<sock, clientVars>>

Next == Client \/ Application \/ DaemonStep

Spec == Init /\ [][Next]_vars

\* The thread inside scan() keeps running unless it waits in recv(), and the
\* daemon answers requests and goes on with the page it scans.
FairSpec ==
    /\ Spec
    /\ WF_vars((pc \in {"recvScan", "recvContinue", "recvData"} => ~Waits) /\ Client)
    /\ WF_vars(DaemonStep /\ (ServeScan \/ ServeContinue \/ SendData \/ FailPage))

-----------------------------------------------------------------------------
(* Properties                                                              *)

TypeOK ==
    /\ ScandTypeOK
    /\ sock \in {"none", "dead", "conn"}
    /\ canceled \in BOOLEAN /\ used_src \in BOOLEAN /\ has_more_docs \in BOOLEAN
    /\ pc \in {"idle", "top", "sendScan", "recvScan", "sendContinue", "recvContinue",
               "open", "page", "recvData", "close", "finish"}
    /\ pagecnt \in Nat /\ total_read \in Nat /\ late \in Nat
    /\ lsts \in DaemonErrors \cup {"none", "REJECT", "SUCCESS", "CANCELED", "FIOERROR",
                                   "IOERROR", "END_OF_PAGE"}
    /\ files \in Seq(File) /\ Len(files) \in {pagecnt - 1, pagecnt}
    /\ page \in Image /\ misled \in BOOLEAN

\* The files of a scan hold consecutive pages of one job, each byte of a page
\* once and in its place; when scan() asks for another page or succeeds the
\* pages so far are complete.  It is so as long as the scan took no message from a
\* stream out of step.
PagesReceived == ~misled =>
    /\ \A k \in 1 .. Len(files) :
         /\ files[k].inOrder
         /\ files[k].image.page = files[1].image.page + k - 1
         /\ k < Len(files) \/ pc \in {"sendContinue", "recvContinue"} =>
              files[k].got = files[k].image.size
    /\ pc \in {"idle", "finish"} /\ lsts = "SUCCESS" =>
         /\ files # <<>>
         /\ \A k \in 1 .. Len(files) : files[k].got = files[k].image.size

\* A scan that succeeds leaves no page of its job in the feeder, unless it took a
\* message from a stream out of step.
NoPageLeft ==
    pc = "finish" /\ lsts = "SUCCESS" /\ ~misled /\ image = page => dstate # "more"

\* An error of a write ends the scan with FIOERROR, unless it was the one that
\* ended its page (604): what is missing in a file is at most its end.
WriteErrorsEnd == ~misled =>
    \A k \in 1 .. Len(files) :
        ~files[k].written => lsts = "FIOERROR" \/ files[k].got = files[k].image.size

\* What the application finds when scan() is done: files with whole pages in order,
\* the errors of its writes except those of the last message of a page, and an empty
\* feeder.
PagesSafe == TypeOK /\ PagesReceived /\ NoPageLeft /\ WriteErrorsEnd

\* After cancel_scan a running scan() sends one more request or writes one
\* more message, never both: the next look at the flag ends it.
CancelStops == late <= 1

\* The page in hand is complete: scan() is about to ask for the next one, or done.
PageEnded ==
    \/ pc \in {"sendContinue", "recvContinue"}
    \/ pc = "close" /\ lsts = "END_OF_PAGE"
    \/ pc = "top" /\ pagecnt > 0

\* scan() follows a page, and the position of its next byte.
OnPage == pc \in {"open", "page", "recvData"} \/ PageEnded
Place == IF pc = "open" THEN 0 ELSE total_read

\* The first message in the socket goes on with page im at position pos, or
\* announces the page after it; when there is none the daemon goes on there.
Continues(im, pos) ==
    /\ rx # <<>> =>
         /\ rx[1].type = "SCANDATA" => rx[1].image = im /\ rx[1].from = pos
         /\ rx[1].type = "SCANCONTINUE" => rx[1].image.page = im.page + 1
    /\ rx = <<>> =>
         /\ dstate = "page" => image = im /\ sent = pos
         /\ dstate = "more" => image = im

PageNext == OnPage /\ ~misled => torn = 0 /\ Continues(page, Place)

\* What scan() knows of the job of its page, as long as the daemon is there too.
JobKnown == ~misled =>
    /\ page.page <= image.page
    /\ PageEnded /\ pc # "close" => used_src
    /\ image.page = page.page =>
         /\ OnPage => image = page /\ adf = used_src
         /\ PageEnded => dstate # "page"
         /\ pc = "close" /\ PageEnded /\ dstate = "more" => has_more_docs
         /\ pc = "finish" /\ lsts = "SUCCESS" => dstate = "idle"

\* The page in hand and its file.
FileOfPage == ~misled =>
    /\ pc = "open" /\ files # <<>> => page.page = files[Len(files)].image.page + 1
    /\ (OnPage /\ pc # "open") \/ pc = "close" \/ (pc = "finish" /\ lsts = "SUCCESS") =>
         /\ files # <<>>
         /\ files[Len(files)].image = page /\ files[Len(files)].got = total_read
         /\ total_read <= page.size
    /\ \A k \in 1 .. Len(files) :
         k < Len(files) \/ PageEnded \/ pc = "open" => files[k].got = files[k].image.size

\* The number of files at each place of scan().
FilesKnown ==
    /\ pc \in {"sendScan", "recvScan"} => pagecnt = 1
    /\ pc \in {"sendContinue", "recvContinue"} => pagecnt > 1
    /\ pc \in {"page", "recvData", "close"} => pagecnt > 0
    /\ pc \in {"sendScan", "recvScan", "sendContinue", "recvContinue", "open"} =>
         Len(files) = pagecnt - 1
    /\ pc \in {"top", "page", "recvData", "close"} => Len(files) = pagecnt
    /\ pc = "top" => (lsts = "SUCCESS" <=> pagecnt > 0)
    /\ pc \in {"page", "recvData"} => files[Len(files)].written
    /\ pc = "close" => lsts \in {"END_OF_PAGE", "CANCELED", "FIOERROR"}

\* Where a cancel that came late may stand.
CancelSeen ==
    /\ ~canceled => late = 0
    /\ pc \in {"sendScan", "sendContinue", "recvData"} => late = 0

\* PagesSafe and CancelStops, strengthened until every step preserves them.
ClientInv ==
    /\ TypeOK /\ WireInOrder /\ PiecesFit /\ PagesInOrder
    /\ PageNext /\ JobKnown
    /\ FilesKnown /\ FileOfPage /\ PagesReceived /\ WriteErrorsEnd
    /\ CancelSeen /\ CancelStops

InPage == pc \in {"page", "recvData", "close"}
PageDone == pc \in {"top", "finish"} /\ lsts = "SUCCESS"

\* The pages of a scan keep the promise of module SaneFrame: they only grow,
\* to the size announced, and end with it or are dropped.  A page is given up when
\* the scan takes a message from a stream out of step.
Frame == INSTANCE SaneFrame WITH
            state <- CASE misled -> "none"
                       [] ~misled /\ InPage -> "active"
                       [] ~misled /\ PageDone -> "complete"
                       [] OTHER -> "none",
            need <- IF ~misled /\ (InPage \/ PageDone) THEN page.size ELSE 0,
            got <- IF ~misled /\ (InPage \/ PageDone) THEN total_read ELSE 0

ImplementsFrame == Frame!FrameSpec

\* scan() returns when the daemon answers, unless the answer was swallowed by a
\* message out of step: then it may wait for ever.
ScanReturns == pc # "idle" ~> pc = "idle" \/ misled
=============================================================================
