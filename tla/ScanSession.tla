----------------------------- MODULE ScanSession -----------------------------
(***************************************************************************)
(* One open device: products::DeviceBaseImpl (backend/odc_products.cpp),   *)
(* its connection to the scan daemon (scandif, driver/scandifc.cpp) and    *)
(* the frontend that calls sane_start, sane_read, sane_cancel and          *)
(* sane_control_option on it.                                              *)
(*                                                                         *)
(* A call is cut at its socket calls, where the daemon may answer, fail or *)
(* hang up, and, as with AsyncCancel the frontend may call sane_cancel     *)
(* from a signal handler or another thread, at the places where cancel()   *)
(* and the call it interrupts touch the same fields: between the check or  *)
(* the receive of read() and its copy, and between the receive of start()  *)
(* and its assignment of use_adf.                                          *)
(***************************************************************************)
EXTENDS Scandif, LibStatus

CONSTANTS
    MaxLengths,     \* the max_length values of sane_read
    Disciplined,    \* the frontend cancels after a failure before it goes on
    AsyncCancel     \* sane_cancel may interrupt sane_start and sane_read

ASSUME SessionAssumption ==
    /\ MaxLengths \subseteq Nat
    /\ Disciplined \in BOOLEAN /\ AsyncCancel \in BOOLEAN
    /\ \A e \in DaemonErrors : Libsts2sanests(e) \notin {"GOOD", "EOF"}

VARIABLES
    use_adf,
    scanning,
    canceled,
    scan_data_size,
    trns_data_size,
    buffer_offset,
    buffer_received,
    buffer,             \* the message whose image bytes the buffer holds
    params,             \* the cached SANE_Parameters: the mode they describe
    mode,               \* the value of the scan-mode option
    pc,                 \* where the current call stands, "idle" between calls
    req,                \* the local msg of start(): the mode it asked for
    src,                \* the local rmsg of start(): src == 2 in the response
    want,               \* the argument max_length of the current read
    phase,              \* what the frontend knows: "ready" (opened, cancelled),
                        \* "starting", "frame", "eof", "failed", or "aborted"
                        \* (it cancelled a start that was still running)
    frame,              \* the image behind the last successful start
    misled              \* a message was taken from a stream out of step since
                        \* the last sane_start

deviceVars == <<use_adf, scanning, canceled, scan_data_size, trns_data_size,
                buffer_offset, buffer_received, buffer, params, mode>>
callVars == <<pc, req, src, want, phase, frame, misled>>
vars == <<scandVars, sock, deviceVars, callVars>>

\* params is not written by the constructor: a read of it before the first
\* successful start finds whatever the memory held.
Garbage == "garbage"

NoData == ScanData(image, 0, 0, FALSE)

Init ==
    /\ ScandInit
    /\ sock = "none"
    /\ use_adf = FALSE /\ scanning = FALSE /\ canceled = FALSE
    /\ scan_data_size \in {0} \cup Sizes    \* left uninitialised by the constructor
    /\ trns_data_size = 0
    /\ buffer_offset = 0 /\ buffer_received = 0
    /\ buffer = NoData
    /\ params = Garbage
    /\ mode \in Modes /\ req = mode
    /\ pc = "idle"
    /\ src = FALSE /\ want = 0
    /\ phase = "ready"
    /\ frame = image /\ misled = FALSE

\* The call returns with SANE status s.  A frontend that interrupted the call
\* with sane_cancel knows that it gave up the scan, whatever s is.
Return(s) ==
    /\ pc' = "idle"
    /\ phase' = IF phase \in {"ready", "aborted"} THEN phase
                ELSE IF s = "GOOD" THEN IF phase = "starting" THEN "frame" ELSE phase
                ELSE IF s = "EOF" /\ phase = "frame" THEN "eof" ELSE "failed"

-----------------------------------------------------------------------------
(* start                                                                   *)

MayStart == Disciplined => phase \in {"ready", "eof"}

\* Mutations of StartCall.
StartCall_KeepsCount ==
    /\ pc = "idle" /\ MayStart
    /\ pc' = "start" /\ phase' = "starting" /\ misled' = FALSE
    /\ canceled' = FALSE
    /\ scanning' = TRUE
    /\ buffer_offset' = 0 /\ buffer_received' = 0
    /\ UNCHANGED <<scandVars, sock, use_adf, scan_data_size, trns_data_size, buffer, params,
                   mode, req, src, want, frame>>

StartCall_KeepsBuffer ==
    /\ pc = "idle" /\ MayStart
    /\ pc' = "start" /\ phase' = "starting" /\ misled' = FALSE
    /\ trns_data_size' = 0
    /\ canceled' = FALSE
    /\ scanning' = TRUE
    /\ UNCHANGED <<scandVars, sock, use_adf, scan_data_size, buffer_offset, buffer_received,
                   buffer, params, mode, req, src, want, frame>>

StartCall_NotScanning ==
    /\ pc = "idle" /\ MayStart
    /\ pc' = "start" /\ phase' = "starting" /\ misled' = FALSE
    /\ trns_data_size' = 0
    /\ canceled' = FALSE
    /\ buffer_offset' = 0 /\ buffer_received' = 0
    /\ UNCHANGED <<scandVars, sock, use_adf, scanning, scan_data_size, buffer, params, mode,
                   req, src, want, frame>>

StartCall ==
    /\ pc = "idle" /\ MayStart
    /\ pc' = "start" /\ phase' = "starting" /\ misled' = FALSE
    /\ trns_data_size' = 0
    /\ canceled' = FALSE
    /\ scanning' = TRUE
    /\ buffer_offset' = 0 /\ buffer_received' = 0
    /\ UNCHANGED <<scandVars, sock, use_adf, scan_data_size, buffer, params, mode,
                   req, src, want, frame>>

\* Top of the loop without an ADF job: connect unless there is a connection.
StartConnect ==
    /\ pc = "start" /\ ~use_adf
    /\ \/ /\ IsOpen
          /\ pc' = "sendScan" /\ UNCHANGED <<scandVars, sock, phase>>
       \/ /\ ~IsOpen
          /\ OpenSucceeds
          /\ pc' = "sendScan" /\ UNCHANGED phase
       \/ /\ ~IsOpen
          /\ OpenFails
          /\ Return("INVAL")
    /\ UNCHANGED <<deviceVars, req, src, want, frame, misled>>

\* Mutation of StartSend: the parameters stay those of the last request.
StartSend_KeepsParams ==
    /\ pc = "sendScan"
    /\ \/ /\ sock = "conn" /\ Send([type |-> "SCAN", mode |-> mode])
          /\ pc' = "recvScan" /\ UNCHANGED <<sock, phase, req>>
       \/ Close /\ Return("INVAL") /\ UNCHANGED req
    /\ UNCHANGED <<deviceVars, src, want, frame, misled>>

\* build_scanreq and send_message: a SCAN request.
StartSend ==
    /\ pc = "sendScan"
    /\ \/ /\ sock = "conn" /\ Send([type |-> "SCAN", mode |-> mode])
          /\ req' = mode /\ pc' = "recvScan" /\ UNCHANGED <<sock, phase>>
       \/ Close /\ Return("INVAL") /\ UNCHANGED req
    /\ UNCHANGED <<deviceVars, src, want, frame, misled>>

\* receive_message succeeds with m.
Takes(m) == Receives(m) /\ misled' = (misled \/ torn > 0)

\* Mutation of StartReply: the size of the new image is not noted.
StartReply_KeepsSize(m) ==
    CASE m.type = "SCAN" ->
            /\ pc' = "gotScan" /\ src' = m.adf
            /\ params' = req
            /\ frame' = m.image /\ UNCHANGED <<scan_data_size, phase>>
      [] m.type = "ERRORSTATUS" ->
            Return(Libsts2sanests(m.status)) /\ UNCHANGED <<src, scan_data_size, params, frame>>
      [] OTHER ->
            Return("INVAL") /\ UNCHANGED <<src, scan_data_size, params, frame>>

\* Of what start() takes from the response a cancel only touches use_adf: the
\* other fields are set with the receive.
StartReply(m) ==
    CASE m.type = "SCAN" ->
            /\ pc' = "gotScan" /\ src' = m.adf
            /\ scan_data_size' = m.image.size
            /\ params' = req
            /\ frame' = m.image /\ UNCHANGED phase
      [] m.type = "ERRORSTATUS" ->
            Return(Libsts2sanests(m.status)) /\ UNCHANGED <<src, scan_data_size, params, frame>>
      [] OTHER ->
            Return("INVAL") /\ UNCHANGED <<src, scan_data_size, params, frame>>

StartRecv ==
    /\ pc = "recvScan"
    /\ \/ \E m \in Arriving : Takes(m) /\ StartReply(m)
       \/ /\ RecvFails \/ RecvInterrupted
          /\ Return("INVAL") /\ UNCHANGED <<src, scan_data_size, params, frame, misled>>
    /\ UNCHANGED <<sock, use_adf, scanning, canceled, trns_data_size, buffer_offset,
                   buffer_received, buffer, mode, req, want>>

\* The job is one of the ADF, also when a cancel has closed its connection.
StartDone ==
    /\ pc = "gotScan"
    /\ use_adf' = src /\ src' = FALSE
    /\ Return("GOOD")
    /\ UNCHANGED <<scandVars, sock, scanning, canceled, scan_data_size, trns_data_size,
                   buffer_offset, buffer_received, buffer, params, mode, req, want, frame,
                   misled>>

\* Top of the loop with an ADF job: ask for its next page, on the connection
\* as it is.
ContinueSend ==
    /\ pc = "start" /\ use_adf
    /\ \/ /\ sock = "conn" /\ Send([type |-> "SCANCONTINUE", mode |-> mode])
          /\ pc' = "recvContinue" /\ UNCHANGED <<sock, phase>>
       \/ Close /\ Return("INVAL")
    /\ UNCHANGED <<deviceVars, req, src, want, frame, misled>>

\* Mutation of ContinueReply: after the last page it still asks for another.
ContinueReply_KeepsAdf(m) ==
    CASE m.type = "SCANCONTINUE" ->
            Return("GOOD") /\ frame' = m.image /\ UNCHANGED use_adf
      [] m.type = "ERRORSTATUS" /\ m.status = "REJECT" ->
            pc' = "start" /\ UNCHANGED <<use_adf, phase, frame>>
      [] m.type = "ERRORSTATUS" /\ m.status # "REJECT" ->
            Return(Libsts2sanests(m.status)) /\ UNCHANGED <<use_adf, frame>>
      [] OTHER ->
            Return("INVAL") /\ UNCHANGED <<use_adf, frame>>

ContinueReply(m) ==
    CASE m.type = "SCANCONTINUE" ->
            Return("GOOD") /\ frame' = m.image /\ UNCHANGED use_adf
      [] m.type = "ERRORSTATUS" /\ m.status = "REJECT" ->
            \* no more pages: start over with a SCAN request
            pc' = "start" /\ use_adf' = FALSE /\ UNCHANGED <<phase, frame>>
      [] m.type = "ERRORSTATUS" /\ m.status # "REJECT" ->
            Return(Libsts2sanests(m.status)) /\ UNCHANGED <<use_adf, frame>>
      [] OTHER ->
            Return("INVAL") /\ UNCHANGED <<use_adf, frame>>

ContinueRecv ==
    /\ pc = "recvContinue"
    /\ \/ \E m \in Arriving : Takes(m) /\ ContinueReply(m)
       \/ /\ RecvFails \/ RecvInterrupted
          /\ Return("INVAL") /\ UNCHANGED <<use_adf, frame, misled>>
    /\ UNCHANGED <<sock, scanning, canceled, scan_data_size, trns_data_size, buffer_offset,
                   buffer_received, buffer, params, mode, req, src, want>>

-----------------------------------------------------------------------------
(* read                                                                    *)

MayRead == Disciplined => phase \in {"ready", "frame", "aborted"}

\* Mutations of CopyOut: it copies what the frontend asks for, whatever there
\* is, and it takes the position in the buffer for the length of the copy.
CopyOut_NoClamp ==
    /\ buffer_offset' = buffer_offset + want
    /\ trns_data_size' = trns_data_size + want
    /\ scanning' = (scanning /\ (buffer_received = 0 \/ scan_data_size > trns_data_size'))

Remaining == buffer_received - buffer_offset

CopyOut_LosesOffset ==
    LET cpsz == IF want > Remaining THEN Remaining ELSE want IN
    /\ buffer_offset' = cpsz
    /\ trns_data_size' = trns_data_size + cpsz
    /\ scanning' = (scanning /\ (buffer_received = 0 \/ scan_data_size > trns_data_size'))

\* memcpy of what the buffer still holds, at most the length asked for, and
\* the counters.
CopyOut ==
    LET cpsz == IF want > Remaining THEN Remaining ELSE want IN
    /\ buffer_offset' = buffer_offset + cpsz
    /\ trns_data_size' = trns_data_size + cpsz
    /\ scanning' = (scanning /\ (buffer_received = 0 \/ scan_data_size > trns_data_size'))

HasData == buffer_received > 0 /\ Remaining > 0

\* Mutations of AtEnd: one byte too early, and only past the end.
AtEnd_Early == trns_data_size > 0 /\ scan_data_size <= trns_data_size + 1

AtEnd_Late == trns_data_size > 0 /\ scan_data_size < trns_data_size

AtEnd == trns_data_size > 0 /\ scan_data_size <= trns_data_size

\* Mutation of ReadClosed: a connection that is gone means the end of the image.
ReadClosed_Eof ==
    /\ pc = "idle" /\ MayRead /\ ~IsOpen
    /\ Close
    /\ Return(IF canceled THEN "CANCELLED" ELSE "EOF")
    /\ UNCHANGED <<deviceVars, req, src, want, frame, misled>>

\* The connection is gone: is_open has closed the socket.
ReadClosed ==
    /\ pc = "idle" /\ MayRead /\ ~IsOpen
    /\ Close
    /\ Return(IF canceled THEN "CANCELLED" ELSE "INVAL")
    /\ UNCHANGED <<deviceVars, req, src, want, frame, misled>>

\* The connection is there and the buffer has bytes of the last message.
ReadBuffered(n) ==
    /\ pc = "idle" /\ MayRead /\ IsOpen /\ HasData
    /\ pc' = "copy" /\ want' = n
    /\ UNCHANGED <<scandVars, sock, deviceVars, req, src, phase, frame, misled>>

ReadEof ==
    /\ pc = "idle" /\ MayRead /\ IsOpen /\ ~HasData /\ AtEnd
    /\ scanning' = FALSE
    /\ Return("EOF")
    /\ UNCHANGED <<scandVars, sock, use_adf, canceled, scan_data_size, trns_data_size,
                   buffer_offset, buffer_received, buffer, params, mode, req, src, want, frame,
                   misled>>

\* Nothing to hand out: wait for the next message.
ReadWait(n) ==
    /\ pc = "idle" /\ MayRead /\ IsOpen /\ ~HasData /\ ~AtEnd
    /\ pc' = "recvData" /\ want' = n
    /\ UNCHANGED <<scandVars, sock, deviceVars, req, src, phase, frame, misled>>

ReadMessage(m) ==
    CASE m.type = "SCANDATA" ->
            /\ buffer' = m /\ buffer_offset' = 0 /\ buffer_received' = m.size
            /\ pc' = "copy" /\ UNCHANGED <<want, phase>>
      [] m.type = "ERRORSTATUS" ->
            /\ Return(Libsts2sanests(m.status)) /\ want' = 0
            /\ UNCHANGED <<buffer, buffer_offset, buffer_received>>
      [] OTHER ->
            /\ Return("INVAL") /\ want' = 0
            /\ UNCHANGED <<buffer, buffer_offset, buffer_received>>

\* NODATA (RecvInterrupted) goes round the loop: no step.
ReadRecv ==
    /\ pc = "recvData"
    /\ \/ \E m \in Arriving : Takes(m) /\ ReadMessage(m)
       \/ /\ RecvFails
          /\ Return("INVAL") /\ want' = 0
          /\ UNCHANGED <<buffer, buffer_offset, buffer_received, misled>>
    /\ UNCHANGED <<sock, use_adf, scanning, canceled, scan_data_size, trns_data_size, params,
                   mode, req, src, frame>>

\* The bytes go to the frontend, whatever a cancel has done meanwhile.
ReadCopy ==
    /\ pc = "copy"
    /\ CopyOut
    /\ Return("GOOD") /\ want' = 0
    /\ UNCHANGED <<scandVars, sock, use_adf, canceled, scan_data_size, buffer_received, buffer,
                   params, mode, req, src, frame, misled>>

Read == \/ ReadClosed
        \/ ReadEof
        \/ \E n \in MaxLengths : ReadBuffered(n) \/ ReadWait(n)

-----------------------------------------------------------------------------
(* cancel, set_value of the scan mode, get_parameters                      *)

\* No call is running, or a read.
Reading == {"idle", "recvData", "copy"}

\* Mutations of Cancel: the connection is kept, always or for an ADF job.
Cancel_KeepsConnection ==
    /\ pc = "idle" \/ AsyncCancel
    /\ IF IsOpen /\ scanning /\ ~canceled
       THEN canceled' = TRUE /\ scanning' = FALSE
       ELSE UNCHANGED <<canceled, scanning>>
    /\ use_adf' = FALSE
    /\ phase' = IF pc \in Reading THEN "ready" ELSE "aborted"
    /\ UNCHANGED <<scandVars, sock, scan_data_size, trns_data_size, buffer_offset,
                   buffer_received, buffer, params, mode, pc, req, src, want, frame, misled>>

Cancel_KeepsAdfConnection ==
    /\ pc = "idle" \/ AsyncCancel
    /\ IF IsOpen /\ scanning /\ ~canceled
       THEN canceled' = TRUE /\ scanning' = FALSE
       ELSE UNCHANGED <<canceled, scanning>>
    /\ IF use_adf THEN UNCHANGED <<scandVars, sock>> ELSE Close
    /\ use_adf' = FALSE
    /\ phase' = IF pc \in Reading THEN "ready" ELSE "aborted"
    /\ UNCHANGED <<scan_data_size, trns_data_size, buffer_offset, buffer_received, buffer,
                   params, mode, pc, req, src, want, frame, misled>>

\* A cancel that finds no connection leaves canceled and scanning alone.
\* When it interrupts a start, that start may go on and connect after it.
Cancel ==
    /\ pc = "idle" \/ AsyncCancel
    /\ IF IsOpen /\ scanning /\ ~canceled
       THEN canceled' = TRUE /\ scanning' = FALSE
       ELSE UNCHANGED <<canceled, scanning>>
    /\ Close
    /\ use_adf' = FALSE
    /\ phase' = IF pc \in Reading THEN "ready" ELSE "aborted"
    /\ UNCHANGED <<scan_data_size, trns_data_size, buffer_offset, buffer_received, buffer,
                   params, mode, pc, req, src, want, frame, misled>>

\* control_option does not ask whether a scan is running.
SetMode(m) ==
    /\ pc = "idle"
    /\ mode' = m
    /\ UNCHANGED <<scandVars, sock, use_adf, scanning, canceled, scan_data_size,
                   trns_data_size, buffer_offset, buffer_received, buffer, params, callVars>>

\* Mutation of GetParameters: it always describes the options.
GetParameters_Options == mode

\* The mode that get_parameters describes.
GetParameters == IF scanning THEN params ELSE mode

-----------------------------------------------------------------------------
Device == \/ StartConnect \/ StartSend \/ StartRecv \/ StartDone
          \/ ContinueSend \/ ContinueRecv
          \/ ReadRecv \/ ReadCopy

Frontend == \/ StartCall \/ Read \/ Cancel
            \/ \E m \in Modes : SetMode(m)

DaemonStep == Daemon /\ UNCHANGED <<sock, deviceVars, callVars>>

Next == Device \/ Frontend \/ DaemonStep

Spec == Init /\ [][Next]_vars

\* The thread inside a call keeps running unless it waits in recv(), the
\* daemon answers requests and goes on with the page it scans, and the frontend
\* goes on reading a frame.
Fairness ==
    /\ WF_vars((pc \in {"recvScan", "recvContinue", "recvData"} => ~Waits) /\ Device)
    /\ WF_vars(Read)
    /\ WF_vars(DaemonStep /\ (ServeScan \/ ServeContinue \/ SendData \/ FailPage))

FairSpec == Spec /\ Fairness

-----------------------------------------------------------------------------
(* Properties                                                              *)

\* Every variable stays in the set of values its C++ declaration and its
\* use admit.
TypeOK ==
    /\ ScandTypeOK
    /\ sock \in {"none", "dead", "conn"}
    /\ use_adf \in BOOLEAN /\ scanning \in BOOLEAN /\ canceled \in BOOLEAN
    /\ scan_data_size \in Nat /\ trns_data_size \in Nat
    /\ buffer_offset \in Nat /\ buffer_received \in Nat
    /\ buffer \in Message
    /\ params \in Modes \cup {Garbage}
    /\ mode \in Modes /\ req \in Modes
    /\ pc \in {"idle", "start", "sendScan", "recvScan", "gotScan", "recvContinue",
               "recvData", "copy"}
    /\ src \in BOOLEAN /\ want \in Nat
    /\ phase \in {"ready", "starting", "frame", "eof", "failed", "aborted"}
    /\ frame \in Image /\ misled \in BOOLEAN

\* The memcpy of read() stays inside the bytes received into the buffer, also
\* when a cancel comes between its check and its copy; and, as long as the
\* stream was never out of step, what was received fits the buffer.
CopyInBounds ==
    /\ buffer_offset <= buffer_received
    /\ ~misled => buffer_received <= MaxChunk

\* What read() hands out next is byte number trns_data_size of the image
\* the frontend's current frame shows: across partial reads, page changes,
\* failures and reconnections no byte is lost, repeated, reordered or taken
\* from another page, unless sane_start and sane_read were called on a
\* connection on which a message had been given up half read.
InOrder ==
    phase = "frame" /\ ~misled /\ buffer_offset < buffer_received =>
        /\ buffer.image = frame
        /\ buffer.from + buffer_offset = trns_data_size

\* The position in the image of the next byte that a read takes from the socket.
Position == trns_data_size + (buffer_received - buffer_offset)

\* start() has the response, or the frontend has its frame.
Announced == phase = "frame" \/ pc = "gotScan"

\* The first message in the socket continues what the frontend and the buffer
\* have, and when there is none the daemon sends next what the frontend lacks.
ReadNext ==
    Announced /\ ~misled =>
      /\ torn = 0
      /\ rx # <<>> /\ rx[1].type = "SCANDATA" =>
           rx[1].image = frame /\ rx[1].from = Position
      /\ rx = <<>> /\ dstate = "page" =>
           image = frame /\ sent = Position

\* What holds of the fields while a call waits in the middle.
CallState ==
    /\ phase = "starting" => pc \notin Reading
    /\ phase \in {"frame", "eof", "failed"} => pc \in Reading
    /\ pc \notin Reading =>
         trns_data_size = 0 /\ buffer_offset = 0 /\ buffer_received = 0
    /\ pc = "recvData" => buffer_offset = buffer_received
    /\ pc # "gotScan" => ~src

\* InOrder and CopyInBounds, strengthened until every step preserves them.
StreamInv == TypeOK /\ CallState /\ CopyInBounds /\ WireInOrder /\ ReadNext /\ InOrder

\* sane_read reports the end of a frame after every byte of the image, and
\* never hands out more bytes than the image has.
EofComplete ==
    /\ phase = "eof" => trns_data_size = frame.size
    /\ phase = "frame" => trns_data_size <= frame.size

\* As long as a frame lacks bytes, get_parameters describes the image that
\* is delivered, whatever the frontend does to the options meanwhile.
ParamsOfFrame ==
    phase = "frame" /\ trns_data_size < frame.size => GetParameters = frame.mode

Awaiting == pc \in {"recvScan", "recvContinue"}

\* start() never takes image bytes left over from an earlier page for the
\* answer to its request.
ReplyIsNotData ==
    Awaiting /\ rx # <<>> => Head(rx).type # "SCANDATA"

\* Without a connection nothing is on its way, and after a cancel there is none.
Offline ==
    /\ sock # "conn" => rx = <<>> /\ tx = <<>> /\ ~peer /\ dstate = "idle" /\ torn = 0
    /\ phase = "ready" => sock # "conn" /\ ~use_adf /\ pc \in Reading

\* A frontend that cancels after every failure goes on with a stream that is out
\* of step only when the failure was one of a start it had cancelled.
InStep ==
    torn > 0 \/ misled => phase \in {"failed", "aborted", "ready"} /\ pc \in Reading

\* The messages that answer a request, and only that.
Answer(m) == \/ m.type \in {"SCAN", "SCANCONTINUE"}
             \/ m.type = "ERRORSTATUS" /\ m.status = "REJECT"

Answers == {i \in 1 .. Len(rx) : Answer(rx[i])}

\* A request is answered at most once, and what answers it is on its way only
\* while start() waits for it.
OneAnswer ==
    /\ Len(tx) <= 1
    /\ ~Awaiting => tx = <<>> /\ Answers = {}
    /\ tx # <<>> => Answers = {}
    /\ \A i, j \in Answers : i = j

\* The answer announces what was asked for: after SCAN the mode of the request,
\* after SCANCONTINUE a page like the one before.
AnswerFits ==
    /\ pc \in {"sendScan", "recvScan"} => ~use_adf
    /\ pc = "recvContinue" => use_adf
    /\ pc = "recvScan" =>
         /\ tx # <<>> => tx[1] = [type |-> "SCAN", mode |-> req]
         /\ \A i \in 1 .. Len(rx) : rx[i].type = "SCAN" =>
              rx[i].image.mode = req /\ image.mode = req /\ rx[i].image.size = image.size
    /\ pc = "recvContinue" =>
         /\ tx # <<>> => tx[1].type = "SCANCONTINUE"
         /\ \A i \in 1 .. Len(rx) : rx[i].type = "SCANCONTINUE" =>
              rx[i].image.mode = params /\ rx[i].image.size = scan_data_size
    /\ use_adf \/ pc = "gotScan" => image.mode = params /\ image.size = scan_data_size

Live == phase \in {"starting", "frame", "eof"}

\* The device and the frontend agree on the frame.
FrameKnown ==
    /\ Live /\ (Announced \/ phase = "eof") =>
         scan_data_size = frame.size /\ params = frame.mode
    /\ phase = "starting" => scanning
    /\ phase = "frame" =>
         Position <= frame.size /\ (trns_data_size < frame.size => scanning)
    /\ phase = "eof" => trns_data_size = frame.size /\ pc = "idle"

\* Behind the end of a frame no piece of it is left to receive or to send.
NoneLeft ==
    phase = "eof" \/ pc \notin Reading \cup {"gotScan"} =>
      /\ rx # <<>> => rx[1].type # "SCANDATA"
      /\ rx = <<>> => dstate # "page"

\* EofComplete, ParamsOfFrame and ReplyIsNotData, strengthened until every step
\* preserves them: what the device knows of the image is what the daemon sends.
FrameInv ==
    /\ PiecesFit /\ Offline
    /\ Disciplined => InStep /\ FrameKnown /\ (Live => OneAnswer /\ AnswerFits)
    /\ Disciplined /\ ~Trailers => NoneLeft

\* The frontend has cancelled and no call can hand out bytes any more: none was
\* past its check or its receive when the cancel came, and a start that it
\* interrupted had the connection behind it.
Stopped == /\ pc # "copy"
           /\ \/ phase = "ready"
              \/ phase = "aborted" /\ sock # "conn" /\ pc # "start"

\* Once the frontend has cancelled, no call hands out image bytes until the
\* next sane_start: neither a read that begins later nor one that waited for
\* its message, nor a read after a start that had sent its request.  A read that
\* was about to copy may still hand out that one piece; a start that was about
\* to connect is not stopped.
NoDataAfterCancel ==
    [][Stopped => /\ trns_data_size' <= trns_data_size
                  /\ Stopped' \/ phase' = "starting"]_vars

\* sane_start, sane_read and sane_cancel keep the promise of module SaneFrame:
\* a frame only grows, to the size announced, and ends with it or is dropped.
Frame == INSTANCE SaneFrame WITH
            state <- CASE phase = "frame" -> "active"
                       [] phase = "eof" -> "complete"
                       [] OTHER -> "none",
            need <- IF phase \in {"frame", "eof"} THEN frame.size ELSE 0,
            got <- IF phase \in {"frame", "eof"} THEN trns_data_size ELSE 0

ImplementsFrame == Frame!FrameSpec

\* Every call returns: neither start() nor read() waits for ever for a
\* daemon that answers.
CallsReturn == pc # "idle" ~> pc = "idle"

\* A frontend that keeps reading reaches the end of the frame or an error.
FramesEnd == phase = "frame" ~> phase # "frame"
=============================================================================
