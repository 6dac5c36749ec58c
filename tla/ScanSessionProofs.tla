-------------------------- MODULE ScanSessionProofs --------------------------
(***************************************************************************)
(* Theorems about ScanSession, for every set of modes, image sizes, chunk  *)
(* and read lengths, for a frontend that follows the protocol or does not, *)
(* with and without asynchronous cancels.                                  *)
(***************************************************************************)
EXTENDS ScanSession, ScandProofs

-----------------------------------------------------------------------------
(* Type correctness.                                                       *)

\* A call that returns leaves the frontend with one of the outcomes of a call.
LEMMA ReturnType ==
    ASSUME NEW s, Return(s), TypeOK
    PROVE  /\ pc' = "idle" /\ phase' \in {"ready", "frame", "eof", "failed", "aborted"}
           /\ phase' = "frame" => s = "GOOD" /\ phase \in {"starting", "frame"}
  BY DEF Return, TypeOK

\* The copy of read() moves the two counters by what it copied, which is
\* what the buffer has left or less.
LEMMA CopyOutEffect ==
    ASSUME TypeOK, CopyOut
    PROVE  \E cpsz \in Int :
             /\ buffer_offset' = buffer_offset + cpsz
             /\ trns_data_size' = trns_data_size + cpsz
             /\ cpsz <= buffer_received - buffer_offset
             /\ buffer_offset <= buffer_received => cpsz \in Nat
             /\ scanning' \in BOOLEAN
  <1> DEFINE cpsz == IF want > Remaining THEN Remaining ELSE want
  <1>1. /\ cpsz \in Int /\ cpsz <= buffer_received - buffer_offset
        /\ buffer_offset <= buffer_received => cpsz \in Nat
    BY DEF TypeOK, Remaining
  <1>2. buffer_offset' = buffer_offset + cpsz /\ trns_data_size' = trns_data_size + cpsz
    BY DEF CopyOut
  <1>3. scanning' \in BOOLEAN
    BY Zenon DEF CopyOut, TypeOK
  <1> QED  BY <1>1, <1>2, <1>3

LEMMA TypeInit == Init => TypeOK
  <1> SUFFICES ASSUME Init PROVE TypeOK
    OBVIOUS
  <1> USE ScandAssumption DEF Init
  <1>1. image \in Image
    BY DEF ScandInit, Image
  <1>2. ScandTypeOK
    BY <1>1, EmptySeq DEF ScandInit, ScandTypeOK
  <1>3. buffer \in Message
    BY <1>1, ScanDataType DEF NoData
  <1>4. scan_data_size \in Nat
    OBVIOUS
  <1> QED  BY <1>1, <1>2, <1>3, <1>4 DEF TypeOK

LEMMA TypeStep == TypeOK /\ CopyInBounds /\ [Next]_vars => TypeOK'
  <1> SUFFICES ASSUME TypeOK, CopyInBounds, [Next]_vars PROVE TypeOK'
    OBVIOUS
  <1>0. ScandTypeOK
    BY DEF TypeOK
  <1> DEFINE Phases == {"ready", "starting", "frame", "eof", "failed", "aborted"}
  <1>1. CASE StartCall
    <2>1. ScandTypeOK'
      BY <1>0, <1>1, SocketCallsType DEF StartCall
    <2> QED  BY <1>1, <2>1 DEF TypeOK, StartCall
  <1>2. CASE StartConnect
    <2>1. ScandTypeOK'
      BY <1>0, <1>2, SocketCallsType DEF StartConnect, OpenSucceeds, OpenFails
    <2>2. sock' \in {"none", "dead", "conn"} /\ pc' \in {"sendScan", "idle"} /\ phase' \in Phases
      BY <1>2, ReturnType DEF StartConnect, OpenSucceeds, OpenFails, TypeOK
    <2> QED  BY <1>2, <2>1, <2>2 DEF TypeOK, StartConnect, deviceVars
  <1>3. CASE StartSend
    <2>1. [type |-> "SCAN", mode |-> mode] \in Request
      BY DEF TypeOK, Request
    <2>2. ScandTypeOK'
      BY <1>0, <1>3, <2>1, SocketCallsType DEF StartSend, Close
    <2>3. /\ sock' \in {"none", "dead", "conn"} /\ req' \in Modes
          /\ pc' \in {"recvScan", "idle"} /\ phase' \in Phases
      BY <1>3, ReturnType DEF StartSend, TypeOK, Close
    <2> QED  BY <1>3, <2>2, <2>3 DEF TypeOK, StartSend, deviceVars
  <1>4. CASE StartRecv
    <2>1. ScandTypeOK'
      BY <1>0, <1>4, SocketCallsType DEF StartRecv, Takes, Receives, RecvFails, RecvInterrupted
    <2>2. pc' \in {"gotScan", "idle"} /\ phase' \in Phases
      BY <1>4, ReturnType DEF StartRecv, StartReply, TypeOK
    <2>3. /\ src' \in BOOLEAN /\ scan_data_size' \in Nat /\ misled' \in BOOLEAN
          /\ params' \in Modes \cup {Garbage} /\ frame' \in Image
      <3>1. ASSUME NEW m \in Arriving, Takes(m), StartReply(m)
            PROVE  /\ src' \in BOOLEAN /\ scan_data_size' \in Nat /\ misled' \in BOOLEAN
                   /\ params' \in Modes \cup {Garbage} /\ frame' \in Image
        <4>1. m \in Message
          BY <1>0, ArrivingType DEF ScandTypeOK
        <4>2. m.adf \in BOOLEAN /\ m.image \in Image /\ m.image.size \in Nat
          BY <4>1, ScandAssumption DEF Message, Image
        <4>3. src' \in BOOLEAN /\ misled' \in BOOLEAN
          BY <3>1, <4>2, Zenon DEF StartReply, Takes, TypeOK
        <4> QED  BY <3>1, <4>2, <4>3 DEF StartReply, TypeOK
      <3>2. CASE UNCHANGED <<src, scan_data_size, params, frame, misled>>
        BY <3>2 DEF TypeOK
      <3> QED  BY <1>4, <3>1, <3>2 DEF StartRecv
    <2> QED  BY <1>4, <2>1, <2>2, <2>3 DEF TypeOK, StartRecv
  <1>a. CASE StartDone
    <2>1. ScandTypeOK'
      BY <1>0, <1>a, SocketCallsType DEF StartDone
    <2>2. pc' = "idle" /\ phase' \in Phases
      BY <1>a, ReturnType DEF StartDone
    <2> QED  BY <1>a, <2>1, <2>2 DEF TypeOK, StartDone
  <1>5. CASE ContinueSend
    <2>1. [type |-> "SCANCONTINUE", mode |-> mode] \in Request
      BY DEF TypeOK, Request
    <2>2. ScandTypeOK'
      BY <1>0, <1>5, <2>1, SocketCallsType DEF ContinueSend, Close
    <2>3. sock' \in {"none", "dead", "conn"} /\ pc' \in {"recvContinue", "idle"} /\ phase' \in Phases
      BY <1>5, ReturnType DEF ContinueSend, TypeOK, Close
    <2> QED  BY <1>5, <2>2, <2>3 DEF TypeOK, ContinueSend, deviceVars
  <1>6. CASE ContinueRecv
    <2>1. ScandTypeOK'
      BY <1>0, <1>6, SocketCallsType DEF ContinueRecv, Takes, Receives, RecvFails, RecvInterrupted
    <2>2. pc' \in {"idle", "start"} /\ use_adf' \in BOOLEAN /\ phase' \in Phases
      BY <1>6, ReturnType DEF ContinueRecv, ContinueReply, TypeOK
    <2>3. frame' \in Image /\ misled' \in BOOLEAN
      <3>1. ASSUME NEW m \in Arriving, Takes(m), ContinueReply(m)
            PROVE  frame' \in Image /\ misled' \in BOOLEAN
        <4>1. m.image \in Image
          BY <1>0, ArrivingType DEF ScandTypeOK, Message
        <4>2. misled' \in BOOLEAN
          BY <3>1, Zenon DEF Takes, TypeOK
        <4> QED  BY <3>1, <4>1, <4>2 DEF ContinueReply, TypeOK
      <3>2. CASE UNCHANGED <<use_adf, frame, misled>>
        BY <3>2 DEF TypeOK
      <3> QED  BY <1>6, <3>1, <3>2 DEF ContinueRecv
    <2> QED  BY <1>6, <2>1, <2>2, <2>3 DEF TypeOK, ContinueRecv
  <1>7. CASE ReadClosed
    <2>1. ScandTypeOK'
      BY <1>0, <1>7, SocketCallsType DEF ReadClosed, Close
    <2>2. pc' = "idle" /\ phase' \in Phases
      BY <1>7, ReturnType DEF ReadClosed
    <2> QED  BY <1>7, <2>1, <2>2 DEF TypeOK, ReadClosed, Close, deviceVars
  <1>8. CASE ReadEof
    <2>1. ScandTypeOK'
      BY <1>0, <1>8, SocketCallsType DEF ReadEof
    <2>2. pc' = "idle" /\ phase' \in Phases
      BY <1>8, ReturnType DEF ReadEof
    <2> QED  BY <1>8, <2>1, <2>2 DEF TypeOK, ReadEof
  <1>9. ASSUME NEW n \in MaxLengths, ReadBuffered(n) \/ ReadWait(n) PROVE TypeOK'
    <2>1. ScandTypeOK'
      BY <1>0, <1>9, SocketCallsType DEF ReadBuffered, ReadWait
    <2> QED  BY <1>9, <2>1, SessionAssumption DEF TypeOK, ReadBuffered, ReadWait, deviceVars
  <1>10. CASE ReadCopy
    <2>1. ScandTypeOK'
      BY <1>0, <1>10, SocketCallsType DEF ReadCopy
    <2>2. pc' = "idle" /\ phase' \in Phases
      BY <1>10, ReturnType DEF ReadCopy
    <2>3. buffer_offset' \in Nat /\ trns_data_size' \in Nat /\ scanning' \in BOOLEAN
      BY <1>10, CopyOutEffect DEF ReadCopy, TypeOK, CopyInBounds
    <2> QED  BY <1>10, <2>1, <2>2, <2>3 DEF TypeOK, ReadCopy
  <1>11. CASE ReadRecv
    <2>1. ScandTypeOK'
      BY <1>0, <1>11, SocketCallsType DEF ReadRecv, Takes, Receives, RecvFails
    <2>2. pc' \in {"copy", "idle"} /\ phase' \in Phases /\ want' \in Nat
      BY <1>11, ReturnType DEF ReadRecv, ReadMessage, TypeOK
    <2>3. /\ buffer' \in Message /\ misled' \in BOOLEAN
          /\ buffer_offset' \in Nat /\ buffer_received' \in Nat
      <3>1. ASSUME NEW m \in Arriving, Takes(m), ReadMessage(m)
            PROVE  /\ buffer' \in Message /\ misled' \in BOOLEAN
                   /\ buffer_offset' \in Nat /\ buffer_received' \in Nat
        <4>1. m \in Message /\ m.size \in Nat
          BY <1>0, ArrivingType DEF ScandTypeOK, Message
        <4>2. misled' \in BOOLEAN
          BY <3>1, Zenon DEF Takes, TypeOK
        <4> QED  BY <3>1, <4>1, <4>2 DEF ReadMessage, TypeOK
      <3>2. CASE UNCHANGED <<buffer, buffer_offset, buffer_received, misled>>
        BY <3>2 DEF TypeOK
      <3> QED  BY <1>11, <3>1, <3>2 DEF ReadRecv
    <2> QED  BY <1>11, <2>1, <2>2, <2>3 DEF TypeOK, ReadRecv
  <1>12. CASE Cancel
    <2>1. ScandTypeOK'
      BY <1>0, <1>12, SocketCallsType DEF Cancel, Close
    <2> QED  BY <1>12, <2>1 DEF TypeOK, Cancel, Close
  <1>13. ASSUME NEW m \in Modes, SetMode(m) PROVE TypeOK'
    <2>1. ScandTypeOK'
      BY <1>0, <1>13, SocketCallsType DEF SetMode
    <2> QED  BY <1>13, <2>1 DEF TypeOK, SetMode, callVars
  <1>14. CASE DaemonStep
    <2>1. ScandTypeOK'
      BY <1>0, <1>14, DaemonType DEF DaemonStep
    <2> QED  BY <1>14, <2>1 DEF TypeOK, DaemonStep, deviceVars, callVars
  <1>15. CASE UNCHANGED vars
    <2>1. ScandTypeOK'
      BY <1>0, <1>15, SocketCallsType DEF vars
    <2> QED  BY <1>15, <2>1 DEF TypeOK, vars, deviceVars, callVars
  <1> QED
    BY <1>1, <1>2, <1>3, <1>4, <1>a, <1>5, <1>6, <1>7, <1>8, <1>9, <1>10, <1>11, <1>12, <1>13,
       <1>14, <1>15
    DEF Next, Device, Frontend, Read

-----------------------------------------------------------------------------
(* The order of the bytes up to the frontend.                              *)

\* The daemon's errors are failures for the frontend, too.
LEMMA ErrorIsFailure ==
    ASSUME NEW e \in DaemonErrors \cup {"REJECT"}
    PROVE  e # "SUCCESS" /\ Libsts2sanests(e) # "GOOD"
  BY SessionAssumption DEF Libsts2sanests, BusyStatus

\* A new message behind the others leaves what a read meets first as it was,
\* or is the very piece the reader waits for.
LEMMA ReadNextAppend ==
    ASSUME ReadNext, UNCHANGED <<deviceVars, callVars, torn>>, NEW m,
           rx' # <<>>, rx'[1] = IF rx = <<>> THEN m ELSE rx[1],
           m.type = "SCANDATA" => dstate = "page" /\ m.image = image /\ m.from = sent
    PROVE  ReadNext'
  BY DEF ReadNext, Announced, Position, deviceVars, callVars

\* The daemon does not know whether the client follows.
LEMMA DaemonTorn == Daemon => torn' = torn
  BY DEF Daemon, ServeScan, ServeContinue, CanServe, SendData, FailPage, Hangup

LEMMA DaemonReadNext ==
    ASSUME ScandTypeOK, ReadNext, DaemonStep
    PROVE  ReadNext'
  <1> USE DEF DaemonStep
  <1>t. torn' = torn
    BY DaemonTorn
  <1>0. ASSUME NEW m \in Message, NEW t \in Message,
               rx' = Append(rx, m) \/ rx' = Append(Append(rx, m), t),
               m.type = "SCANDATA" => dstate = "page" /\ m.image = image /\ m.from = sent
        PROVE  ReadNext'
    <2> DEFINE s == Append(rx, m)
    <2>1. /\ s \in Seq(Message) /\ s # <<>> /\ Len(s) \in Nat \ {0}
          /\ s[1] = IF rx = <<>> THEN m ELSE rx[1]
      <3>1. /\ s \in Seq(Message) /\ s # <<>>
            /\ Len(rx) \in Nat /\ Len(s) = Len(rx) + 1
            /\ \A i \in 1 .. Len(rx) : s[i] = rx[i]
            /\ s[Len(rx) + 1] = m
            /\ (rx = <<>>) <=> (Len(rx) = 0)
        BY AppendFacts DEF ScandTypeOK
      <3> HIDE DEF s
      <3> QED  BY <3>1
    <2> HIDE DEF s
    <2>2. rx' = s \/ rx' = Append(s, t)
      BY <1>0 DEF s
    <2>3. rx' # <<>> /\ rx'[1] = s[1]
      BY <2>1, <2>2, AppendFacts
    <2> QED  BY <1>0, <1>t, <2>1, <2>3, ReadNextAppend
  <1>1. ASSUME NEW e \in DaemonErrors \cup {"REJECT"}, Refuse(e)
        PROVE  ReadNext'
    <2>1. ErrorInd(e) \in Message /\ ErrorInd(e).type = "ERRORSTATUS"
      BY ErrorIndType DEF ScandTypeOK, ErrorInd
    <2> QED  BY <1>0, <1>1, <2>1 DEF Refuse
  <1>2. ASSUME NEW t \in {"SCAN", "SCANCONTINUE"}, NEW im \in Image, NEW b \in BOOLEAN,
               BeginPage(t, im, b)
        PROVE  ReadNext'
    <2>1. Response(t, im, b) \in Message /\ Response(t, im, b).type # "SCANDATA"
      BY ResponseType DEF Response
    <2> QED  BY <1>0, <1>2, <2>1 DEF BeginPage
  <1>3. CASE ServeScan
    <2>1. CASE \E size \in Sizes, fromAdf \in BOOLEAN :
                 BeginPage("SCAN", [page |-> image.page + 1, mode |-> Head(tx).mode,
                                    size |-> size], fromAdf)
      <3> PICK size \in Sizes, fromAdf \in BOOLEAN :
             BeginPage("SCAN", [page |-> image.page + 1, mode |-> Head(tx).mode,
                                size |-> size], fromAdf)
        BY <2>1
      <3>1. Head(tx) \in Request
        BY <1>3 DEF ServeScan, CanServe, ScandTypeOK
      <3>2. [page |-> image.page + 1, mode |-> Head(tx).mode, size |-> size] \in Image
        BY <3>1 DEF Image, Request, ScandTypeOK
      <3> QED  BY <1>2, <3>2
    <2> QED  BY <1>1, <1>3, <2>1 DEF ServeScan
  <1>4. CASE ServeContinue
    <2>1. [image EXCEPT !.page = @ + 1] \in Image
      BY DEF Image, ScandTypeOK
    <2> QED  BY <1>1, <1>2, <1>4, <2>1 DEF ServeContinue, ScandTypeOK
  <1>5. CASE SendData
    <2> PICK n \in 1 .. MaxChunk, more \in BOOLEAN :
           \/ rx' = Append(rx, ScanData(image, sent, n, more))
           \/ rx' = Append(Append(rx, ScanData(image, sent, n, more)),
                           ScanData(image, sent + n, 0, more))
      BY <1>5 DEF SendData
    <2>1. /\ ScanData(image, sent, n, more) \in Message /\ ScanData(image, sent + n, 0, more) \in Message
          /\ ScanData(image, sent, n, more).image = image /\ ScanData(image, sent, n, more).from = sent
      BY ScandAssumption, ScanDataType DEF ScandTypeOK, ScanData
    <2> QED  BY <1>0, <1>5, <2>1 DEF SendData
  <1>6. CASE FailPage
    BY <1>1, <1>6 DEF FailPage
  <1>7. CASE Hangup
    BY <1>7 DEF Hangup, ReadNext, Announced, Position, deviceVars, callVars
  <1> QED  BY <1>3, <1>4, <1>5, <1>6, <1>7 DEF Daemon

\* A message taken from a stream in step is the first one of the socket.
LEMMA TakenInStep ==
    ASSUME TypeOK, NEW m \in Arriving, Takes(m)
    PROVE  /\ ~misled' => torn = 0 /\ ~misled
           /\ torn = 0 => /\ Receive /\ m = Head(rx) /\ m = rx[1] /\ m \in Message
                          /\ Len(rx) \in Nat \ {0}
                          /\ Len(rx') = Len(rx) - 1 /\ rx' \in Seq(Message)
                          /\ \A i \in 1 .. Len(rx') : rx'[i] = rx[i + 1]
                          /\ UNCHANGED <<tx, peer, dstate, image, sent, adf, torn>>
           /\ torn = 0 /\ WireInOrder /\ m.type = "ERRORSTATUS" =>
                m.status \in DaemonErrors \cup {"REJECT"}
  <1>0. ScandTypeOK /\ torn \in Nat /\ Receive
    BY DEF TypeOK, ScandTypeOK, Takes, Receives
  <1>1. ~misled' => torn = 0 /\ ~misled
    <2>1. ~misled' => ~misled /\ ~(torn > 0)
      BY Zenon DEF Takes
    <2> QED  BY <1>0, <2>1
  <1>2. torn = 0 => m = rx[1]
    BY <1>0, ArrivingType DEF ScandTypeOK
  <1>3. ASSUME torn = 0, WireInOrder, m.type = "ERRORSTATUS"
        PROVE  m.status \in DaemonErrors \cup {"REJECT"}
    BY <1>0, <1>2, <1>3, Received DEF WireInOrder, Message
  <1> QED  BY <1>0, <1>1, <1>2, <1>3, Received

\* What a reply hands over from the socket to the frame that it starts.
LEMMA ReplyReadNext ==
    ASSUME TypeOK, WireInOrder, NEW m \in Arriving, Takes(m),
           m.type \in {"SCAN", "SCANCONTINUE"}, frame' = m.image, Position' = 0
    PROVE  ReadNext'
  <1> SUFFICES ASSUME torn = 0 PROVE ReadNext'
    BY TakenInStep DEF ReadNext
  <1>1. /\ m = rx[1] /\ Len(rx) \in Nat \ {0}
        /\ Len(rx') = Len(rx) - 1 /\ rx' \in Seq(Message)
        /\ \A i \in 1 .. Len(rx') : rx'[i] = rx[i + 1]
        /\ UNCHANGED <<tx, peer, dstate, image, sent, adf, torn>>
    BY TakenInStep
  <1>2. rx[1].from = 0 /\ rx[1].size = 0
    BY <1>1 DEF WireInOrder
  <1>3. rx' # <<>> /\ rx'[1].type = "SCANDATA" => rx'[1].image = frame' /\ rx'[1].from = 0
    <2> SUFFICES ASSUME rx' # <<>>, rx'[1].type = "SCANDATA"
                 PROVE  rx'[1].image = frame' /\ rx'[1].from = 0
      OBVIOUS
    <2>1. Len(rx') >= 1 /\ rx'[1] = rx[2]
      BY <1>1, EmptySeq
    <2>2. After(rx[1], rx[2].image, rx[2].from)
      BY <1>1, <2>1 DEF WireInOrder
    <2> QED  BY <1>1, <1>2, <2>1, <2>2 DEF After
  <1>4. rx' = <<>> /\ dstate' = "page" => image' = frame' /\ sent' = 0
    <2> SUFFICES ASSUME rx' = <<>>, dstate' = "page"
                 PROVE  image' = frame' /\ sent' = 0
      OBVIOUS
    <2>1. Len(rx) = 1
      BY <1>1, EmptySeq
    <2>2. After(rx[1], image, sent)
      BY <1>1, <2>1 DEF WireInOrder
    <2> QED  BY <1>1, <1>2, <2>2 DEF After
  <1> QED  BY <1>1, <1>3, <1>4 DEF ReadNext

\* What a piece of the frame hands over from the socket to the buffer.
LEMMA PieceReadNext ==
    ASSUME TypeOK, WireInOrder, ReadNext, NEW m \in Arriving, Takes(m),
           m.type = "SCANDATA", UNCHANGED <<phase, frame>>, phase = "frame", torn = 0, ~misled,
           NEW pos \in Nat, Position = pos, Position' = pos + m.size
    PROVE  ReadNext' /\ m.image = frame /\ m.from = pos
  <1>1. /\ m = rx[1] /\ Len(rx) \in Nat \ {0} /\ rx # <<>>
        /\ Len(rx') = Len(rx) - 1 /\ rx' \in Seq(Message)
        /\ \A i \in 1 .. Len(rx') : rx'[i] = rx[i + 1]
        /\ UNCHANGED <<tx, peer, dstate, image, sent, adf, torn>>
    BY TakenInStep DEF Receive
  <1>2. m.image = frame /\ m.from = pos
    BY <1>1 DEF ReadNext, Announced
  <1>3. ASSUME rx' # <<>>, rx'[1].type = "SCANDATA"
        PROVE  rx'[1].image = frame /\ rx'[1].from = Position'
    <2>1. Len(rx') >= 1 /\ rx'[1] = rx[2]
      BY <1>1, <1>3, EmptySeq
    <2>2. After(rx[1], rx[2].image, rx[2].from)
      BY <1>1, <1>3, <2>1 DEF WireInOrder
    <2> QED  BY <1>1, <1>2, <2>1, <2>2 DEF After
  <1>4. ASSUME rx' = <<>>, dstate' = "page"
        PROVE  image' = frame /\ sent' = Position'
    <2>1. Len(rx) = 1
      BY <1>1, <1>4, EmptySeq
    <2>2. After(rx[1], image, sent)
      BY <1>1, <1>4, <2>1 DEF WireInOrder
    <2> QED  BY <1>1, <1>2, <2>2 DEF After
  <1> QED  BY <1>1, <1>2, <1>3, <1>4 DEF ReadNext

LEMMA StreamInit == Init => StreamInv
  <1> SUFFICES ASSUME Init PROVE StreamInv
    OBVIOUS
  <1>1. TypeOK
    BY TypeInit
  <1>2. WireInOrder
    BY EmptySeq DEF Init, ScandInit, WireInOrder
  <1>3. CallState /\ ReadNext /\ InOrder
    BY DEF Init, CallState, ReadNext, InOrder, Announced, Reading
  <1>4. CopyInBounds
    BY ScandAssumption DEF Init, CopyInBounds
  <1> QED  BY <1>1, <1>2, <1>3, <1>4 DEF StreamInv

LEMMA StreamStep == StreamInv /\ [Next]_vars => StreamInv'
  <1> SUFFICES ASSUME StreamInv, [Next]_vars PROVE StreamInv'
    OBVIOUS
  <1>0. /\ TypeOK /\ ScandTypeOK /\ CallState /\ CopyInBounds
        /\ WireInOrder /\ ReadNext /\ InOrder /\ TypeOK'
    BY TypeStep DEF StreamInv, TypeOK
  <1> DEFINE Client == CallState /\ CopyInBounds /\ ReadNext /\ InOrder
  <1> USE ScandAssumption DEF Announced, Reading
  <1>a. WireInOrder' /\ Client' => StreamInv'
    BY <1>0 DEF StreamInv
  <1>1. CASE StartCall
    <2>1. WireInOrder'
      BY <1>0, <1>1, SocketCallsInOrder DEF StartCall
    <2>2. Client'
      BY <1>0, <1>1 DEF StartCall, CallState, CopyInBounds, ReadNext, InOrder
    <2> QED  BY <1>a, <2>1, <2>2
  <1>2. CASE StartConnect
    <2>1. WireInOrder'
      BY <1>0, <1>2, SocketCallsInOrder DEF StartConnect, OpenSucceeds, OpenFails
    <2>2. Client'
      BY <1>0, <1>2 DEF StartConnect, Return, CallState, CopyInBounds, ReadNext, InOrder, deviceVars
    <2> QED  BY <1>a, <2>1, <2>2
  <1>3. CASE StartSend
    <2>1. WireInOrder'
      <3>1. [type |-> "SCAN", mode |-> mode] \in Request
        BY <1>0 DEF TypeOK, Request
      <3> QED  BY <1>0, <1>3, <3>1, SocketCallsInOrder DEF StartSend, Close
    <2>2. Client'
      BY <1>0, <1>3 DEF StartSend, Return, CallState, CopyInBounds, ReadNext, InOrder, deviceVars
    <2> QED  BY <1>a, <2>1, <2>2
  <1>4. CASE StartRecv
    <2>1. WireInOrder'
      BY <1>0, <1>4, SocketCallsInOrder
      DEF StartRecv, Takes, Receives, RecvFails, RecvInterrupted
    <2>2. /\ trns_data_size' = 0 /\ buffer_offset' = 0 /\ buffer_received' = 0
          /\ phase \notin {"frame", "eof", "failed"} /\ ~src
      BY <1>0, <1>4 DEF StartRecv, CallState
    <2>3. CopyInBounds' /\ InOrder' /\ Position' = 0
      BY <2>2 DEF CopyInBounds, InOrder, Position
    <2>4. ASSUME NEW s, Return(s), UNCHANGED src, s # "GOOD" \/ misled'
          PROVE  CallState' /\ ReadNext'
      <3>1. pc' = "idle" /\ phase' # "starting" /\ (phase' = "frame" => misled')
        BY <1>0, <2>2, <2>4, ReturnType
      <3> QED  BY <2>2, <2>4, <3>1 DEF CallState, ReadNext
    <2>5. ASSUME NEW m \in Arriving, Takes(m), StartReply(m)
          PROVE  CallState' /\ ReadNext'
      <3>1. CASE m.type = "SCAN"
        <4>1. pc' = "gotScan" /\ phase' = phase /\ frame' = m.image
          BY <2>5, <3>1 DEF StartReply
        <4> QED  BY <1>0, <2>2, <2>3, <2>5, <3>1, <4>1, ReplyReadNext DEF CallState
      <3>2. CASE m.type = "ERRORSTATUS"
        <4>1. ~misled' => Libsts2sanests(m.status) # "GOOD"
          BY <1>0, <2>5, <3>2, TakenInStep, ErrorIsFailure
        <4>2. Return(Libsts2sanests(m.status)) /\ UNCHANGED src
          BY <2>5, <3>2 DEF StartReply
        <4> QED  BY <2>4, <4>1, <4>2
      <3>3. CASE m.type \notin {"SCAN", "ERRORSTATUS"}
        BY <2>4, <2>5, <3>3 DEF StartReply
      <3> QED  BY <3>1, <3>2, <3>3
    <2>6. CallState' /\ ReadNext'
      BY <1>4, <2>4, <2>5 DEF StartRecv
    <2> QED  BY <1>a, <2>1, <2>3, <2>6
  <1>b. CASE StartDone
    <2>1. WireInOrder'
      BY <1>0, <1>b, SocketCallsInOrder DEF StartDone
    <2>2. trns_data_size = 0 /\ buffer_offset = 0 /\ buffer_received = 0
      BY <1>0, <1>b DEF StartDone, CallState
    <2>3. pc' = "idle" /\ phase' # "starting"
      BY <1>0, <1>b, ReturnType DEF StartDone
    <2>4. CallState' /\ CopyInBounds' /\ InOrder'
      BY <1>b, <2>2, <2>3 DEF StartDone, CallState, CopyInBounds, InOrder
    <2>5. ReadNext'
      BY <1>0, <1>b DEF StartDone, ReadNext, Position, scandVars
    <2> QED  BY <1>a, <2>1, <2>4, <2>5
  <1>5. CASE ContinueSend
    <2>1. WireInOrder'
      <3>1. [type |-> "SCANCONTINUE", mode |-> mode] \in Request
        BY <1>0 DEF TypeOK, Request
      <3> QED  BY <1>0, <1>5, <3>1, SocketCallsInOrder DEF ContinueSend, Close
    <2>2. Client'
      BY <1>0, <1>5 DEF ContinueSend, Return, CallState, CopyInBounds, ReadNext, InOrder, deviceVars
    <2> QED  BY <1>a, <2>1, <2>2
  <1>6. CASE ContinueRecv
    <2>1. WireInOrder'
      BY <1>0, <1>6, SocketCallsInOrder
      DEF ContinueRecv, Takes, Receives, RecvFails, RecvInterrupted
    <2>2. /\ trns_data_size' = 0 /\ buffer_offset' = 0 /\ buffer_received' = 0
          /\ phase \in {"ready", "starting", "aborted"} /\ ~src'
      BY <1>0, <1>6 DEF ContinueRecv, CallState, TypeOK
    <2>3. CopyInBounds' /\ InOrder' /\ Position' = 0
      BY <2>2 DEF CopyInBounds, InOrder, Position
    <2>4. ASSUME NEW s, Return(s) PROVE CallState'
      <3>1. pc' = "idle" /\ phase' # "starting"
        BY <1>0, <2>4, ReturnType
      <3> QED  BY <2>2, <3>1 DEF CallState
    <2>5. ASSUME NEW s, Return(s), s # "GOOD" \/ misled' PROVE CallState' /\ ReadNext'
      <3>1. pc' = "idle" /\ (phase' = "frame" => misled')
        BY <1>0, <2>2, <2>5, ReturnType
      <3> QED  BY <2>4, <2>5, <3>1 DEF ReadNext
    <2>6. ASSUME NEW m \in Arriving, Takes(m), ContinueReply(m)
          PROVE  CallState' /\ ReadNext'
      <3>1. CASE m.type = "SCANCONTINUE"
        BY <1>0, <2>3, <2>4, <2>6, <3>1, ReplyReadNext DEF ContinueReply
      <3>2. CASE m.type = "ERRORSTATUS" /\ m.status = "REJECT"
        BY <2>2, <2>6, <3>2 DEF ContinueReply, CallState, ReadNext
      <3>3. CASE m.type = "ERRORSTATUS" /\ m.status # "REJECT"
        <4>1. ~misled' => Libsts2sanests(m.status) # "GOOD"
          BY <1>0, <2>6, <3>3, TakenInStep, ErrorIsFailure
        <4>2. Return(Libsts2sanests(m.status))
          BY <2>6, <3>3 DEF ContinueReply
        <4> QED  BY <2>5, <4>1, <4>2
      <3>4. CASE m.type \notin {"SCANCONTINUE", "ERRORSTATUS"}
        BY <2>5, <2>6, <3>4 DEF ContinueReply
      <3> QED  BY <3>1, <3>2, <3>3, <3>4
    <2>7. CallState' /\ ReadNext'
      BY <1>6, <2>5, <2>6 DEF ContinueRecv
    <2> QED  BY <1>a, <2>1, <2>3, <2>7
  <1>7. CASE ReadClosed
    <2>1. WireInOrder'
      BY <1>0, <1>7, SocketCallsInOrder DEF ReadClosed, Close
    <2>2. phase' # "frame" /\ phase' # "starting" /\ pc' = "idle"
      BY <1>0, <1>7 DEF ReadClosed, Return, CallState
    <2>3. Client'
      BY <1>0, <1>7, <2>2 DEF ReadClosed, CallState, CopyInBounds, ReadNext, InOrder, deviceVars
    <2> QED  BY <1>a, <2>1, <2>3
  <1>8. CASE ReadEof
    <2>1. WireInOrder'
      BY <1>0, <1>8, SocketCallsInOrder DEF ReadEof
    <2>2. phase' # "frame" /\ phase' # "starting" /\ pc' = "idle"
      BY <1>0, <1>8 DEF ReadEof, Return, CallState
    <2>3. Client'
      BY <1>0, <1>8, <2>2 DEF ReadEof, CallState, CopyInBounds, ReadNext, InOrder
    <2> QED  BY <1>a, <2>1, <2>3
  <1>9. ASSUME NEW n \in MaxLengths, ReadBuffered(n) PROVE StreamInv'
    <2>1. WireInOrder'
      BY <1>0, <1>9, SocketCallsInOrder DEF ReadBuffered
    <2>2. Client'
      BY <1>0, <1>9
      DEF ReadBuffered, CallState, CopyInBounds, ReadNext, Position, InOrder, scandVars, deviceVars
    <2> QED  BY <1>a, <2>1, <2>2
  <1>10. ASSUME NEW n \in MaxLengths, ReadWait(n) PROVE StreamInv'
    <2>1. WireInOrder'
      BY <1>0, <1>10, SocketCallsInOrder DEF ReadWait
    <2>2. buffer_offset = buffer_received
      BY <1>0, <1>10 DEF ReadWait, HasData, Remaining, CopyInBounds, TypeOK
    <2>3. Client'
      BY <1>0, <1>10, <2>2
      DEF ReadWait, CallState, CopyInBounds, ReadNext, Position, InOrder, scandVars, deviceVars
    <2> QED  BY <1>a, <2>1, <2>3
  <1>11. CASE ReadRecv
    <2>1. WireInOrder'
      BY <1>0, <1>11, SocketCallsInOrder DEF ReadRecv, Takes, Receives, RecvFails
    <2>2. /\ buffer_offset = buffer_received /\ Position = trns_data_size /\ ~src'
          /\ phase # "starting" /\ UNCHANGED <<frame, trns_data_size>> /\ trns_data_size \in Nat
      BY <1>0, <1>11 DEF ReadRecv, CallState, Position, TypeOK
    <2>3. ASSUME NEW m \in Arriving, Takes(m), m.type = "SCANDATA", ReadMessage(m) PROVE Client'
      <3>1. /\ buffer' = m /\ buffer_offset' = 0 /\ buffer_received' = m.size
            /\ pc' = "copy" /\ phase' = phase
        BY <2>3 DEF ReadMessage
      <3>2. m \in Message /\ m.size \in Nat /\ m.from \in Nat
        BY <1>0, ArrivingType DEF ScandTypeOK, Message
      <3>3. CopyInBounds' /\ CallState'
        <4>1. ~misled' => m.size <= MaxChunk
          BY <1>0, <2>3, TakenInStep DEF WireInOrder
        <4> QED  BY <2>2, <3>1, <3>2, <4>1 DEF CopyInBounds, CallState
      <3>4. Position' = trns_data_size + m.size
        BY <2>2, <3>1, <3>2 DEF Position
      <3>5. ASSUME phase = "frame", ~misled'
            PROVE  ReadNext' /\ m.image = frame /\ m.from = trns_data_size
        <4>1. torn = 0 /\ ~misled
          BY <1>0, <2>3, <3>5, TakenInStep
        <4> QED  BY <1>0, <2>2, <2>3, <3>1, <3>4, <3>5, <4>1, PieceReadNext
      <3>6. ReadNext'
        BY <3>1, <3>5 DEF ReadNext
      <3>7. InOrder'
        BY <2>2, <3>1, <3>2, <3>5 DEF InOrder
      <3> QED  BY <3>3, <3>6, <3>7
    <2>4. ASSUME NEW s, Return(s), s # "GOOD" \/ misled',
                 UNCHANGED <<buffer, buffer_offset, buffer_received>>
          PROVE  Client'
      <3>1. pc' = "idle" /\ phase' # "starting" /\ (phase' = "frame" => misled')
        BY <1>0, <2>4, ReturnType
      <3>2. ~misled' => ~misled
        BY <1>0, <1>11, TakenInStep DEF ReadRecv
      <3> QED  BY <1>0, <2>2, <2>4, <3>1, <3>2 DEF CallState, CopyInBounds, ReadNext, InOrder
    <2>5. ASSUME NEW m \in Arriving, Takes(m), ReadMessage(m) PROVE Client'
      <3>1. CASE m.type = "SCANDATA"
        BY <2>3, <2>5, <3>1
      <3>2. CASE m.type = "ERRORSTATUS"
        <4>1. ~misled' => Libsts2sanests(m.status) # "GOOD"
          BY <1>0, <2>5, <3>2, TakenInStep, ErrorIsFailure
        <4>2. Return(Libsts2sanests(m.status)) /\ UNCHANGED <<buffer, buffer_offset, buffer_received>>
          BY <2>5, <3>2 DEF ReadMessage
        <4> QED  BY <2>4, <4>1, <4>2
      <3>3. CASE m.type \notin {"SCANDATA", "ERRORSTATUS"}
        BY <2>4, <2>5, <3>3 DEF ReadMessage
      <3> QED  BY <3>1, <3>2, <3>3
    <2>6. Client'
      <3>1. CASE Return("INVAL") /\ UNCHANGED <<buffer, buffer_offset, buffer_received>>
        BY <2>4, <3>1
      <3> QED  BY <1>11, <2>5, <3>1 DEF ReadRecv
    <2> QED  BY <1>a, <2>1, <2>6
  <1>c. CASE ReadCopy
    <2>1. WireInOrder'
      BY <1>0, <1>c, SocketCallsInOrder DEF ReadCopy
    <2>2. PICK cpsz \in Nat :
            /\ buffer_offset' = buffer_offset + cpsz
            /\ trns_data_size' = trns_data_size + cpsz
            /\ cpsz <= buffer_received - buffer_offset
      BY <1>0, <1>c, CopyOutEffect DEF ReadCopy, CopyInBounds
    <2>3. /\ phase' \in {phase, "ready", "aborted", "frame"} /\ pc' = "idle"
          /\ phase # "starting" /\ phase' # "starting"
          /\ (phase' = "frame" => phase = "frame") /\ pc # "gotScan"
          /\ UNCHANGED <<buffer_received, buffer, frame, misled, scandVars>> /\ ~src'
      BY <1>0, <1>c DEF ReadCopy, Return, CallState, TypeOK
    <2>4. Position' = Position
      BY <1>0, <2>2, <2>3 DEF Position, TypeOK
    <2>5. CallState' /\ CopyInBounds'
      BY <1>0, <2>2, <2>3 DEF CallState, CopyInBounds, TypeOK
    <2>6. ReadNext'
      BY <1>0, <2>3, <2>4 DEF ReadNext, scandVars
    <2>7. InOrder'
      <3>1. buffer \in Message /\ buffer.from \in Nat
        BY <1>0 DEF TypeOK, Message
      <3> QED  BY <1>0, <2>2, <2>3, <3>1 DEF InOrder, TypeOK
    <2> QED  BY <1>a, <2>1, <2>5, <2>6, <2>7
  <1>12. CASE Cancel
    <2>1. WireInOrder'
      BY <1>0, <1>12, SocketCallsInOrder DEF Cancel, Close
    <2>2. CallState' /\ CopyInBounds' /\ InOrder'
      BY <1>0, <1>12 DEF Cancel, CallState, CopyInBounds, InOrder
    <2>3. ReadNext'
      BY <1>0, <1>12 DEF Cancel, Close, Disconnect, ReadNext
    <2> QED  BY <1>a, <2>1, <2>2, <2>3
  <1>13. ASSUME NEW m \in Modes, SetMode(m) PROVE StreamInv'
    <2>1. WireInOrder'
      BY <1>0, <1>13, SocketCallsInOrder DEF SetMode
    <2>2. Client'
      BY <1>0, <1>13
      DEF SetMode, CallState, CopyInBounds, ReadNext, Position, InOrder, scandVars, callVars
    <2> QED  BY <1>a, <2>1, <2>2
  <1>14. CASE DaemonStep
    <2>1. WireInOrder'
      BY <1>0, <1>14, DaemonInOrder DEF DaemonStep
    <2>2. ReadNext'
      BY <1>0, <1>14, DaemonReadNext
    <2>3. CallState' /\ CopyInBounds' /\ InOrder'
      BY <1>0, <1>14 DEF DaemonStep, CallState, CopyInBounds, InOrder, deviceVars, callVars
    <2> QED  BY <1>a, <2>1, <2>2, <2>3
  <1>15. CASE UNCHANGED vars
    <2>1. WireInOrder'
      BY <1>0, <1>15, SocketCallsInOrder DEF vars
    <2>2. Client'
      BY <1>0, <1>15
      DEF vars, CallState, CopyInBounds, ReadNext, Position, InOrder, scandVars, deviceVars, callVars
    <2> QED  BY <1>a, <2>1, <2>2
  <1> QED
    BY <1>1, <1>2, <1>3, <1>4, <1>b, <1>5, <1>6, <1>7, <1>8, <1>9, <1>10, <1>11, <1>c, <1>12,
       <1>13, <1>14, <1>15
    DEF Next, Device, Frontend, Read

\* What the buffer, the counters and the socket of a session hold fits together
\* after any sequence of calls: the invariant that the next results follow from.
THEOREM StreamConsistent == Spec => []StreamInv
BY StreamInit, StreamStep, PTL DEF Spec

\* Every variable keeps its type in every behaviour of the session.
THEOREM TypeCorrect == Spec => []TypeOK
  <1>1. StreamInv => TypeOK
    BY DEF StreamInv
  <1> QED  BY <1>1, StreamConsistent, PTL

\* The memcpy of read() never leaves the bytes that were received, for every
\* order of calls a frontend can make, everything the daemon may send, and a
\* cancel between its check and its copy.
THEOREM CopiesInBounds == Spec => []CopyInBounds
  <1>1. StreamInv => CopyInBounds
    BY DEF StreamInv
  <1> QED  BY <1>1, StreamConsistent, PTL

\* The bytes that sane_read hands out of a frame are the bytes of its image,
\* each once and in order: also for a frontend that ignores failures, that
\* reads in pieces of any length, and that cancels from a signal handler; as
\* long as no message of the frame was taken from a connection on which a
\* receive had given up inside a message.
THEOREM BytesInOrder == Spec => []InOrder
  <1>1. StreamInv => InOrder
    BY DEF StreamInv
  <1> QED  BY <1>1, StreamConsistent, PTL

-----------------------------------------------------------------------------
(* A connection that is gone, and one that is out of step.                 *)

LEMMA OfflineStep == StreamInv /\ Offline /\ [Next]_vars => Offline'
  <1> SUFFICES ASSUME StreamInv, Offline, [Next]_vars PROVE Offline'
    OBVIOUS
  <1> USE DEF Offline, Return, Reading
  <1>0. CallState /\ TypeOK
    BY DEF StreamInv
  <1>1. CASE StartCall
    BY <1>1 DEF StartCall, scandVars
  <1>2. CASE StartConnect
    BY <1>0, <1>2 DEF StartConnect, OpenSucceeds, OpenFails, Disconnect, scandVars, IsOpen
  <1>3. CASE StartSend
    BY <1>0, <1>3 DEF StartSend, Close, Disconnect, Send, deviceVars
  <1>4. CASE StartRecv
    <2>1. phase' # "ready" /\ sock' = sock
      BY <1>0, <1>4 DEF StartRecv, StartReply
    <2>2. sock # "conn" => UNCHANGED scandVars
      BY <1>4 DEF StartRecv, Takes, Receives, RecvFails, RecvInterrupted
    <2> QED  BY <2>1, <2>2 DEF scandVars
  <1>a. CASE StartDone
    BY <1>0, <1>a DEF StartDone, scandVars
  <1>5. CASE ContinueSend
    BY <1>0, <1>5 DEF ContinueSend, Close, Disconnect, Send, deviceVars
  <1>6. CASE ContinueRecv
    <2>1. phase' # "ready" /\ sock' = sock
      BY <1>0, <1>6 DEF ContinueRecv, ContinueReply
    <2>2. sock # "conn" => UNCHANGED scandVars
      BY <1>6 DEF ContinueRecv, Takes, Receives, RecvFails, RecvInterrupted
    <2> QED  BY <2>1, <2>2 DEF scandVars
  <1>7. CASE ReadClosed
    BY <1>7 DEF ReadClosed, Close, Disconnect, deviceVars
  <1>8. CASE ReadEof
    BY <1>8 DEF ReadEof, scandVars
  <1>9. ASSUME NEW n \in MaxLengths, ReadBuffered(n) PROVE Offline'
    BY <1>9 DEF ReadBuffered, scandVars, deviceVars
  <1>10. ASSUME NEW n \in MaxLengths, ReadWait(n) PROVE Offline'
    BY <1>10 DEF ReadWait, scandVars, deviceVars
  <1>11. CASE ReadRecv
    <2>1. sock # "conn" => UNCHANGED scandVars
      BY <1>11 DEF ReadRecv, Takes, Receives, RecvFails
    <2>2. phase' = "ready" => phase = "ready" /\ pc' \in Reading
      BY <1>11 DEF ReadRecv, ReadMessage
    <2>3. UNCHANGED <<sock, use_adf>>
      BY <1>11 DEF ReadRecv
    <2> QED  BY <2>1, <2>2, <2>3 DEF scandVars
  <1>b. CASE ReadCopy
    BY <1>b DEF ReadCopy, scandVars
  <1>12. CASE Cancel
    BY <1>12 DEF Cancel, Close, Disconnect
  <1>13. ASSUME NEW m \in Modes, SetMode(m) PROVE Offline'
    BY <1>13 DEF SetMode, scandVars, callVars
  <1>14. CASE DaemonStep
    <2>1. sock = "conn"
      BY <1>14 DEF DaemonStep, Daemon, ServeScan, ServeContinue, CanServe, SendData, FailPage, Hangup
    <2> QED  BY <1>14, <2>1 DEF DaemonStep, deviceVars, callVars
  <1>15. CASE UNCHANGED vars
    BY <1>15 DEF vars, scandVars, deviceVars, callVars
  <1> QED
    BY <1>1, <1>2, <1>3, <1>4, <1>a, <1>5, <1>6, <1>7, <1>8, <1>9, <1>10, <1>11, <1>b, <1>12,
       <1>13, <1>14, <1>15
    DEF Next, Device, Frontend, Read

\* A receive from a stream in step leaves it in step.
LEMMA TakesInStep ==
    ASSUME TypeOK, NEW m \in Arriving, Takes(m), torn = 0, ~misled
    PROVE  torn' = 0 /\ ~misled'
  <1>1. torn' = 0
    BY TakenInStep
  <1>2. ~(torn > 0)
    OBVIOUS
  <1>3. ~misled'
    BY <1>2, Zenon DEF Takes
  <1> QED  BY <1>1, <1>3

LEMMA InStepStep ==
    ASSUME Disciplined, StreamInv, Offline, FrameKnown, InStep, [Next]_vars
    PROVE  InStep'
  <1>0. TypeOK /\ CallState /\ torn \in Nat
    BY DEF StreamInv, TypeOK, ScandTypeOK
  <1> DEFINE Given == phase \in {"failed", "aborted", "ready"}
             Clean == torn = 0 /\ ~misled
  <1>a. Clean \/ (Given /\ pc \in Reading)
    <2>1. ~(torn > 0) => torn = 0
      BY <1>0
    <2> QED  BY <2>1, Zenon DEF InStep
  <1>b. torn' = 0 /\ ~misled' => InStep'
    BY DEF InStep
  <1>c. Given' /\ pc' \in Reading => InStep'
    BY DEF InStep
  <1>d. ASSUME NEW s, Return(s), Given \/ s \notin {"GOOD", "EOF"} PROVE InStep'
    BY <1>c, <1>d DEF Return, Reading
  <1>1. CASE StartCall
    <2>1. torn' = torn /\ ~misled' /\ phase \in {"ready", "eof"}
      BY <1>1 DEF StartCall, MayStart, scandVars
    <2>2. torn = 0
      BY <1>a, <2>1 DEF Offline
    <2> QED  BY <1>b, <2>1, <2>2
  <1>2. CASE StartConnect
    <2>1. Clean /\ misled' = misled
      BY <1>2, <1>a DEF StartConnect, Reading
    <2>2. torn' = 0
      BY <1>2, <2>1 DEF StartConnect, OpenSucceeds, OpenFails, Connect, Disconnect, scandVars
    <2> QED  BY <1>b, <2>1, <2>2
  <1>3. CASE StartSend
    <2>1. Clean /\ misled' = misled
      BY <1>3, <1>a DEF StartSend, Reading
    <2>2. torn' = 0
      BY <1>3, <2>1 DEF StartSend, Send, Close, Disconnect
    <2> QED  BY <1>b, <2>1, <2>2
  <1>4. CASE StartRecv
    <2>1. Clean
      BY <1>4, <1>a DEF StartRecv, Reading
    <2>2. CASE \E m \in Arriving : Takes(m)
      BY <1>0, <1>b, <2>1, <2>2, TakesInStep
    <2>3. CASE Return("INVAL")
      BY <1>d, <2>3
    <2> QED  BY <1>4, <2>2, <2>3 DEF StartRecv
  <1>e. CASE StartDone
    BY <1>e, <1>a, <1>b DEF StartDone, Reading, scandVars
  <1>5. CASE ContinueSend
    <2>1. Clean /\ misled' = misled
      BY <1>5, <1>a DEF ContinueSend, Reading
    <2>2. torn' = 0
      BY <1>5, <2>1 DEF ContinueSend, Send, Close, Disconnect
    <2> QED  BY <1>b, <2>1, <2>2
  <1>6. CASE ContinueRecv
    <2>1. Clean
      BY <1>6, <1>a DEF ContinueRecv, Reading
    <2>2. CASE \E m \in Arriving : Takes(m)
      BY <1>0, <1>b, <2>1, <2>2, TakesInStep
    <2>3. CASE Return("INVAL")
      BY <1>d, <2>3
    <2> QED  BY <1>6, <2>2, <2>3 DEF ContinueRecv
  <1>7. CASE ReadClosed
    <2>1. \E s : Return(s) /\ s \notin {"GOOD", "EOF"}
      BY <1>7 DEF ReadClosed
    <2> QED  BY <1>d, <2>1
  <1>8. CASE ReadEof
    BY <1>8, <1>a, <1>b, <1>d DEF ReadEof, scandVars
  <1>9. ASSUME NEW n \in MaxLengths, ReadBuffered(n) \/ ReadWait(n) PROVE InStep'
    BY <1>9, <1>a, <1>b, <1>c DEF ReadBuffered, ReadWait, Reading, scandVars
  <1>10. CASE ReadRecv
    <2>1. CASE \E m \in Arriving : Takes(m) /\ ReadMessage(m)
      <3>1. CASE Clean
        BY <1>0, <1>b, <2>1, <3>1, TakesInStep
      <3>2. CASE Given
        <4>1. (pc' = "copy" /\ phase' = phase) \/ \E s : Return(s)
          BY <2>1 DEF ReadMessage
        <4> QED  BY <1>c, <1>d, <3>2, <4>1 DEF Reading
      <3> QED  BY <1>a, <3>1, <3>2
    <2>2. CASE Return("INVAL")
      BY <1>d, <2>2
    <2> QED  BY <1>10, <2>1, <2>2 DEF ReadRecv
  <1>11. CASE ReadCopy
    BY <1>11, <1>a, <1>b, <1>d DEF ReadCopy, scandVars
  <1>12. CASE Cancel
    <2>1. torn' = 0 /\ misled' = misled /\ pc' = pc
      BY <1>12 DEF Cancel, Close, Disconnect
    <2>2. pc \in Reading => phase' = "ready"
      BY <1>12 DEF Cancel
    <2> QED  BY <1>a, <1>b, <1>c, <2>1, <2>2
  <1>13. ASSUME NEW m \in Modes, SetMode(m) PROVE InStep'
    BY <1>13 DEF SetMode, InStep, scandVars, callVars
  <1>14. CASE DaemonStep
    BY <1>14, DaemonTorn DEF DaemonStep, InStep, callVars
  <1>15. CASE UNCHANGED vars
    BY <1>15 DEF vars, InStep, scandVars, callVars
  <1> QED
    BY <1>1, <1>2, <1>3, <1>4, <1>e, <1>5, <1>6, <1>7, <1>8, <1>9, <1>10, <1>11, <1>12, <1>13,
       <1>14, <1>15
    DEF Next, Device, Frontend, Read

-----------------------------------------------------------------------------
(* What the end of a frame leaves on the connection.                       *)

\* No piece of a page waits in front, or comes next.
Clear ==
    /\ rx # <<>> => rx[1].type # "SCANDATA"
    /\ rx = <<>> => dstate # "page"

\* An error of the daemon is no end of a frame.
LEMMA ErrorIsNoEnd ==
    ASSUME NEW e \in DaemonErrors \cup {"REJECT"}
    PROVE  Libsts2sanests(e) \notin {"GOOD", "EOF"}
  BY SessionAssumption DEF Libsts2sanests, BusyStatus

\* An error that a receive takes from a stream in step is one that was sent.
LEMMA TakenError ==
    ASSUME TypeOK, WireInOrder, NEW m \in Arriving, Takes(m), torn = 0,
           m.type = "ERRORSTATUS"
    PROVE  Libsts2sanests(m.status) \notin {"GOOD", "EOF"}
  BY TakenInStep, ErrorIsNoEnd

\* Behind an error there is no piece of the page that it ended.
LEMMA ClearAfterError ==
    ASSUME TypeOK, WireInOrder, NEW m \in Arriving, Takes(m), torn = 0,
           m.type = "ERRORSTATUS"
    PROVE  Clear'
  <1>1. /\ rx[1].type = "ERRORSTATUS" /\ Len(rx) \in Nat \ {0} /\ Len(rx') = Len(rx) - 1
        /\ rx' \in Seq(Message) /\ dstate' = dstate
        /\ \A i \in 1 .. Len(rx') : rx'[i] = rx[i + 1]
    BY TakenInStep
  <1>2. ASSUME rx' # <<>> PROVE rx'[1].type # "SCANDATA"
    <2>1. Len(rx') >= 1 /\ rx'[1] = rx[2]
      BY <1>1, <1>2, EmptySeq
    <2> QED  BY <1>1, <2>1 DEF WireInOrder, After
  <1>3. ASSUME rx' = <<>> PROVE dstate' # "page"
    <2>1. Len(rx) = 1 /\ rx # <<>>
      BY <1>1, <1>3, EmptySeq
    <2> QED  BY <1>1, <2>1 DEF WireInOrder, After
  <1> QED  BY <1>2, <1>3 DEF Clear

\* At the end of a frame the connection is clear: a further piece would go
\* beyond the image.
LEMMA ClearAtEnd ==
    ASSUME ScandTypeOK, PiecesFit, ReadNext, ~Trailers,
           phase = "frame", ~misled, Position = frame.size
    PROVE  Clear
  <1>1. ASSUME rx # <<>>, rx[1].type = "SCANDATA" PROVE FALSE
    <2>1. Len(rx) \in Nat \ {0} /\ rx[1] \in Message
      BY <1>1, HeadAndTail DEF ScandTypeOK
    <2>2. rx[1].size \in Nat /\ rx[1].from \in Nat /\ rx[1].image.size \in Nat
      BY <2>1, ImageSize DEF Message
    <2>3. rx[1].size > 0 /\ rx[1].from + rx[1].size <= rx[1].image.size
      BY <1>1, <2>1 DEF PiecesFit
    <2>4. rx[1].image = frame /\ rx[1].from = frame.size
      BY <1>1 DEF ReadNext, Announced
    <2> QED  BY <2>2, <2>3, <2>4
  <1>2. ASSUME rx = <<>>, dstate = "page" PROVE FALSE
    <2>1. image = frame /\ sent = image.size /\ sent < image.size
      BY <1>2 DEF ReadNext, Announced, PiecesFit
    <2> QED  BY <2>1, ImageSize DEF ScandTypeOK
  <1> QED  BY <1>1, <1>2 DEF Clear

LEMMA DaemonClear ==
    ASSUME ScandTypeOK, Clear, Daemon
    PROVE  Clear'
  <1>0. Len(rx) \in Nat /\ (rx = <<>> <=> Len(rx) = 0)
    BY EmptySeq DEF ScandTypeOK
  <1>a. rx' \in Seq(Message) /\ (rx' = <<>> <=> Len(rx') = 0)
    BY DaemonType, EmptySeq DEF ScandTypeOK
  <1>1. ASSUME NEW t \in {"SCAN", "SCANCONTINUE"}, NEW m \in Message, Begun(t, m)
        PROVE  Clear'
    BY <1>0, <1>a, <1>1 DEF Begun, Grown, Clear
  <1>2. ASSUME NEW m \in Message, Failed(m) PROVE Clear'
    BY <1>0, <1>a, <1>2 DEF Failed, Grown, Clear
  <1>3. ASSUME NEW m \in Message, Sent(m) PROVE Clear'
    <2>1. Len(rx) >= 1 /\ rx'[1] = rx[1] /\ rx' # <<>>
      BY <1>0, <1>a, <1>3 DEF Sent, Grown, Clear
    <2> QED  BY <1>0, <2>1 DEF Clear
  <1>4. CASE Hangup
    BY <1>4 DEF Hangup, Clear
  <1> QED  BY <1>1, <1>2, <1>3, <1>4, DaemonEffect

LEMMA NoneLeftStep ==
    ASSUME Disciplined, ~Trailers, StreamInv, PiecesFit, Offline, InStep, FrameKnown, NoneLeft,
           [Next]_vars
    PROVE  NoneLeft'
  <1>0. /\ TypeOK /\ ScandTypeOK /\ CallState /\ CopyInBounds /\ WireInOrder /\ ReadNext
        /\ torn \in Nat
    BY DEF StreamInv, TypeOK, ScandTypeOK
  <1> DEFINE Open(s) == s \in Reading \cup {"gotScan"}
  <1>a. NoneLeft <=> (phase = "eof" \/ ~Open(pc) => Clear)
    BY DEF NoneLeft, Clear
  <1>b. NoneLeft' <=> (phase' = "eof" \/ ~Open(pc') => Clear')
    BY DEF NoneLeft, Clear
  <1>c. Connect \/ Disconnect => Clear'
    BY DEF Connect, Disconnect, Clear
  <1>d. Clear /\ rx' = rx /\ dstate' = dstate => Clear'
    BY DEF Clear
  <1>e. \A s : Return(s) /\ (s # "EOF" \/ phase # "frame") /\ phase # "eof" =>
               phase' # "eof" /\ pc' = "idle"
    BY DEF Return
  <1>f. \A s : Return(s) /\ (s # "EOF" \/ phase # "frame") /\ phase # "eof" => NoneLeft'
    BY <1>b, <1>e DEF Reading
  <1> USE DEF Reading
  <1>1. CASE StartCall
    BY <1>1, <1>a, <1>b, <1>d DEF StartCall, MayStart, Offline, Clear, scandVars
  <1>2. CASE StartConnect
    BY <1>2, <1>a, <1>b, <1>c, <1>d DEF StartConnect, OpenSucceeds, OpenFails, scandVars
  <1>3. CASE StartSend
    BY <1>3, <1>a, <1>b, <1>c, <1>d DEF StartSend, Send, Close
  <1>4. CASE StartRecv
    <2>1. phase \notin {"frame", "eof"}
      BY <1>0, <1>4 DEF StartRecv, CallState
    <2>2. (pc' = "gotScan" /\ phase' = phase) \/ \E s : Return(s)
      BY <1>4 DEF StartRecv, StartReply
    <2> QED  BY <1>b, <1>f, <2>1, <2>2
  <1>g. CASE StartDone
    <2>1. phase \notin {"frame", "eof"} /\ Return("GOOD")
      BY <1>0, <1>g DEF StartDone, CallState
    <2> QED  BY <1>f, <2>1
  <1>5. CASE ContinueSend
    BY <1>5, <1>a, <1>b, <1>c, <1>d DEF ContinueSend, Send, Close
  <1>6. CASE ContinueRecv
    <2>1. phase \notin {"frame", "eof"} /\ torn = 0
      BY <1>0, <1>6 DEF ContinueRecv, CallState, InStep
    <2>2. \/ \E m \in Arriving : Takes(m) /\ m.type = "ERRORSTATUS"
          \/ \E s : Return(s)
      BY <1>6 DEF ContinueRecv, ContinueReply
    <2>3. ASSUME NEW m \in Arriving, Takes(m), m.type = "ERRORSTATUS" PROVE NoneLeft'
      BY <1>0, <1>b, <2>1, <2>3, ClearAfterError
    <2> QED  BY <1>f, <2>1, <2>2, <2>3
  <1>7. CASE ReadClosed
    BY <1>7, <1>f DEF ReadClosed, MayRead
  <1>8. CASE ReadEof
    <2>1. CASE phase = "frame"
      <3>1. Position = frame.size /\ ~misled
        BY <1>0, <1>8, <2>1, ImageSize
        DEF ReadEof, HasData, Remaining, AtEnd, CopyInBounds, FrameKnown, Live, Announced,
            Position, TypeOK, InStep
      <3> QED  BY <1>0, <1>8, <1>b, <1>d, <2>1, <3>1, ClearAtEnd DEF ReadEof, scandVars
    <2>2. CASE phase # "frame"
      BY <1>8, <1>f, <2>2 DEF ReadEof, MayRead
    <2> QED  BY <2>1, <2>2
  <1>9. ASSUME NEW n \in MaxLengths, ReadBuffered(n) \/ ReadWait(n) PROVE NoneLeft'
    BY <1>9, <1>b DEF ReadBuffered, ReadWait, MayRead
  <1>11. CASE ReadRecv
    <2>1. phase # "eof"
      BY <1>11 DEF ReadRecv, FrameKnown
    <2>2. phase = "frame" => torn = 0
      BY <1>0 DEF InStep
    <2>3. ASSUME NEW m \in Arriving, Takes(m), ReadMessage(m) PROVE NoneLeft'
      <3>1. CASE m.type = "SCANDATA"
        BY <1>b, <2>1, <2>3, <3>1 DEF ReadMessage
      <3>2. CASE m.type = "ERRORSTATUS"
        <4>1. Return(Libsts2sanests(m.status))
          BY <2>3, <3>2 DEF ReadMessage
        <4>2. phase = "frame" => Libsts2sanests(m.status) # "EOF"
          BY <1>0, <2>2, <2>3, <3>2, TakenError
        <4> QED  BY <1>f, <2>1, <4>1, <4>2
      <3>3. CASE m.type \notin {"SCANDATA", "ERRORSTATUS"}
        BY <1>f, <2>1, <2>3, <3>3 DEF ReadMessage
      <3> QED  BY <3>1, <3>2, <3>3
    <2> QED  BY <1>11, <1>f, <2>1, <2>3 DEF ReadRecv
  <1>h. CASE ReadCopy
    BY <1>h, <1>f DEF ReadCopy, FrameKnown
  <1>12. CASE Cancel
    BY <1>12, <1>b, <1>c DEF Cancel, Close
  <1>13. ASSUME NEW m \in Modes, SetMode(m) PROVE NoneLeft'
    BY <1>13, <1>a, <1>b, <1>d DEF SetMode, scandVars, callVars
  <1>14. CASE DaemonStep
    BY <1>0, <1>14, <1>a, <1>b, DaemonClear DEF DaemonStep, callVars
  <1>15. CASE UNCHANGED vars
    BY <1>15, <1>a, <1>b, <1>d DEF vars, scandVars, callVars
  <1> QED
    BY <1>1, <1>2, <1>3, <1>4, <1>g, <1>5, <1>6, <1>7, <1>8, <1>9, <1>11, <1>h, <1>12, <1>13,
       <1>14, <1>15
    DEF Next, Device, Frontend, Read

-----------------------------------------------------------------------------
(* Requests and their answers.                                             *)

\* What the answers of a socket become when recv() takes the first message.
LEMMA ReceivedAnswers ==
    ASSUME ScandTypeOK, OneAnswer, Receive, torn = 0
    PROVE  /\ \A i, j \in Answers' : i = j
           /\ Answers = {} => Answers' = {}
           /\ Answer(Head(rx)) => Answers' = {} /\ tx = <<>> /\ tx' = <<>>
  <1> USE Received DEF Answers
  <1>1. \A i \in Answers' : i + 1 \in Answers
    BY DEF Answer
  <1>2. Answer(Head(rx)) => 1 \in Answers
    OBVIOUS
  <1>3. \A i \in Answers' : i + 1 # 1
    OBVIOUS
  <1> HIDE DEF Answers
  <1>4. Answer(Head(rx)) => Answers' = {} /\ tx = <<>>
    BY <1>1, <1>2, <1>3 DEF OneAnswer
  <1>5. \A i, j \in Answers' : i = j
    <2> SUFFICES ASSUME NEW i \in Answers', NEW j \in Answers' PROVE i = j
      OBVIOUS
    <2>1. i + 1 = j + 1
      BY <1>1 DEF OneAnswer
    <2>2. i \in Int /\ j \in Int
      BY DEF Answers
    <2> QED  BY <2>1, <2>2
  <1> QED  BY <1>1, <1>4, <1>5

\* A request that is served leaves the socket empty, and its answer is the only one.
LEMMA GrownAnswers ==
    ASSUME ScandTypeOK, Answers = {}, NEW m, Grown(m)
    PROVE  /\ \A i, j \in Answers' : i = j
           /\ ~Answer(m) => Answers' = {}
  <1>1. Len(rx) \in Nat
    BY DEF ScandTypeOK
  <1>2. \A i \in Answers' : i = Len(rx) + 1 /\ rx'[i] = m
    BY <1>1 DEF Answers, Answer, Grown
  <1> QED  BY <1>2 DEF Answers, Answer

LEMMA MoreAnswers ==
    ASSUME ScandTypeOK, OneAnswer, NEW m, Grown(m), ~Answer(m)
    PROVE  Answers' = Answers
  <1>1. Len(rx) \in Nat
    BY DEF ScandTypeOK
  <1> QED  BY <1>1 DEF Answers, Answer, Grown

LEMMA ServedTail ==
    ASSUME ScandTypeOK, Len(tx) <= 1, tx # <<>>, tx' = Tail(tx)
    PROVE  tx' = <<>>
  <1>1. tx' \in Seq(Request) /\ Len(tx') = Len(tx) - 1 /\ Len(tx) \in Nat \ {0}
    BY HeadTailProperties, EmptySeq DEF ScandTypeOK
  <1> QED  BY <1>1, EmptySeq

LEMMA DaemonAnswers ==
    ASSUME ScandTypeOK, OneAnswer, DaemonStep
    PROVE  OneAnswer'
  <1>0. Len(rx) \in Nat /\ Len(tx) \in Nat /\ Awaiting' = Awaiting
    BY DEF ScandTypeOK, DaemonStep, callVars, Awaiting
  <1>1. ASSUME NEW t, NEW m \in Message, Begun(t, m) PROVE OneAnswer'
    <2>1. tx # <<>> /\ tx' = <<>> /\ Grown(m)
      BY <1>1, ServedTail DEF Begun, OneAnswer
    <2> QED  BY <1>0, <2>1, GrownAnswers DEF OneAnswer
  <1>2. ASSUME NEW m \in Message, Failed(m) PROVE OneAnswer'
    <2>1. CASE tx # <<>> /\ tx' = Tail(tx)
      <3>1. tx' = <<>> /\ Grown(m)
        BY <1>2, <2>1, ServedTail DEF Failed, OneAnswer
      <3> QED  BY <1>0, <2>1, <3>1, GrownAnswers DEF OneAnswer
    <2>2. CASE tx' = tx /\ m.status # "REJECT"
      <3>1. ~Answer(m) /\ Grown(m)
        BY <1>2, <2>2 DEF Failed, Answer
      <3> QED  BY <1>0, <2>2, <3>1, MoreAnswers DEF OneAnswer
    <2> QED  BY <1>2, <2>1, <2>2 DEF Failed
  <1>3. ASSUME NEW m \in Message, Sent(m) PROVE OneAnswer'
    <2>1. tx' = tx /\ ~Answer(m)
      BY <1>3 DEF Sent, Answer
    <2>2. Answers' = Answers
      <3>1. CASE Grown(m)
        BY <2>1, <3>1, MoreAnswers
      <3>2. CASE ~Grown(m)
        BY <1>0, <1>3, <2>1, <3>2 DEF Sent, Answers, Answer
      <3> QED  BY <3>1, <3>2
    <2> QED  BY <1>0, <2>1, <2>2 DEF OneAnswer
  <1>4. CASE Hangup
    <2>1. tx' = <<>> /\ Answers' = Answers
      BY <1>4 DEF Hangup, Answers, Answer
    <2> QED  BY <1>0, <2>1 DEF OneAnswer
  <1> QED  BY <1>1, <1>2, <1>3, <1>4, DaemonEffect DEF DaemonStep

LEMMA DaemonFits ==
    ASSUME ScandTypeOK, OneAnswer, AnswerFits, DaemonStep
    PROVE  AnswerFits'
  <1>0. /\ Len(rx) \in Nat
        /\ UNCHANGED <<pc, use_adf, req, params, scan_data_size>>
    BY DEF ScandTypeOK, DaemonStep, deviceVars, callVars
  <1>1. ASSUME NEW t \in {"SCAN", "SCANCONTINUE"}, NEW m \in Message, Begun(t, m)
        PROVE  AnswerFits'
    <2>1. /\ tx # <<>> /\ tx' = <<>> /\ tx[1].type = t /\ Grown(m)
          /\ m.type = t /\ m.image = image'
          /\ IF t = "SCAN" THEN image'.mode = tx[1].mode
                           ELSE image'.mode = image.mode /\ image'.size = image.size
      BY <1>1, ServedTail DEF Begun, OneAnswer
    <2>2. Awaiting /\ \A i \in 1 .. Len(rx) : rx[i].type \notin {"SCAN", "SCANCONTINUE"}
      BY <2>1 DEF OneAnswer, Answers, Answer
    <2>3. \A i \in 1 .. Len(rx') : rx'[i].type \in {"SCAN", "SCANCONTINUE"} => rx'[i] = m
      BY <1>0, <2>1, <2>2 DEF Grown
    <2>4. CASE pc = "recvScan"
      <3>1. t = "SCAN" /\ tx[1].mode = req /\ ~use_adf
        BY <2>1, <2>4 DEF AnswerFits
      <3> QED  BY <1>0, <2>1, <2>3, <2>4, <3>1 DEF AnswerFits
    <2>5. CASE pc = "recvContinue"
      <3>1. t = "SCANCONTINUE" /\ use_adf
        BY <2>1, <2>5 DEF AnswerFits
      <3> QED  BY <1>0, <2>1, <2>3, <2>5, <3>1 DEF AnswerFits
    <2> QED  BY <2>2, <2>4, <2>5 DEF Awaiting
  <1>2. ASSUME tx' = <<>> \/ tx' = tx, image' = image,
               \A i \in 1 .. Len(rx') :
                 rx'[i].type \in {"SCAN", "SCANCONTINUE"} => i \in 1 .. Len(rx) /\ rx'[i] = rx[i]
        PROVE  AnswerFits'
    BY <1>0, <1>2 DEF AnswerFits
  <1>3. ASSUME NEW m \in Message, Failed(m) PROVE AnswerFits'
    <2>1. tx' = <<>> \/ tx' = tx
      BY <1>3, ServedTail DEF Failed, OneAnswer
    <2> QED  BY <1>0, <1>2, <1>3, <2>1 DEF Failed, Grown
  <1>4. ASSUME NEW m \in Message, Sent(m) PROVE AnswerFits'
    BY <1>0, <1>2, <1>4 DEF Sent, Grown
  <1>5. CASE Hangup
    BY <1>2, <1>5 DEF Hangup
  <1> QED  BY <1>1, <1>3, <1>4, <1>5, DaemonEffect DEF DaemonStep

\* A request of start() is the only one.
LEMMA SendOne ==
    ASSUME ScandTypeOK, OneAnswer, ~Awaiting, NEW r \in Request, Send(r), Awaiting'
    PROVE  /\ OneAnswer' /\ tx' # <<>> /\ tx'[1] = r
           /\ Answers' = {}
           /\ UNCHANGED <<rx, image>>
  <1>1. tx = <<>> /\ Answers = {} /\ tx' = Append(tx, r) /\ rx' = rx
    BY DEF OneAnswer, Send
  <1>2. Len(tx') = 1 /\ tx' # <<>> /\ tx'[1] = r
    BY <1>1
  <1>3. Answers' = {}
    BY <1>1 DEF Answers, Answer
  <1> QED  BY <1>1, <1>2, <1>3 DEF OneAnswer, Send

\* A socket with nothing in it has no answer.
LEMMA NothingThere == rx = <<>> => Answers = {}
  BY DEF Answers

LEMMA LiveStep ==
    ASSUME Disciplined, StreamInv, Offline, InStep, FrameKnown,
           Live => OneAnswer /\ AnswerFits, [Next]_vars
    PROVE  Live' => OneAnswer' /\ AnswerFits'
  <1> SUFFICES ASSUME Live' PROVE OneAnswer' /\ AnswerFits'
    OBVIOUS
  <1>0. TypeOK /\ ScandTypeOK /\ CallState /\ WireInOrder /\ torn \in Nat
    BY DEF StreamInv, TypeOK, ScandTypeOK
  <1>t. Live => torn = 0
    BY <1>0 DEF InStep, Live
  <1>a. UNCHANGED <<rx, tx>> => Answers' = Answers
    BY DEF Answers, Answer
  <1>b. \A s : s \notin {"GOOD", "EOF"} /\ Return(s) => ~Live'
    BY DEF Return, Live
  <1>c. \A s : Return(s) /\ ~Live => ~Live'
    BY DEF Return, Live
  <1>d. UNCHANGED <<rx, tx, pc, use_adf, req, params, scan_data_size, image>> /\ Live =>
          OneAnswer' /\ AnswerFits'
    BY <1>a DEF OneAnswer, AnswerFits, Awaiting
  <1>e. rx' = <<>> /\ tx' = <<>> /\ (use_adf => Live) /\ ~Awaiting'
        /\ pc' \notin {"sendScan", "gotScan"}
        /\ UNCHANGED <<use_adf, params, scan_data_size, image>> => OneAnswer' /\ AnswerFits'
    BY DEF OneAnswer, AnswerFits, Answers, Awaiting
  <1>f. UNCHANGED <<rx, tx, use_adf, req, params, scan_data_size, image>> /\ Live
        /\ pc \in Reading /\ pc' \in Reading => OneAnswer' /\ AnswerFits'
    BY <1>a DEF OneAnswer, AnswerFits, Awaiting, Reading
  <1>1. CASE StartCall
    <2>1. UNCHANGED <<rx, tx, use_adf, params, scan_data_size, image>> /\ pc' = "start" /\ pc = "idle"
          /\ phase \in {"ready", "eof"}
      BY <1>1 DEF StartCall, MayStart, scandVars
    <2>2. CASE phase = "ready"
      <3>1. rx = <<>> /\ tx = <<>> /\ ~use_adf
        BY <2>2 DEF Offline
      <3> QED  BY <1>e, <2>1, <3>1 DEF Awaiting
    <2>3. CASE phase = "eof"
      BY <1>a, <2>1, <2>3 DEF Live, OneAnswer, AnswerFits, Awaiting
    <2> QED  BY <2>1, <2>2, <2>3
  <1>2. CASE StartConnect
    <2>1. ~Return("INVAL") /\ pc' = "sendScan" /\ pc = "start" /\ ~use_adf /\ Live
          /\ UNCHANGED <<use_adf, params, scan_data_size>>
      BY <1>2, <1>b DEF StartConnect, Live, deviceVars
    <2>2. CASE UNCHANGED scandVars
      BY <1>a, <2>1, <2>2 DEF OneAnswer, AnswerFits, Awaiting, scandVars
    <2>3. CASE Connect
      <3>1. rx' = <<>> /\ tx' = <<>> /\ Answers' = {}
        BY <2>3, NothingThere DEF Connect, Answers
      <3> QED  BY <2>1, <3>1 DEF OneAnswer, AnswerFits, Awaiting
    <2> QED  BY <1>2, <2>1, <2>2, <2>3 DEF StartConnect, OpenSucceeds
  <1>3. CASE StartSend
    <2>1. /\ Send([type |-> "SCAN", mode |-> mode]) /\ req' = mode /\ pc' = "recvScan"
          /\ pc = "sendScan" /\ Live /\ UNCHANGED use_adf
      BY <1>3, <1>b DEF StartSend, Live, deviceVars
    <2>2. [type |-> "SCAN", mode |-> mode] \in Request
      BY <1>0 DEF TypeOK, Request
    <2>3. /\ OneAnswer' /\ Answers' = {}
          /\ tx'[1] = [type |-> "SCAN", mode |-> mode]
      BY <1>0, <2>1, <2>2, SendOne DEF Awaiting
    <2>4. \A i \in 1 .. Len(rx') : rx'[i].type # "SCAN"
      BY <2>3 DEF Answers, Answer
    <2>5. ~use_adf
      BY <2>1 DEF AnswerFits
    <2> QED  BY <2>1, <2>3, <2>4, <2>5 DEF AnswerFits
  <1>4. CASE StartRecv
    <2>1. PICK m \in Arriving : Takes(m) /\ StartReply(m)
      BY <1>4, <1>b DEF StartRecv
    <2>2. pc = "recvScan" /\ UNCHANGED use_adf
      BY <1>4 DEF StartRecv
    <2>3. Live
      BY <1>c, <2>1 DEF StartReply, Live
    <2>4. m.type = "SCAN"
      <3>1. m.type # "ERRORSTATUS"
        BY <1>0, <1>b, <1>t, <2>1, <2>3, TakenError DEF StartReply
      <3> QED  BY <1>b, <2>1, <3>1 DEF StartReply
    <2>5. pc' = "gotScan" /\ params' = req /\ scan_data_size' = m.image.size
      BY <2>1, <2>4 DEF StartReply
    <2>6. Receive /\ m = Head(rx) /\ m = rx[1] /\ Len(rx) \in Nat \ {0} /\ image' = image
      BY <1>0, <1>t, <2>1, <2>3, TakenInStep
    <2>7. tx' = <<>> /\ Answers' = {}
      BY <1>0, <1>t, <2>3, <2>4, <2>6, ReceivedAnswers DEF Answer
    <2>8. image.mode = req /\ m.image.size = image.size /\ ~use_adf
      BY <2>2, <2>3, <2>4, <2>6 DEF AnswerFits
    <2> QED  BY <2>2, <2>5, <2>6, <2>7, <2>8 DEF OneAnswer, AnswerFits, Awaiting
  <1>g. CASE StartDone
    <2>1. /\ pc = "gotScan" /\ pc' = "idle" /\ Live
          /\ UNCHANGED <<rx, tx, params, scan_data_size, image>>
      BY <1>g, <1>c DEF StartDone, Return, scandVars
    <2> QED  BY <1>a, <2>1 DEF OneAnswer, AnswerFits, Awaiting
  <1>5. CASE ContinueSend
    <2>1. /\ Send([type |-> "SCANCONTINUE", mode |-> mode]) /\ pc' = "recvContinue"
          /\ pc = "start" /\ Live /\ use_adf
          /\ UNCHANGED <<use_adf, params, scan_data_size>>
      BY <1>5, <1>b DEF ContinueSend, Live, deviceVars
    <2>2. [type |-> "SCANCONTINUE", mode |-> mode] \in Request
      BY <1>0 DEF TypeOK, Request
    <2>3. /\ OneAnswer' /\ Answers' = {} /\ image' = image
          /\ tx'[1] = [type |-> "SCANCONTINUE", mode |-> mode]
      BY <1>0, <2>1, <2>2, SendOne DEF Awaiting
    <2>4. \A i \in 1 .. Len(rx') : rx'[i].type # "SCANCONTINUE"
      BY <2>3 DEF Answers, Answer
    <2> QED  BY <2>1, <2>3, <2>4 DEF AnswerFits
  <1>6. CASE ContinueRecv
    <2>1. PICK m \in Arriving : Takes(m) /\ ContinueReply(m)
      BY <1>6, <1>b DEF ContinueRecv
    <2>2. pc = "recvContinue" /\ UNCHANGED <<scan_data_size, params>>
      BY <1>6 DEF ContinueRecv
    <2>3. Live
      BY <1>c, <2>1 DEF ContinueReply, Live
    <2>4. Answer(m) /\ pc' \in {"idle", "start"} /\ (use_adf' => use_adf)
      <3>1. CASE m.type = "SCANCONTINUE"
        BY <2>1, <3>1 DEF ContinueReply, Return, Answer
      <3>2. CASE m.type = "ERRORSTATUS" /\ m.status = "REJECT"
        BY <2>1, <3>2 DEF ContinueReply, Answer
      <3>3. CASE m.type = "ERRORSTATUS" /\ m.status # "REJECT"
        BY <1>0, <1>b, <1>t, <2>1, <2>3, <3>3, TakenError DEF ContinueReply
      <3>4. CASE m.type \notin {"SCANCONTINUE", "ERRORSTATUS"}
        BY <1>b, <2>1, <3>4 DEF ContinueReply
      <3> QED  BY <3>1, <3>2, <3>3, <3>4
    <2>5. Receive /\ m = Head(rx) /\ image' = image
      BY <1>0, <1>t, <2>1, <2>3, TakenInStep
    <2>6. tx' = <<>> /\ Answers' = {}
      BY <1>0, <1>t, <2>3, <2>4, <2>5, ReceivedAnswers
    <2> QED  BY <2>2, <2>3, <2>4, <2>5, <2>6 DEF OneAnswer, AnswerFits, Awaiting
  <1>7. CASE ReadClosed
    BY <1>7, <1>b DEF ReadClosed
  <1>8. CASE ReadEof
    BY <1>8, <1>c, <1>d DEF ReadEof, Return, scandVars
  <1>9. ASSUME NEW n \in MaxLengths, ReadBuffered(n) \/ ReadWait(n)
        PROVE  OneAnswer' /\ AnswerFits'
    <2>1. Live /\ UNCHANGED <<rx, tx, use_adf, req, params, scan_data_size, image>>
          /\ pc = "idle" /\ pc' \in {"recvData", "copy"}
      BY <1>9 DEF ReadBuffered, ReadWait, Live, scandVars, deviceVars
    <2> QED  BY <1>f, <2>1 DEF Reading
  <1>11. CASE ReadRecv
    <2>1. PICK m \in Arriving : Takes(m) /\ ReadMessage(m)
      BY <1>11, <1>b DEF ReadRecv
    <2>2. pc = "recvData" /\ UNCHANGED <<use_adf, params, scan_data_size>>
      BY <1>11 DEF ReadRecv
    <2>3. pc' \in {"idle", "copy"} /\ Live
      BY <1>c, <2>1 DEF ReadMessage, Return, Live
    <2>4. Receive /\ image' = image
      BY <1>0, <1>t, <2>1, <2>3, TakenInStep
    <2>5. tx' = <<>> /\ Answers' = {}
      <3>1. tx' = tx
        BY <2>4 DEF Receive
      <3> QED  BY <1>0, <1>t, <2>2, <2>3, <2>4, <3>1, ReceivedAnswers DEF OneAnswer, Awaiting
    <2> QED  BY <2>2, <2>3, <2>4, <2>5 DEF OneAnswer, AnswerFits, Awaiting
  <1>h. CASE ReadCopy
    <2>1. Live /\ UNCHANGED <<rx, tx, use_adf, req, params, scan_data_size, image>>
          /\ pc = "copy" /\ pc' = "idle"
      BY <1>h, <1>c DEF ReadCopy, Return, scandVars
    <2> QED  BY <1>f, <2>1 DEF Reading
  <1>12. CASE Cancel
    BY <1>12 DEF Cancel, Live
  <1>13. ASSUME NEW m \in Modes, SetMode(m) PROVE OneAnswer' /\ AnswerFits'
    BY <1>13, <1>d DEF SetMode, scandVars, callVars, Live
  <1>14. CASE DaemonStep
    <2>1. Live
      BY <1>14 DEF DaemonStep, callVars, Live
    <2> QED  BY <1>0, <1>14, <2>1, DaemonAnswers, DaemonFits
  <1>15. CASE UNCHANGED vars
    BY <1>15, <1>d DEF vars, scandVars, deviceVars, callVars, Live
  <1> QED
    BY <1>1, <1>2, <1>3, <1>4, <1>g, <1>5, <1>6, <1>7, <1>8, <1>9, <1>11, <1>h, <1>12, <1>13,
       <1>14, <1>15
    DEF Next, Device, Frontend, Read

-----------------------------------------------------------------------------
(* The size, the mode and the end of a frame.                              *)

\* A start that succeeds has told the size and the mode of its frame to the device.
LEMMA FrameStarts ==
    ASSUME FrameKnown, phase' = "frame", phase = "starting",
           scan_data_size' = frame'.size, params' = frame'.mode, frame' \in Image,
           Position' = 0, scanning' = scanning
    PROVE  FrameKnown'
  BY ImageSize DEF FrameKnown

\* A copy keeps the reader inside the frame, and scanning set until its end.
LEMMA FrameCopies ==
    ASSUME TypeOK, CopyInBounds, FrameKnown, phase = "frame", phase' = "frame", CopyOut,
           UNCHANGED <<buffer_received, scan_data_size, params, frame>>
    PROVE  FrameKnown'
  <1>1. PICK cpsz \in Nat :
           /\ buffer_offset' = buffer_offset + cpsz
           /\ trns_data_size' = trns_data_size + cpsz
    BY CopyOutEffect DEF CopyInBounds
  <1>2. /\ trns_data_size \in Nat /\ frame.size \in Nat
        /\ buffer_offset \in Nat /\ buffer_received \in Nat
    BY ImageSize DEF TypeOK
  <1>3. Position' = Position /\ Position <= frame.size
    BY <1>1, <1>2 DEF Position, FrameKnown
  <1>4. ASSUME trns_data_size' < frame.size PROVE scanning'
    <2>1. trns_data_size < frame.size /\ scan_data_size > trns_data_size'
      BY <1>1, <1>2, <1>4 DEF FrameKnown, Live, Announced
    <2>2. scanning /\ scanning' = (scanning /\ (buffer_received = 0 \/ scan_data_size > trns_data_size'))
      BY <2>1 DEF FrameKnown, CopyOut
    <2> QED  BY <2>1, <2>2, Zenon
  <1> QED  BY <1>3, <1>4 DEF FrameKnown, Live, Announced

LEMMA FrameStep ==
    ASSUME Disciplined, StreamInv, Offline, InStep, PiecesFit, FrameKnown,
           Live => OneAnswer /\ AnswerFits, [Next]_vars
    PROVE  FrameKnown'
  <1>0. /\ TypeOK /\ ScandTypeOK /\ CallState /\ CopyInBounds /\ WireInOrder /\ ReadNext
        /\ torn \in Nat
    BY DEF StreamInv, TypeOK, ScandTypeOK
  <1>t. Live => torn = 0 /\ ~misled
    BY <1>0 DEF InStep, Live
  <1> USE DEF Live, Announced
  <1>a. \A s : s # "GOOD" /\ (s # "EOF" \/ phase # "frame") /\ Return(s) => FrameKnown'
    BY DEF Return, FrameKnown
  <1>b. phase' \in {"ready", "failed", "aborted"} => FrameKnown'
    BY DEF FrameKnown
  <1>c. phase = "starting" /\ UNCHANGED <<phase, scanning>> /\ pc' # "gotScan" => FrameKnown'
    BY DEF FrameKnown
  <1>d. phase' = phase /\ phase \notin {"starting", "frame", "eof"} => FrameKnown'
    BY DEF FrameKnown
  <1>e. ASSUME NEW s, Return(s), ~Live PROVE FrameKnown'
    BY <1>0, <1>b, <1>e DEF Return, TypeOK
  <1>f. pc \notin Reading => phase \notin {"frame", "eof", "failed"}
    BY <1>0 DEF CallState
  <1> USE DEF Reading
  <1>1. CASE StartCall
    BY <1>1 DEF StartCall, FrameKnown
  <1>2. CASE StartConnect
    BY <1>0, <1>2, <1>a, <1>c, <1>d, <1>f DEF StartConnect, deviceVars
  <1>3. CASE StartSend
    BY <1>0, <1>3, <1>a, <1>c, <1>d, <1>f DEF StartSend, deviceVars
  <1>4. CASE StartRecv
    <2>1. phase \notin {"frame", "eof"} /\ pc = "recvScan" /\ scanning' = scanning
      BY <1>4, <1>f DEF StartRecv
    <2>2. ASSUME NEW m \in Arriving, Takes(m), StartReply(m) PROVE FrameKnown'
      <3>1. CASE m.type = "SCAN"
        <4>1. /\ pc' = "gotScan" /\ phase' = phase /\ frame' = m.image
              /\ params' = req /\ scan_data_size' = m.image.size
          BY <2>2, <3>1 DEF StartReply
        <4>2. ASSUME Live PROVE m.image.mode = req
          <5>1. m = rx[1] /\ Len(rx) \in Nat \ {0}
            BY <1>0, <1>t, <2>2, <4>2, TakenInStep
          <5> QED  BY <2>1, <3>1, <4>2, <5>1 DEF AnswerFits
        <4> QED  BY <2>1, <4>1, <4>2 DEF FrameKnown
      <3>2. CASE m.type = "ERRORSTATUS"
        <4>1. Return(Libsts2sanests(m.status))
          BY <2>2, <3>2 DEF StartReply
        <4>2. Live => Libsts2sanests(m.status) \notin {"GOOD", "EOF"}
          BY <1>0, <1>t, <2>2, <3>2, TakenError
        <4> QED  BY <1>a, <1>e, <4>1, <4>2
      <3>3. CASE m.type \notin {"SCAN", "ERRORSTATUS"}
        BY <1>a, <2>2, <3>3 DEF StartReply
      <3> QED  BY <3>1, <3>2, <3>3
    <2> QED  BY <1>4, <1>a, <2>2 DEF StartRecv
  <1>g. CASE StartDone
    <2>1. Return("GOOD") /\ UNCHANGED <<scanning, scan_data_size, params, frame>> /\ pc = "gotScan"
      BY <1>g DEF StartDone
    <2>2. CASE phase = "starting"
      <3>1. phase' = "frame"
        BY <2>1, <2>2 DEF Return
      <3>2. Position' = 0
        BY <1>0, <1>g, <2>1 DEF StartDone, CallState, Position
      <3>3. scan_data_size' = frame'.size /\ params' = frame'.mode /\ frame' \in Image
        BY <1>0, <2>1, <2>2 DEF FrameKnown, TypeOK
      <3> QED  BY <2>1, <2>2, <3>1, <3>2, <3>3, FrameStarts
    <2>3. CASE phase # "starting"
      BY <1>e, <1>f, <2>1, <2>3
    <2> QED  BY <2>2, <2>3
  <1>5. CASE ContinueSend
    BY <1>0, <1>5, <1>a, <1>c, <1>d, <1>f DEF ContinueSend, deviceVars
  <1>6. CASE ContinueRecv
    <2>1. phase \notin {"frame", "eof"} /\ pc = "recvContinue"
          /\ UNCHANGED <<scanning, trns_data_size, buffer_offset, buffer_received>>
          /\ UNCHANGED <<scan_data_size, params>>
          /\ trns_data_size = 0 /\ buffer_offset = 0 /\ buffer_received = 0
      BY <1>0, <1>6, <1>f DEF ContinueRecv, CallState
    <2>2. ASSUME NEW m \in Arriving, Takes(m), ContinueReply(m) PROVE FrameKnown'
      <3>1. CASE m.type = "SCANCONTINUE"
        <4>1. Return("GOOD") /\ frame' = m.image
          BY <2>2, <3>1 DEF ContinueReply
        <4>2. CASE phase = "starting"
          <5>1. phase' = "frame"
            BY <4>1, <4>2 DEF Return
          <5>2. m = rx[1] /\ m \in Message /\ Len(rx) \in Nat \ {0}
            BY <1>0, <1>t, <2>2, <4>2, TakenInStep
          <5>3. m.image.mode = params /\ m.image.size = scan_data_size /\ m.image \in Image
            BY <2>1, <3>1, <4>2, <5>2 DEF AnswerFits, Message
          <5>4. Position' = 0
            BY <2>1 DEF Position
          <5> QED  BY <2>1, <4>1, <4>2, <5>1, <5>3, <5>4, FrameStarts
        <4>3. CASE phase # "starting"
          BY <1>e, <2>1, <4>1, <4>3
        <4> QED  BY <4>2, <4>3
      <3>2. CASE m.type = "ERRORSTATUS" /\ m.status = "REJECT"
        BY <1>c, <1>d, <2>1, <2>2, <3>2 DEF ContinueReply
      <3>3. CASE m.type = "ERRORSTATUS" /\ m.status # "REJECT"
        <4>1. Return(Libsts2sanests(m.status))
          BY <2>2, <3>3 DEF ContinueReply
        <4>2. Live => Libsts2sanests(m.status) \notin {"GOOD", "EOF"}
          BY <1>0, <1>t, <2>2, <3>3, TakenError
        <4> QED  BY <1>a, <1>e, <4>1, <4>2
      <3>4. CASE m.type \notin {"SCANCONTINUE", "ERRORSTATUS"}
        BY <1>a, <2>2, <3>4 DEF ContinueReply
      <3> QED  BY <3>1, <3>2, <3>3, <3>4
    <2> QED  BY <1>6, <1>a, <2>2 DEF ContinueRecv
  <1>7. CASE ReadClosed
    BY <1>7, <1>a DEF ReadClosed
  <1>8. CASE ReadEof
    <2>1. CASE phase = "frame"
      <3>1. trns_data_size = frame.size
        BY <1>0, <1>8, <2>1, ImageSize
        DEF ReadEof, HasData, Remaining, AtEnd, CopyInBounds, FrameKnown, Position, TypeOK
      <3> QED  BY <1>8, <2>1, <3>1 DEF ReadEof, Return, FrameKnown
    <2>2. CASE phase # "frame"
      BY <1>8, <1>a, <2>2 DEF ReadEof
    <2> QED  BY <2>1, <2>2
  <1>9. ASSUME NEW n \in MaxLengths, ReadBuffered(n) \/ ReadWait(n) PROVE FrameKnown'
    BY <1>9 DEF ReadBuffered, ReadWait, MayRead, FrameKnown, Position, deviceVars
  <1>11. CASE ReadRecv
    <2>1. /\ phase \notin {"eof", "starting"} /\ buffer_offset = buffer_received
          /\ UNCHANGED <<scanning, scan_data_size, trns_data_size, params, frame>>
      BY <1>0, <1>11 DEF ReadRecv, FrameKnown, CallState
    <2>2. ASSUME NEW m \in Arriving, Takes(m), ReadMessage(m) PROVE FrameKnown'
      <3>1. CASE m.type = "SCANDATA"
        <4>1. phase' = phase /\ buffer_offset' = 0 /\ buffer_received' = m.size /\ pc' = "copy"
          BY <2>2, <3>1 DEF ReadMessage
        <4>2. CASE phase = "frame"
          <5>1. m = rx[1] /\ m \in Message /\ Len(rx) \in Nat \ {0} /\ rx # <<>>
            BY <1>0, <1>t, <2>2, <4>2, TakenInStep DEF Receive
          <5>2. /\ m.size \in Nat /\ trns_data_size \in Nat /\ buffer_offset \in Nat
                /\ buffer_received \in Nat
            BY <1>0, <5>1 DEF Message, TypeOK
          <5>3. m.image = frame /\ m.from = Position /\ Position = trns_data_size
            BY <1>0, <1>t, <2>1, <3>1, <4>2, <5>1, <5>2 DEF ReadNext, Position
          <5>4. m.from + m.size <= m.image.size
            BY <3>1, <5>1 DEF PiecesFit
          <5>5. Position' = trns_data_size + m.size
            BY <2>1, <4>1, <5>2 DEF Position
          <5>6. Position' <= frame.size
            BY <5>2, <5>3, <5>4, <5>5
          <5> QED  BY <2>1, <4>1, <4>2, <5>6 DEF FrameKnown
        <4>3. CASE phase # "frame"
          BY <1>d, <2>1, <4>1, <4>3
        <4> QED  BY <4>2, <4>3
      <3>2. CASE m.type = "ERRORSTATUS"
        <4>1. Return(Libsts2sanests(m.status))
          BY <2>2, <3>2 DEF ReadMessage
        <4>2. Live => Libsts2sanests(m.status) \notin {"GOOD", "EOF"}
          BY <1>0, <1>t, <2>2, <3>2, TakenError
        <4> QED  BY <1>a, <1>e, <4>1, <4>2
      <3>3. CASE m.type \notin {"SCANDATA", "ERRORSTATUS"}
        BY <1>a, <2>2, <3>3 DEF ReadMessage
      <3> QED  BY <3>1, <3>2, <3>3
    <2> QED  BY <1>11, <1>a, <2>2 DEF ReadRecv
  <1>h. CASE ReadCopy
    <2>1. CASE phase = "frame"
      <3>1. phase' = "frame" /\ CopyOut
            /\ UNCHANGED <<buffer_received, scan_data_size, params, frame>>
        BY <1>h, <2>1 DEF ReadCopy, Return
      <3> QED  BY <1>0, <2>1, <3>1, FrameCopies
    <2>2. CASE phase # "frame"
      <3>1. phase \notin {"starting", "eof"} /\ Return("GOOD")
        BY <1>0, <1>h DEF ReadCopy, FrameKnown, CallState
      <3> QED  BY <1>e, <2>2, <3>1
    <2> QED  BY <2>1, <2>2
  <1>12. CASE Cancel
    BY <1>12, <1>b DEF Cancel
  <1>13. ASSUME NEW m \in Modes, SetMode(m) PROVE FrameKnown'
    BY <1>13 DEF SetMode, FrameKnown, Position, callVars
  <1>14. CASE DaemonStep
    BY <1>14 DEF DaemonStep, FrameKnown, Position, deviceVars, callVars
  <1>15. CASE UNCHANGED vars
    BY <1>15 DEF vars, FrameKnown, Position, deviceVars, callVars
  <1> QED
    BY <1>1, <1>2, <1>3, <1>4, <1>g, <1>5, <1>6, <1>7, <1>8, <1>9, <1>11, <1>h, <1>12, <1>13,
       <1>14, <1>15
    DEF Next, Device, Frontend, Read

-----------------------------------------------------------------------------
(* The theorems.                                                           *)

LEMMA FrameInit == Init => FrameInv
  <1> SUFFICES ASSUME Init PROVE FrameInv
    OBVIOUS
  <1>1. rx = <<>> /\ tx = <<>> /\ ~peer /\ dstate = "idle" /\ Answers = {} /\ Len(tx) = 0
    BY NothingThere DEF Init, ScandInit
  <1>2. PiecesFit /\ Offline /\ InStep /\ FrameKnown /\ NoneLeft
    BY <1>1
    DEF Init, ScandInit, PiecesFit, Offline, InStep, FrameKnown, NoneLeft, Live, Announced, Reading
  <1>3. ~Live
    BY DEF Init, Live
  <1> QED  BY <1>2, <1>3 DEF FrameInv

LEMMA FrameInvStep == StreamInv /\ FrameInv /\ [Next]_vars => FrameInv'
  <1> SUFFICES ASSUME StreamInv, FrameInv, [Next]_vars PROVE FrameInv'
    OBVIOUS
  <1>0. TypeOK /\ ScandTypeOK /\ PiecesFit /\ Offline
    BY DEF StreamInv, FrameInv, TypeOK
  <1>1. PiecesFit'
    <2>1. \A m \in Modes : [type |-> "SCAN", mode |-> m] \in Request
                          /\ [type |-> "SCANCONTINUE", mode |-> m] \in Request
      BY DEF Request
    <2>2. mode \in Modes
      BY <1>0 DEF TypeOK
    <2>3. \/ Connect \/ Disconnect \/ Receive \/ Tear \/ UNCHANGED scandVars
          \/ \E r \in Request : Send(r)
          \/ Daemon
      BY <2>1, <2>2
      DEF Next, Device, Frontend, Read, StartCall, StartConnect, StartSend, StartRecv, StartDone,
          ContinueSend, ContinueRecv, ReadClosed, ReadEof, ReadBuffered, ReadWait, ReadRecv,
          ReadCopy, Cancel, SetMode, DaemonStep, OpenSucceeds, OpenFails, Close, Takes, Receives,
          RecvFails, RecvInterrupted, vars
    <2> QED  BY <1>0, <2>3, PiecesStep
  <1>2. Offline'
    BY <1>0, OfflineStep
  <1>3. ASSUME Disciplined
        PROVE  InStep' /\ FrameKnown' /\ (Live' => OneAnswer' /\ AnswerFits')
    BY <1>0, <1>3, InStepStep, FrameStep, LiveStep DEF FrameInv
  <1>4. ASSUME Disciplined, ~Trailers PROVE NoneLeft'
    BY <1>0, <1>4, NoneLeftStep DEF FrameInv
  <1> QED  BY <1>1, <1>2, <1>3, <1>4 DEF FrameInv

\* What a disciplined session knows of its frame, of its request and of the
\* end of a page is what the daemon has sent and will send.
THEOREM FrameConsistent == Spec => []FrameInv
  <1>1. StreamInv /\ FrameInv /\ [Next]_vars => StreamInv' /\ FrameInv'
    BY StreamStep, FrameInvStep
  <1> QED  BY <1>1, StreamInit, FrameInit, PTL DEF Spec

\* sane_read says EOF when the frontend has all the bytes the image has, and
\* never hands out more: whatever the daemon does, for all images and lengths.
THEOREM FramesComplete ==
    ASSUME Disciplined
    PROVE  Spec => []EofComplete
  <1>1. StreamInv /\ FrameInv => EofComplete
    <2> SUFFICES ASSUME StreamInv, FrameInv PROVE EofComplete
      OBVIOUS
    <2>1. TypeOK /\ CopyInBounds /\ FrameKnown
      BY DEF StreamInv, FrameInv
    <2> QED  BY <2>1, ImageSize DEF EofComplete, FrameKnown, Position, CopyInBounds, TypeOK
  <1> QED  BY <1>1, FrameConsistent, StreamConsistent, PTL

\* Until the frame has all its bytes, sane_get_parameters describes the image
\* that is being delivered, also after the frontend has set other options.
THEOREM ParamsDescribeFrame ==
    ASSUME Disciplined
    PROVE  Spec => []ParamsOfFrame
  <1>1. FrameInv => ParamsOfFrame
    BY DEF FrameInv, FrameKnown, Live, Announced, ParamsOfFrame, GetParameters
  <1> QED  BY <1>1, FrameConsistent, PTL

\* With a daemon that sends no trailers, sane_start finds the answer to its
\* request in front of the socket, never a piece of the page before.
THEOREM RepliesAreNotData ==
    ASSUME Disciplined, ~Trailers
    PROVE  Spec => []ReplyIsNotData
  <1>1. StreamInv /\ FrameInv => ReplyIsNotData
    <2> SUFFICES ASSUME StreamInv, FrameInv, pc \in {"recvScan", "recvContinue"}, rx # <<>>
                 PROVE  Head(rx).type # "SCANDATA"
      BY DEF ReplyIsNotData, Awaiting
    <2>1. Head(rx) = rx[1]
      BY HeadAndTail DEF StreamInv, TypeOK, ScandTypeOK
    <2> QED  BY <2>1 DEF FrameInv, NoneLeft, Reading
  <1> QED  BY <1>1, FrameConsistent, StreamConsistent, PTL

\* Once the frontend has cancelled, no call hands out image bytes until the next
\* sane_start, for every frontend: neither a read that begins later, nor one that
\* waited for its message when the cancel came, nor a read after a start that the
\* cancel met behind its connect.  Not stopped are the copy of a read that was
\* past its check or its receive, which hands out that one piece, and a start
\* that the cancel met before its connect.
THEOREM CancelStopsData == Spec => NoDataAfterCancel
  <1> DEFINE Stays == /\ trns_data_size' <= trns_data_size
                      /\ Stopped' \/ phase' = "starting"
  <1>1. StreamInv /\ FrameInv /\ [Next]_vars => [Stopped => Stays]_vars
    <2> SUFFICES ASSUME StreamInv, FrameInv, [Next]_vars, Stopped
                 PROVE  Stays
      BY DEF vars
    <2>0. /\ sock # "conn" /\ pc \notin {"start", "copy"} /\ phase \in {"ready", "aborted"}
          /\ phase = "ready" => pc \in Reading
          /\ trns_data_size \in Nat /\ trns_data_size <= trns_data_size
      BY DEF Stopped, FrameInv, Offline, StreamInv, TypeOK, Reading
    <2>a. ASSUME UNCHANGED trns_data_size, NEW s, Return(s), sock' # "conn" PROVE Stays
      BY <2>0, <2>a DEF Stopped, Return
    <2>1. CASE StartCall
      BY <2>0, <2>1 DEF StartCall
    <2>2. CASE StartConnect \/ ContinueSend
      BY <2>0, <2>2 DEF StartConnect, ContinueSend
    <2>3. CASE StartSend
      BY <2>0, <2>3, <2>a DEF StartSend, Close, deviceVars
    <2>4. CASE StartRecv
      <3>1. \A m \in Arriving : ~Takes(m)
        BY <2>0 DEF Takes, Receives
      <3>2. Return("INVAL") /\ UNCHANGED <<trns_data_size, sock>>
        BY <2>4, <3>1 DEF StartRecv
      <3> QED  BY <2>0, <2>a, <3>2
    <2>5. CASE ContinueRecv
      <3>1. \A m \in Arriving : ~Takes(m)
        BY <2>0 DEF Takes, Receives
      <3>2. Return("INVAL") /\ UNCHANGED <<trns_data_size, sock>>
        BY <2>5, <3>1 DEF ContinueRecv
      <3> QED  BY <2>0, <2>a, <3>2
    <2>6. CASE StartDone
      BY <2>0, <2>6, <2>a DEF StartDone
    <2>7. CASE ReadClosed
      <3>1. (\E s : Return(s)) /\ UNCHANGED trns_data_size /\ sock' # "conn"
        BY <2>7 DEF ReadClosed, Close, deviceVars
      <3> QED  BY <2>a, <3>1
    <2>8. CASE ReadEof \/ \E n \in MaxLengths : ReadBuffered(n) \/ ReadWait(n)
      BY <2>0, <2>8 DEF ReadEof, ReadBuffered, ReadWait, IsOpen
    <2>9. CASE ReadRecv
      <3>1. \A m \in Arriving : ~Takes(m)
        BY <2>0 DEF Takes, Receives
      <3>2. Return("INVAL") /\ UNCHANGED <<trns_data_size, sock>>
        BY <2>9, <3>1 DEF ReadRecv
      <3> QED  BY <2>0, <2>a, <3>2
    <2>10. CASE ReadCopy
      BY <2>0, <2>10 DEF ReadCopy
    <2>11. CASE Cancel
      BY <2>0, <2>11 DEF Cancel, Close, Stopped
    <2>12. CASE (\E m \in Modes : SetMode(m)) \/ DaemonStep \/ UNCHANGED vars
      BY <2>0, <2>12 DEF SetMode, DaemonStep, vars, deviceVars, callVars, Stopped
    <2> QED
      BY <2>1, <2>2, <2>3, <2>4, <2>5, <2>6, <2>7, <2>8, <2>9, <2>10, <2>11, <2>12
      DEF Next, Device, Frontend, Read
  <1> QED  BY <1>1, FrameConsistent, StreamConsistent, PTL DEF Spec, NoDataAfterCancel

\* A frame begins empty, keeps its image and grows; it ends where it stands.
LEMMA FrameSteps ==
    ASSUME Disciplined, StreamInv, FrameInv, [Next]_vars
    PROVE  /\ phase' = "frame" =>
                \/ phase = "starting" /\ trns_data_size' = 0
                \/ phase = "frame" /\ frame' = frame /\ trns_data_size' >= trns_data_size
           /\ phase' = "eof" =>
                /\ phase \in {"frame", "eof"}
                /\ frame' = frame /\ trns_data_size' = trns_data_size
  <1> DEFINE Goal ==
           /\ phase' = "frame" =>
                \/ phase = "starting" /\ trns_data_size' = 0
                \/ phase = "frame" /\ frame' = frame /\ trns_data_size' >= trns_data_size
           /\ phase' = "eof" =>
                /\ phase \in {"frame", "eof"}
                /\ frame' = frame /\ trns_data_size' = trns_data_size
  <1>0. /\ TypeOK /\ CallState /\ CopyInBounds /\ WireInOrder /\ FrameKnown /\ InStep
        /\ torn \in Nat
    BY DEF StreamInv, FrameInv, TypeOK, ScandTypeOK
  <1>a. trns_data_size \in Nat /\ trns_data_size >= trns_data_size
    BY <1>0 DEF TypeOK
  <1>b. ASSUME phase' = phase, UNCHANGED <<frame, trns_data_size>> PROVE Goal
    BY <1>a, <1>b
  <1>1. CASE StartCall
    BY <1>1 DEF StartCall
  <1>2. CASE StartConnect \/ StartSend \/ StartRecv \/ StartDone \/ ContinueSend \/ ContinueRecv
    <2>1. pc \notin Reading /\ trns_data_size' = trns_data_size
      BY <1>2
      DEF StartConnect, StartSend, StartRecv, StartDone, ContinueSend, ContinueRecv, deviceVars,
          Reading
    <2>2. phase' = phase \/ \E s : Return(s)
      BY <1>2 DEF StartConnect, StartSend, StartRecv, StartReply, StartDone, ContinueSend,
                  ContinueRecv, ContinueReply
    <2>3. phase \notin {"frame", "eof"} /\ trns_data_size = 0
      BY <1>0, <2>1 DEF CallState
    <2> QED  BY <1>0, <2>1, <2>2, <2>3 DEF Return, TypeOK
  <1>3. CASE ReadClosed
    BY <1>3 DEF ReadClosed, MayRead, Return
  <1>4. CASE ReadEof
    BY <1>4 DEF ReadEof, MayRead, Return
  <1>5. ASSUME NEW n \in MaxLengths, ReadBuffered(n) \/ ReadWait(n) PROVE Goal
    BY <1>5, <1>b DEF ReadBuffered, ReadWait, deviceVars
  <1>6. CASE ReadRecv
    <2>1. phase \notin {"eof", "starting"} /\ UNCHANGED <<frame, trns_data_size>>
      BY <1>0, <1>6 DEF ReadRecv, FrameKnown, CallState, Reading
    <2>2. phase = "frame" => torn = 0
      BY <1>0 DEF InStep
    <2>3. ASSUME NEW s, Return(s), phase = "frame" => s # "EOF" PROVE Goal
      BY <1>a, <2>1, <2>3 DEF Return
    <2>4. ASSUME NEW m \in Arriving, Takes(m), ReadMessage(m) PROVE Goal
      <3>1. CASE m.type = "SCANDATA"
        BY <1>b, <2>1, <2>4, <3>1 DEF ReadMessage
      <3>2. CASE m.type = "ERRORSTATUS"
        <4>1. Return(Libsts2sanests(m.status))
          BY <2>4, <3>2 DEF ReadMessage
        <4>2. phase = "frame" => Libsts2sanests(m.status) # "EOF"
          BY <1>0, <2>2, <2>4, <3>2, TakenError
        <4> QED  BY <2>3, <4>1, <4>2
      <3>3. CASE m.type \notin {"SCANDATA", "ERRORSTATUS"}
        BY <2>3, <2>4, <3>3 DEF ReadMessage
      <3> QED  BY <3>1, <3>2, <3>3
    <2> QED  BY <1>6, <2>3, <2>4 DEF ReadRecv
  <1>7. CASE ReadCopy
    <2>1. phase \notin {"eof", "starting"} /\ frame' = frame /\ Return("GOOD") /\ CopyOut
      BY <1>0, <1>7 DEF ReadCopy, FrameKnown, CallState, Reading
    <2>2. PICK cpsz \in Nat : trns_data_size' = trns_data_size + cpsz
      BY <1>0, <2>1, CopyOutEffect DEF CopyInBounds
    <2>3. trns_data_size' >= trns_data_size
      BY <1>a, <2>2
    <2> QED  BY <2>1, <2>3 DEF Return
  <1>8. CASE Cancel
    BY <1>8 DEF Cancel
  <1>9. ASSUME NEW m \in Modes, SetMode(m) PROVE Goal
    BY <1>9, <1>b DEF SetMode, callVars
  <1>10. CASE DaemonStep \/ UNCHANGED vars
    BY <1>10, <1>b DEF DaemonStep, vars, deviceVars, callVars
  <1> QED
    BY <1>1, <1>2, <1>3, <1>4, <1>5, <1>6, <1>7, <1>8, <1>9, <1>10
    DEF Next, Device, Frontend, Read

\* DeviceBaseImpl, its connection and a disciplined frontend keep the promise
\* of SaneFrame, for all sizes of images, chunks and reads.
THEOREM SessionIsFrame ==
    ASSUME Disciplined
    PROVE  Spec => ImplementsFrame
  <1> USE DEF Frame!frameVars
  <1>1. Init => Frame!FrameInit
    BY DEF Init, Frame!FrameInit
  <1>2. StreamInv /\ FrameInv /\ FrameInv' /\ StreamInv' /\ [Next]_vars =>
          [Frame!FrameNext]_Frame!frameVars
    <2> SUFFICES ASSUME StreamInv, FrameInv, FrameInv', StreamInv', [Next]_vars
                 PROVE  [Frame!FrameNext]_Frame!frameVars
      OBVIOUS
    <2>1. /\ phase' = "frame" =>
               \/ phase = "starting" /\ trns_data_size' = 0
               \/ phase = "frame" /\ frame' = frame /\ trns_data_size' >= trns_data_size
          /\ phase' = "eof" =>
               /\ phase \in {"frame", "eof"}
               /\ frame' = frame /\ trns_data_size' = trns_data_size
      BY FrameSteps
    <2>2. /\ frame.size \in Sizes /\ frame'.size \in Sizes
          /\ frame.size \in Nat /\ frame'.size \in Nat
          /\ trns_data_size \in Nat /\ trns_data_size' \in Nat
      BY ImageSize DEF StreamInv, TypeOK, Image
    <2>3. /\ phase' = "frame" => trns_data_size' <= frame'.size
          /\ phase' = "eof" => trns_data_size' = frame'.size
      BY <2>2 DEF FrameInv, FrameKnown, Position, StreamInv, CopyInBounds, TypeOK
    <2>4. CASE phase' \notin {"frame", "eof"}
      BY <2>4 DEF Frame!FrameNext, Frame!DropFrame
    <2>5. CASE phase' = "frame" /\ phase = "starting"
      BY <2>1, <2>2, <2>5 DEF Frame!FrameNext, Frame!StartFrame
    <2>6. CASE phase' = "frame" /\ phase = "frame"
      BY <2>1, <2>2, <2>3, <2>6 DEF Frame!FrameNext, Frame!Deliver
    <2>7. CASE phase' = "eof" /\ phase = "frame"
      BY <2>1, <2>2, <2>3, <2>7 DEF Frame!FrameNext, Frame!FinishFrame
    <2>8. CASE phase' = "eof" /\ phase = "eof"
      BY <2>1, <2>8
    <2> QED  BY <2>1, <2>4, <2>5, <2>6, <2>7, <2>8
  <1> QED
    BY <1>1, <1>2, FrameConsistent, StreamConsistent, PTL
    DEF Spec, ImplementsFrame, Frame!FrameSpec
=============================================================================
