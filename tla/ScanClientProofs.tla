-------------------------- MODULE ScanClientProofs --------------------------
(***************************************************************************)
(* Theorems about ScanClient, for every set of modes, image sizes and      *)
(* chunk lengths, with and without write errors: scandif::scan leaves      *)
(* whole pages in order, reports the writes that fail in the middle of a   *)
(* page and stops when it is told to, whatever earlier scans left in the   *)
(* socket.                                                                 *)
(***************************************************************************)
EXTENDS ScanClient, ScandProofs

-----------------------------------------------------------------------------
(* Type correctness.                                                       *)

\* The values lsts takes besides the statuses of the daemon.
LEMMA StatusOfError ==
    ASSUME NEW m \in Message
    PROVE  m.status \in DaemonErrors \cup {"REJECT", "SUCCESS"}
  BY DEF Message

LEMMA TypeInit == Init => TypeOK
  <1> SUFFICES ASSUME Init PROVE TypeOK
    OBVIOUS
  <1>1. image \in Image
    BY DEF Init, ScandInit, Image
  <1>2. ScandTypeOK
    BY <1>1, EmptySeq DEF Init, ScandInit, ScandTypeOK
  <1>3. files \in Seq(File) /\ Len(files) = 0
    BY EmptySeq DEF Init
  <1> QED  BY <1>1, <1>2, <1>3 DEF Init, TypeOK

\* A page's file that is written to stays one of the files.
LEMMA WrittenFiles ==
    ASSUME TypeOK, files # <<>>, NEW m \in Message, NEW ok \in BOOLEAN,
           NEW s, s = [files EXCEPT ![Len(files)] = Written(@, m, ok)]
    PROVE  /\ s \in Seq(File) /\ Len(s) = Len(files) /\ Len(files) \in Nat \ {0}
           /\ \A k \in 1 .. Len(files) : k # Len(files) => s[k] = files[k]
           /\ files[Len(files)] \in File
           /\ s[Len(files)] = Written(files[Len(files)], m, ok)
           /\ s[Len(files)].image = files[Len(files)].image
           /\ s[Len(files)].got = files[Len(files)].got + m.size
           /\ s[Len(files)].inOrder <=>
                files[Len(files)].inOrder /\ m.image = page /\ m.from = total_read
           /\ s[Len(files)].written <=> files[Len(files)].written /\ ok
  <1> DEFINE f == files[Len(files)]
             g == Written(f, m, ok)
  <1>1. Len(files) \in Nat \ {0} /\ files \in [1 .. Len(files) -> File]
    BY EmptySeq, LenProperties DEF TypeOK
  <1>2. f \in File
    BY <1>1
  <1>3. s = [files EXCEPT ![Len(files)] = g]
    OBVIOUS
  <1> HIDE DEF f
  <1>4. /\ g \in File
        /\ g.image = f.image /\ g.got = f.got + m.size
        /\ g.inOrder = (f.inOrder /\ m.image = page /\ m.from = total_read)
        /\ g.written = (f.written /\ ok)
    <2>1. f.got + m.size \in Nat
      BY <1>2 DEF File, Message
    <2> QED  BY <1>2, <2>1 DEF File, Written
  <1> HIDE DEF g
  <1>5. s \in [1 .. Len(files) -> File]
    BY <1>1, <1>3, <1>4
  <1>6. s \in Seq(File) /\ Len(s) = Len(files)
    <2>1. Len(files) \in Nat
      BY <1>1
    <2>2. s \in Seq(File)
      BY <1>5, <2>1, SeqDef
    <2>3. DOMAIN s = 1 .. Len(files)
      BY <1>5
    <2>4. Len(s) \in Nat /\ DOMAIN s = 1 .. Len(s)
      BY <2>2, LenProperties
    <2>5. \A a, b \in Nat : 1 .. a = 1 .. b => a = b
      <3> TAKE a, b \in Nat
      <3> SUFFICES ASSUME 1 .. a = 1 .. b PROVE a = b
        OBVIOUS
      <3>1. \A k \in Nat \ {0} : k <= a <=> k <= b
        OBVIOUS
      <3> QED  BY <3>1
    <2> QED  BY <2>1, <2>2, <2>3, <2>4, <2>5
  <1>7. s[Len(files)] = g
    <2>1. Len(files) \in DOMAIN files
      BY <1>1
    <2> QED  BY <1>3, <2>1, Zenon
  <1>8. \A k \in 1 .. Len(files) : k # Len(files) => s[k] = files[k]
    BY <1>1, <1>3
  <1> QED  BY <1>1, <1>2, <1>4, <1>6, <1>7, <1>8 DEF f, g

\* The requests of a scan() are requests.
LEMMA RequestsType ==
    \A t \in {"SCAN", "SCANCONTINUE"}, m \in Modes : [type |-> t, mode |-> m] \in Request
  BY DEF Request

\* Every step is a socket call of the client, a step of the daemon, or leaves
\* the connection alone.
LEMMA ClientCalls ==
    ASSUME [Next]_vars
    PROVE  \/ Connect \/ Disconnect \/ Receive \/ Tear \/ UNCHANGED scandVars
           \/ \E r \in Request : Send(r)
           \/ Daemon
  BY RequestsType
  DEF Next, Client, Application, DaemonStep, Open, CloseConnection, Scan, CancelScan, Top, SendScan,
      RecvScan, SendContinue, RecvContinue, SendRequest, OpenPage, PageTop, RecvData, ClosePage,
      Finish, OpenSucceeds, OpenFails, Close, RecvFails, RecvInterrupted, Takes, Receives, vars

\* The message a scan() takes is one, and the first one of the socket as long as the
\* scan took none from a stream out of step.
LEMMA TakenType ==
    ASSUME ScandTypeOK, NEW m \in Arriving, Takes(m)
    PROVE  m \in Message /\ Receive /\ rx # <<>>
  BY ArrivingType DEF ScandTypeOK, Takes, Receives

LEMMA TakenInStep ==
    ASSUME ScandTypeOK, misled \in BOOLEAN, NEW m \in Arriving, Takes(m), ~misled'
    PROVE  /\ torn = 0 /\ ~misled /\ Receive /\ rx # <<>>
           /\ m = Head(rx) /\ m = rx[1] /\ 1 \in 1 .. Len(rx) /\ m \in Message
           /\ UNCHANGED <<dstate, image, sent, adf, torn>>
  <1>1. ~misled /\ ~(torn > 0)
    BY Zenon DEF Takes
  <1>2. torn = 0
    BY <1>1 DEF ScandTypeOK
  <1>3. Receive /\ m = rx[1] /\ rx # <<>>
    BY <1>2, ArrivingType, TakenType DEF ScandTypeOK
  <1> QED  BY <1>1, <1>2, <1>3, Received

\* One page more, one file more.
LEMMA TypeStep ==
    ASSUME TypeOK, FilesKnown, [Next]_vars
    PROVE  TypeOK'
  <1>0. ScandTypeOK'
    BY ClientCalls, SocketCallsType, DaemonType DEF TypeOK
  <1> USE DEF TypeOK
  <1>1. CASE Open \/ CloseConnection
    BY <1>0, <1>1 DEF Open, CloseConnection, OpenSucceeds, OpenFails, Close, clientVars
  <1>2. CASE Scan
    BY <1>0, <1>2, EmptySeq DEF Scan, ScandTypeOK
  <1>3. CASE CancelScan
    BY <1>0, <1>3 DEF CancelScan
  <1>4. CASE Top
    BY <1>0, <1>4 DEF Top, FilesKnown
  <1>5. CASE SendScan \/ SendContinue
    BY <1>0, <1>5 DEF SendScan, SendContinue, SendRequest, ReturnEarly
  <1>6. CASE RecvScan \/ RecvContinue
    <2>0. misled' \in BOOLEAN
      BY <1>6, Zenon DEF RecvScan, RecvContinue, Takes
    <2>1. \A m \in Arriving : Takes(m) =>
            /\ m.status \in DaemonErrors \cup {"REJECT", "SUCCESS"}
            /\ m.image \in Image /\ m.adf \in BOOLEAN
      BY TakenType DEF Message
    <2>2. page' \in Image
      BY <1>6, <2>1 DEF RecvScan, RecvContinue
    <2>3. used_src' \in BOOLEAN
      BY <1>6, <2>1, Zenon DEF RecvScan, RecvContinue
    <2>4. pc' \in {"idle", "open", "recvContinue"}
      BY <1>6 DEF RecvScan, RecvContinue, Unexpected, ReturnEarly
    <2>5. lsts' \in DaemonErrors \cup {"none", "REJECT", "SUCCESS", "CANCELED", "FIOERROR",
                                       "IOERROR", "END_OF_PAGE"}
      BY <1>6, <2>1 DEF RecvScan, RecvContinue, Unexpected, ReturnEarly
    <2> QED  BY <1>0, <1>6, <2>0, <2>2, <2>3, <2>4, <2>5 DEF RecvScan, RecvContinue
  <1>7. CASE OpenPage
    <2> DEFINE f == [image |-> page, got |-> 0, inOrder |-> TRUE, written |-> TRUE]
    <2>1. f \in File
      BY DEF File
    <2>2. Append(files, f) \in Seq(File) /\ Len(Append(files, f)) = Len(files) + 1
      BY <2>1, AppendProperties
    <2>3. Len(files) = pagecnt - 1 /\ Len(files) \in Nat
      BY <1>7, LenProperties DEF OpenPage, FilesKnown
    <2> HIDE DEF f
    <2>4. files' = files \/ files' = Append(files, f)
      BY <1>7 DEF OpenPage, f
    <2>5. files' \in Seq(File) /\ Len(files') \in {pagecnt - 1, pagecnt}
      BY <2>2, <2>3, <2>4
    <2> QED  BY <1>0, <1>7, <2>5 DEF OpenPage
  <1>8. CASE PageTop \/ ClosePage \/ Finish
    BY <1>0, <1>8 DEF PageTop, ClosePage, Finish
  <1>9. CASE RecvData
    <2>1. misled' \in BOOLEAN
      BY <1>9, Zenon DEF RecvData, Takes
    <2>2. CASE \E m \in Arriving : Takes(m) /\ \E ok \in BOOLEAN : WriteData(m, ok)
      <3> PICK m \in Arriving, ok \in BOOLEAN : Takes(m) /\ WriteData(m, ok)
        BY <2>2
      <3>1. m \in Message /\ m.size \in Nat /\ m.more \in BOOLEAN
        BY TakenType DEF Message
      <3>2. files # <<>>
        BY <1>9, EmptySeq DEF RecvData, FilesKnown
      <3>3. files' \in Seq(File) /\ Len(files') = Len(files)
        BY <3>1, <3>2, WrittenFiles DEF WriteData
      <3>4. has_more_docs' \in BOOLEAN
        BY <3>1, Zenon DEF WriteData
      <3>5. lsts' \in {"END_OF_PAGE", "SUCCESS", "FIOERROR"} /\ pc' \in {"page", "close"}
        BY DEF WriteData
      <3>6. total_read' \in Nat /\ late' \in Nat
        BY <3>1 DEF WriteData
      <3>7. UNCHANGED <<sock, canceled, pagecnt, used_src, page>>
        BY <1>9 DEF RecvData
      <3> QED  BY <1>0, <2>1, <3>3, <3>4, <3>5, <3>6, <3>7
    <2>3. CASE pc' = "idle" /\ UNCHANGED <<files, total_read, has_more_docs, late>>
      <3>1. lsts' \in DaemonErrors \cup {"REJECT", "SUCCESS", "IOERROR"}
        BY <1>9, <2>3, TakenType, StatusOfError DEF RecvData, Unexpected, ReturnEarly, WriteData
      <3> QED  BY <1>0, <1>9, <2>1, <2>3, <3>1 DEF RecvData
    <2> QED  BY <1>9, <2>2, <2>3 DEF RecvData, Unexpected, ReturnEarly
  <1>10. CASE DaemonStep \/ UNCHANGED vars
    BY <1>0, <1>10 DEF DaemonStep, vars, clientVars
  <1> QED
    BY <1>1, <1>2, <1>3, <1>4, <1>5, <1>6, <1>7, <1>8, <1>9, <1>10 DEF Next, Client, Application

-----------------------------------------------------------------------------
(* The order of the bytes and of the pages up to scan().                   *)

\* What is in the socket goes on behind the message that was received.
LEMMA ReceivedContinues ==
    ASSUME ConnInv, torn = 0, Receive, Head(rx).type \in {"SCAN", "SCANCONTINUE", "SCANDATA"},
           NEW im, NEW pos, im = Head(rx).image, pos = Head(rx).from + Head(rx).size
    PROVE  Continues(im, pos)'
  <1>1. /\ Head(rx) = rx[1] /\ Len(rx) \in Nat \ {0} /\ Len(rx') = Len(rx) - 1
        /\ rx' \in Seq(Message) /\ rx # <<>>
        /\ \A i \in 1 .. Len(rx') : rx'[i] = rx[i + 1]
        /\ UNCHANGED <<dstate, image, sent>>
    BY Received DEF ConnInv, Receive
  <1>2. ASSUME rx' # <<>>
        PROVE  /\ rx'[1].type = "SCANDATA" => rx'[1].image = im /\ rx'[1].from = pos
               /\ rx'[1].type = "SCANCONTINUE" => rx'[1].image.page = im.page + 1
    <2>1. Len(rx') >= 1 /\ rx'[1] = rx[2] /\ 1 \in 1 .. Len(rx) - 1
      BY <1>1, <1>2, EmptySeq
    <2>2. /\ rx[2].type = "SCANDATA" => After(rx[1], rx[2].image, rx[2].from)
          /\ rx[2].type = "SCANCONTINUE" => rx[2].image.page = rx[1].image.page + 1
      BY <2>1 DEF ConnInv, WireInOrder, PagesInOrder
    <2> QED  BY <1>1, <2>1, <2>2 DEF After
  <1>3. ASSUME rx' = <<>>
        PROVE  /\ dstate' = "page" => image' = im /\ sent' = pos
               /\ dstate' = "more" => image' = im
    <2>1. Len(rx) = 1
      BY <1>1, <1>3, EmptySeq
    <2>2. /\ dstate = "page" => After(rx[1], image, sent)
          /\ dstate = "more" => rx[1].image = image
      BY <1>1, <2>1 DEF ConnInv, WireInOrder, PagesInOrder
    <2> QED  BY <1>1, <2>2 DEF After
  <1> QED  BY <1>2, <1>3 DEF Continues

\* The daemon goes on where it is.
LEMMA DaemonContinues ==
    ASSUME ConnInv, Daemon, NEW im, NEW pos, Continues(im, pos)
    PROVE  Continues(im, pos)'
  <1>0. /\ ScandTypeOK /\ Len(rx) \in Nat /\ (rx = <<>> <=> Len(rx) = 0)
        /\ rx' \in Seq(Message) /\ (rx' = <<>> <=> Len(rx') = 0)
    BY DaemonType, EmptySeq DEF ConnInv, ScandTypeOK
  <1>1. ASSUME NEW m, Len(rx') > Len(rx), Len(rx') \in Nat, rx'[Len(rx) + 1] = m,
               \A i \in 1 .. Len(rx) : rx'[i] = rx[i],
               rx = <<>> => /\ m.type = "SCANDATA" => m.image = im /\ m.from = pos
                            /\ m.type = "SCANCONTINUE" => m.image.page = im.page + 1
        PROVE  Continues(im, pos)'
    <2>1. rx' # <<>>
      BY <1>0, <1>1
    <2>2. CASE rx = <<>>
      BY <1>0, <1>1, <2>1, <2>2 DEF Continues
    <2>3. CASE rx # <<>>
      <3>1. rx'[1] = rx[1]
        BY <1>0, <1>1, <2>3
      <3> QED  BY <2>1, <2>3, <3>1 DEF Continues
    <2> QED  BY <2>2, <2>3
  <1>2. ASSUME NEW t \in {"SCAN", "SCANCONTINUE"}, NEW m \in Message, Begun(t, m)
        PROVE  Continues(im, pos)'
    <2>1. /\ Grown(m) /\ m.type = t /\ m.image.page = image.page + 1
          /\ t = "SCANCONTINUE" => dstate = "more"
      BY <1>2 DEF Begun
    <2>2. rx = <<>> /\ t = "SCANCONTINUE" => image = im
      BY <2>1 DEF Continues
    <2> QED  BY <1>0, <1>1, <2>1, <2>2 DEF Grown
  <1>3. ASSUME NEW m \in Message, Failed(m) PROVE Continues(im, pos)'
    <2>1. Grown(m) /\ m.type = "ERRORSTATUS"
      BY <1>3 DEF Failed
    <2> QED  BY <1>0, <1>1, <2>1 DEF Grown
  <1>4. ASSUME NEW m \in Message, Sent(m) PROVE Continues(im, pos)'
    <2>1. /\ Len(rx') \in {Len(rx) + 1, Len(rx) + 2} /\ rx'[Len(rx) + 1] = m
          /\ \A i \in 1 .. Len(rx) : rx'[i] = rx[i]
          /\ m.type = "SCANDATA" /\ m.image = image /\ m.from = sent /\ dstate = "page"
      BY <1>4 DEF Sent, Grown
    <2>2. rx = <<>> => image = im /\ sent = pos
      BY <2>1 DEF Continues
    <2> QED  BY <1>0, <1>1, <2>1, <2>2
  <1>5. CASE Hangup
    BY <1>5 DEF Hangup, Continues
  <1> QED  BY <1>0, <1>2, <1>3, <1>4, <1>5, DaemonEffect

\* A page that has ended is followed by nothing but a trailer.
LEMMA TrailerIsEmpty ==
    ASSUME ConnInv, torn = 0, Receive, Head(rx).type = "SCANDATA", Head(rx).image = page,
           Head(rx).from = page.size
    PROVE  Head(rx).from + Head(rx).size = page.size
  <1>1. Head(rx) = rx[1] /\ rx[1] \in Message /\ 1 \in 1 .. Len(rx)
    BY Received DEF ConnInv
  <1>2. rx[1].size \in Nat /\ rx[1].from \in Nat /\ rx[1].image.size \in Nat
    BY <1>1, ImageSize DEF Message
  <1>3. rx[1].from + rx[1].size <= rx[1].image.size
    BY <1>1 DEF ConnInv, PiecesFit
  <1> QED  BY <1>1, <1>2, <1>3

\* When a page has ended scan() has its bytes.
LEMMA EndIsWhole ==
    ASSUME TypeOK, FileOfPage, ~misled, PageEnded
    PROVE  total_read = page.size
  <1>1. /\ files # <<>> /\ Len(files) \in Nat \ {0}
        /\ files[Len(files)].image = page /\ files[Len(files)].got = total_read
    BY EmptySeq DEF FileOfPage, OnPage, PageEnded, TypeOK
  <1>2. files[Len(files)].got = files[Len(files)].image.size
    BY <1>1 DEF FileOfPage
  <1> QED  BY <1>1, <1>2

LEMMA PageNextStep ==
    ASSUME TypeOK, ConnInv, PageNext, FileOfPage, [Next]_vars
    PROVE  PageNext'
  <1> USE DEF PageNext, OnPage, PageEnded, Place
  <1>0. ScandTypeOK /\ misled \in BOOLEAN
    BY DEF TypeOK
  <1>a. pc' \in {"idle", "finish", "sendScan", "recvScan"} => PageNext'
    OBVIOUS
  <1>b. /\ OnPage /\ UNCHANGED <<rx, dstate, image, sent, torn, page, misled>>
        /\ Place' = Place
        => PageNext'
    BY DEF Continues
  <1>1. CASE Open \/ CloseConnection
    BY <1>1, <1>a DEF Open, CloseConnection, clientVars
  <1>2. CASE Scan
    BY <1>2 DEF Scan
  <1>3. CASE CancelScan
    BY <1>3, <1>b DEF CancelScan, scandVars
  <1>4. CASE Top
    <2>1. pc' \in {"finish", "sendScan"} \/ pagecnt > 0
      BY <1>4 DEF Top, TypeOK
    <2> QED  BY <1>4, <1>a, <1>b, <2>1 DEF Top, scandVars
  <1>5. CASE SendScan
    BY <1>5, <1>a DEF SendScan, SendRequest, ReturnEarly
  <1>6. CASE SendContinue
    BY <1>6, <1>a, <1>b DEF SendContinue, SendRequest, ReturnEarly, Send
  <1>7. CASE RecvScan
    <2>1. ASSUME NEW m \in Arriving, Takes(m), m.type = "SCAN", pc' = "open", page' = m.image
          PROVE  PageNext'
      <3> SUFFICES ASSUME ~misled' PROVE torn' = 0 /\ Continues(page, Place)'
        OBVIOUS
      <3>1. torn = 0 /\ torn' = 0 /\ Receive /\ m = Head(rx) /\ m = rx[1] /\ 1 \in 1 .. Len(rx)
        BY <1>0, <2>1, TakenInStep
      <3>2. m.from + m.size = 0
        BY <2>1, <3>1 DEF ConnInv, WireInOrder
      <3> QED  BY <2>1, <3>1, <3>2, ReceivedContinues
    <2> QED  BY <1>7, <1>a, <2>1 DEF RecvScan, Unexpected, ReturnEarly
  <1>8. CASE RecvContinue
    <2>1. ASSUME NEW m \in Arriving, Takes(m), m.type = "SCANCONTINUE", pc' = "open",
                 page' = m.image
          PROVE  PageNext'
      <3> SUFFICES ASSUME ~misled' PROVE torn' = 0 /\ Continues(page, Place)'
        OBVIOUS
      <3>1. torn = 0 /\ torn' = 0 /\ Receive /\ m = Head(rx) /\ m = rx[1] /\ 1 \in 1 .. Len(rx)
        BY <1>0, <2>1, TakenInStep
      <3>2. m.from + m.size = 0
        BY <2>1, <3>1 DEF ConnInv, WireInOrder
      <3> QED  BY <2>1, <3>1, <3>2, ReceivedContinues
    <2>2. ASSUME NEW m \in Arriving, Takes(m), m.type = "SCANDATA", UNCHANGED <<pc, page>>
          PROVE  PageNext'
      <3> SUFFICES ASSUME ~misled' PROVE torn' = 0 /\ Continues(page, Place)'
        OBVIOUS
      <3>1. /\ torn = 0 /\ torn' = 0 /\ ~misled /\ Receive
            /\ m = Head(rx) /\ m = rx[1] /\ rx # <<>>
        BY <1>0, <2>2, TakenInStep
      <3>2. total_read = page.size /\ total_read' = total_read
        BY <1>8, <3>1, EndIsWhole DEF RecvContinue
      <3>3. m.image = page /\ m.from = total_read
        BY <1>8, <2>2, <3>1 DEF RecvContinue, Continues
      <3>4. m.from + m.size = total_read
        BY <2>2, <3>1, <3>2, <3>3, TrailerIsEmpty
      <3> QED  BY <1>8, <2>2, <3>1, <3>2, <3>3, <3>4, ReceivedContinues DEF RecvContinue
    <2> QED  BY <1>8, <1>a, <2>1, <2>2 DEF RecvContinue, Unexpected, ReturnEarly
  <1>9. CASE OpenPage
    BY <1>9, <1>a, <1>b DEF OpenPage, scandVars
  <1>10. CASE PageTop
    <2>1. CASE pc' = "close" /\ lsts' = "CANCELED"
      BY <2>1
    <2> QED  BY <1>10, <1>b, <2>1 DEF PageTop, scandVars
  <1>11. CASE RecvData
    <2>1. ASSUME NEW m \in Arriving, Takes(m), m.type = "SCANDATA",
                 NEW ok \in BOOLEAN, WriteData(m, ok)
          PROVE  PageNext'
      <3> SUFFICES ASSUME ~misled' PROVE torn' = 0 /\ Continues(page, Place)'
        OBVIOUS
      <3>1. /\ torn = 0 /\ torn' = 0 /\ ~misled /\ Receive
            /\ m = Head(rx) /\ m = rx[1] /\ rx # <<>>
        BY <1>0, <2>1, TakenInStep
      <3>2. m.image = page /\ m.from = total_read
        BY <1>11, <2>1, <3>1 DEF RecvData, Continues
      <3>3. total_read' = total_read + m.size /\ pc' \in {"page", "close"}
        BY <2>1 DEF WriteData
      <3>4. page' = page
        BY <1>11 DEF RecvData
      <3> QED  BY <2>1, <3>1, <3>2, <3>3, <3>4, ReceivedContinues
    <2> QED  BY <1>11, <1>a, <2>1 DEF RecvData, Unexpected, ReturnEarly
  <1>12. CASE ClosePage
    <2>1. pc' = "top" => lsts = "END_OF_PAGE"
      BY <1>12 DEF ClosePage
    <2> QED  BY <1>12, <1>a, <1>b, <2>1 DEF ClosePage, scandVars
  <1>13. CASE Finish
    BY <1>13, <1>a DEF Finish
  <1>14. CASE DaemonStep
    <2>1. torn' = torn
      BY <1>14 DEF DaemonStep, Daemon, ServeScan, ServeContinue, CanServe, SendData, FailPage, Hangup
    <2> QED  BY <1>14, <2>1, DaemonContinues DEF DaemonStep, clientVars
  <1>15. CASE UNCHANGED vars
    BY <1>15, <1>b DEF vars, scandVars, clientVars
  <1> QED
    BY <1>1, <1>2, <1>3, <1>4, <1>5, <1>6, <1>7, <1>8, <1>9, <1>10, <1>11, <1>12, <1>13,
       <1>14, <1>15
    DEF Next, Client, Application

-----------------------------------------------------------------------------
(* What scan() knows of its job.                                           *)

\* A step of the daemon begins a later page, or leaves the page there is and
\* ends it or what follows it.
LEMMA DaemonJob ==
    ASSUME ScandTypeOK, Daemon
    PROVE  \/ image'.page = image.page + 1
           \/ /\ UNCHANGED <<image, adf>>
              /\ dstate # "page" => dstate' \in {dstate, "idle"}
  BY DaemonEffect DEF Begun, Failed, Sent, Hangup

LEMMA JobKnownStep ==
    ASSUME TypeOK, ConnInv, PageNext, FilesKnown, JobKnown, [Next]_vars
    PROVE  JobKnown'
  <1> USE DEF JobKnown, OnPage, PageEnded
  <1>0. ScandTypeOK /\ page.page \in Nat /\ image.page \in Nat /\ misled \in BOOLEAN
    BY DEF TypeOK, ScandTypeOK, Image
  <1>a. ASSUME UNCHANGED <<image, adf, dstate, page, used_src>>, ~misled' => ~misled,
               pc' \in {"idle", "finish", "sendScan", "recvScan"},
               pc' = "finish" => lsts' # "SUCCESS"
        PROVE  JobKnown'
    BY <1>a
  <1>b. ASSUME UNCHANGED <<image, adf, page, misled>>, dstate' = "idle", pc' = "idle"
        PROVE  JobKnown'
    BY <1>b
  <1>c. ASSUME NEW m \in Arriving, Takes(m)
        PROVE  /\ ~misled' => ~misled
               /\ UNCHANGED <<image, adf, dstate>>
    BY <1>0, <1>c, Zenon, TakenType DEF Takes, Receives, Receive
  <1>d. ASSUME NEW m \in Arriving, Takes(m), ~misled'
        PROVE  /\ ~misled /\ torn = 0 /\ rx # <<>> /\ UNCHANGED <<image, adf, dstate, sent>>
               /\ m = rx[1] /\ m = Head(rx)
               /\ m.type \in {"SCAN", "SCANCONTINUE", "SCANDATA"} => PageKnown(rx[1])
    <2>1. /\ ~misled /\ torn = 0 /\ rx # <<>> /\ UNCHANGED <<image, adf, dstate, sent>>
          /\ m = rx[1] /\ m = Head(rx) /\ 1 \in 1 .. Len(rx)
      BY <1>0, <1>d, TakenInStep
    <2> QED  BY <2>1, PagesByMessage DEF ConnInv
  <1>1. CASE Open \/ CloseConnection
    BY <1>1, <1>b DEF Open, CloseConnection, OpenSucceeds, OpenFails, Connect, Disconnect, Close,
                      clientVars
  <1>2. CASE Scan
    BY <1>0, <1>2 DEF Scan, scandVars
  <1>3. CASE CancelScan
    BY <1>3 DEF CancelScan, scandVars
  <1>4. CASE Top
    BY <1>4, <1>0 DEF Top, TypeOK, scandVars
  <1>5. CASE SendScan
    BY <1>5, <1>a DEF SendScan, SendRequest, ReturnEarly, Send, scandVars
  <1>6. CASE SendContinue
    BY <1>6, <1>a DEF SendContinue, SendRequest, ReturnEarly, Send, scandVars
  <1>7. CASE RecvScan
    <2>1. ASSUME NEW m \in Arriving, Takes(m), m.type = "SCAN", pc' = "open", page' = m.image,
                 used_src' = m.adf
          PROVE  JobKnown'
      <3> SUFFICES ASSUME ~misled' PROVE JobKnown'
        OBVIOUS
      <3>1. PageKnown(rx[1]) /\ m = rx[1] /\ UNCHANGED <<image, adf, dstate>>
        BY <1>d, <2>1
      <3> QED  BY <2>1, <3>1 DEF PageKnown
    <2>2. CASE /\ pc' = "idle" /\ UNCHANGED <<page, used_src, image, adf, dstate>>
               /\ ~misled' => ~misled
      BY <1>a, <2>2
    <2>3. CASE RecvFails /\ pc' = "idle" /\ UNCHANGED <<page, used_src, misled>>
      BY <2>2, <2>3 DEF RecvFails, Tear, scandVars
    <2> QED  BY <1>7, <1>c, <2>1, <2>2, <2>3 DEF RecvScan, Unexpected, ReturnEarly
  <1>8. CASE RecvContinue
    <2>0. pc = "recvContinue" /\ UNCHANGED used_src
      BY <1>8 DEF RecvContinue
    <2>1. ASSUME NEW m \in Arriving, Takes(m), m.type = "SCANCONTINUE", pc' = "open",
                 page' = m.image
          PROVE  JobKnown'
      <3> SUFFICES ASSUME ~misled' PROVE JobKnown'
        OBVIOUS
      <3>1. PageKnown(rx[1]) /\ m = rx[1] /\ ~misled /\ UNCHANGED <<image, adf, dstate>>
        BY <1>d, <2>1
      <3>2. adf \in BOOLEAN /\ used_src' = used_src /\ used_src \in BOOLEAN /\ used_src
        BY <2>0, <3>1 DEF TypeOK, ScandTypeOK
      <3>3. image.page = page'.page => image = page' /\ adf
        BY <2>1, <3>1 DEF PageKnown
      <3> QED  BY <2>1, <3>1, <3>2, <3>3 DEF PageKnown
    <2>2. ASSUME NEW m \in Arriving, Takes(m), UNCHANGED <<pc, page, lsts>>
          PROVE  JobKnown'
      <3>1. UNCHANGED <<page, used_src, image, adf, dstate>> /\ (~misled' => ~misled)
        BY <1>c, <2>0, <2>2
      <3>2. pc' = "recvContinue" /\ pc = "recvContinue"
        BY <2>0, <2>2
      <3> SUFFICES ASSUME ~misled' PROVE JobKnown'
        OBVIOUS
      <3> QED  BY <3>1, <3>2
    <2>3. CASE /\ pc' = "idle" /\ UNCHANGED <<page, image, adf, dstate>>
               /\ ~misled' => ~misled
      BY <1>a, <2>0, <2>3
    <2>4. CASE (RecvFails \/ RecvInterrupted) /\ pc' = "idle" /\ UNCHANGED <<page, misled>>
      BY <2>3, <2>4 DEF RecvFails, RecvInterrupted, Tear, scandVars
    <2> QED  BY <1>8, <1>c, <2>1, <2>2, <2>3, <2>4 DEF RecvContinue, Unexpected, ReturnEarly
  <1>9. CASE OpenPage
    BY <1>9 DEF OpenPage, scandVars
  <1>10. CASE PageTop
    BY <1>10 DEF PageTop, scandVars
  <1>11. CASE RecvData
    <2>0. pc = "recvData" /\ UNCHANGED <<page, used_src>>
      BY <1>11 DEF RecvData
    <2>1. ASSUME NEW m \in Arriving, Takes(m), m.type = "SCANDATA",
                 NEW ok \in BOOLEAN, WriteData(m, ok)
          PROVE  JobKnown'
      <3> SUFFICES ASSUME ~misled' PROVE JobKnown'
        OBVIOUS
      <3>0. /\ PageKnown(rx[1]) /\ m = rx[1] /\ ~misled /\ rx # <<>>
            /\ UNCHANGED <<image, adf, dstate, sent>>
        BY <1>d, <2>1
      <3>1. m.image = page
        BY <2>0, <2>1, <3>0 DEF PageNext, Continues
      <3>2. /\ pc' \in {"page", "close"}
            /\ pc' = "close" /\ lsts' = "END_OF_PAGE" => Last(m) /\ has_more_docs' = m.more
        BY <2>1 DEF WriteData
      <3>3. ASSUME image.page = page.page, Last(m)
            PROVE  dstate # "page" /\ (dstate = "more" => m.more)
        <4>a. image = page
          BY <2>0, <3>0, <3>3
        <4>2. dstate = "more" => m.more
          BY <2>1, <3>0, <3>1, <3>3, <4>a DEF PageKnown
        <4>3. image.size <= sent
          BY <2>1, <3>0, <3>1, <3>3, <4>a DEF PageKnown, Last
        <4>4. image.size \in Nat /\ sent \in Nat /\ (dstate = "page" => sent < image.size)
          BY <1>0, ImageSize DEF ScandTypeOK, ConnInv, PiecesFit
        <4> QED  BY <4>2, <4>3, <4>4
      <3> QED  BY <2>0, <2>1, <3>0, <3>2, <3>3
    <2>2. CASE /\ pc' = "idle" /\ UNCHANGED <<image, adf, dstate>>
               /\ ~misled' => ~misled
      BY <1>a, <2>0, <2>2
    <2>3. CASE (RecvFails \/ RecvInterrupted) /\ pc' = "idle" /\ UNCHANGED misled
      BY <2>2, <2>3 DEF RecvFails, RecvInterrupted, Tear, scandVars
    <2> QED  BY <1>11, <1>c, <2>1, <2>2, <2>3 DEF RecvData, Unexpected, ReturnEarly
  <1>12. CASE ClosePage
    <2>1. CASE pc' = "top"
      BY <1>12, <2>1 DEF ClosePage, scandVars
    <2>2. CASE pc' = "finish" /\ lsts = "END_OF_PAGE"
      <3> SUFFICES ASSUME ~misled' PROVE JobKnown'
        OBVIOUS
      <3>0. ~misled /\ pc = "close" /\ (dstate = "more" => adf)
        BY <1>12 DEF ClosePage, ConnInv, PagesInOrder
      <3>1. image.page = page.page => dstate # "page" /\ (dstate = "more" => has_more_docs /\ adf)
        BY <2>2, <3>0
      <3>2. image.page = page.page => dstate = "idle"
        BY <1>0, <1>12, <2>2, <3>1 DEF ClosePage, ScandTypeOK
      <3> QED  BY <1>12, <2>2, <3>2 DEF ClosePage, scandVars
    <2>3. CASE pc' = "finish" /\ lsts # "END_OF_PAGE"
      <3>1. lsts' # "SUCCESS"
        BY <1>12, <2>3 DEF ClosePage, FilesKnown
      <3> QED  BY <1>12, <1>a, <2>3, <3>1 DEF ClosePage, scandVars
    <2> QED  BY <1>12, <2>1, <2>2, <2>3 DEF ClosePage
  <1>13. CASE Finish
    BY <1>13, <1>a DEF Finish, scandVars
  <1>14. CASE DaemonStep
    <2>1. /\ UNCHANGED clientVars
          /\ \/ image'.page = image.page + 1
             \/ /\ UNCHANGED <<image, adf>>
                /\ dstate # "page" => dstate' \in {dstate, "idle"}
      BY <1>0, <1>14, DaemonJob DEF DaemonStep
    <2> QED  BY <1>0, <2>1 DEF clientVars
  <1>15. CASE UNCHANGED vars
    BY <1>15 DEF vars, scandVars, clientVars
  <1> QED
    BY <1>1, <1>2, <1>3, <1>4, <1>5, <1>6, <1>7, <1>8, <1>9, <1>10, <1>11, <1>12, <1>13,
       <1>14, <1>15
    DEF Next, Client, Application

-----------------------------------------------------------------------------
(* The files of a scan.                                                    *)

FilesInv == FilesKnown /\ FileOfPage /\ PagesReceived /\ WriteErrorsEnd

\* Nothing of the files depends on the connection.
LEMMA FilesStay ==
    ASSUME FilesInv, UNCHANGED <<files, page, pc, pagecnt, lsts, total_read>>,
           ~misled' => ~misled
    PROVE  FilesInv'
  BY DEF FilesInv, FilesKnown, FileOfPage, PagesReceived, WriteErrorsEnd, OnPage, PageEnded

\* scan() returns from the middle of a page with an error.
LEMMA FilesReturn ==
    ASSUME TypeOK, FilesInv, UNCHANGED files, pc' = "idle",
           ~misled' => ~misled /\ lsts' # "SUCCESS",
           pc \in {"sendScan", "recvScan", "sendContinue", "recvContinue", "recvData"}
    PROVE  FilesInv'
  <1>1. FilesKnown' /\ FileOfPage'
    BY DEF FilesInv, FilesKnown, FileOfPage, OnPage, PageEnded
  <1>2. PagesReceived'
    BY DEF FilesInv, PagesReceived
  <1>3. ASSUME ~misled' PROVE WriteErrorsEnd'
    <2>0. ~misled
      BY <1>3
    <2>1. Len(files) \in Nat
      BY LenProperties DEF TypeOK
    <2>2. ASSUME NEW k \in 1 .. Len(files), ~files[k].written, k = Len(files)
          PROVE  files[k].got = files[k].image.size
      <3>1. pc # "recvData"
        BY <2>2 DEF FilesInv, FilesKnown
      <3>2. pc \notin {"sendScan", "recvScan"}
        BY <2>1, <2>2 DEF FilesInv, FilesKnown
      <3> QED  BY <2>0, <2>2, <3>1, <3>2 DEF FilesInv, FileOfPage, PageEnded
    <2>3. ASSUME NEW k \in 1 .. Len(files), k < Len(files)
          PROVE  files[k].got = files[k].image.size
      BY <2>0, <2>3 DEF FilesInv, FileOfPage
    <2> QED  BY <2>1, <2>2, <2>3 DEF WriteErrorsEnd
  <1> QED  BY <1>1, <1>2, <1>3 DEF FilesInv, WriteErrorsEnd

\* An error the daemon reports is none of success.
LEMMA UnexpectedFails ==
    ASSUME TypeOK, ConnInv, NEW m \in Arriving, Takes(m), Unexpected(m)
    PROVE  pc' = "idle" /\ (~misled' => ~misled /\ lsts' # "SUCCESS")
  <1>1. pc' = "idle"
    BY DEF Unexpected, ReturnEarly
  <1>2. ASSUME ~misled' PROVE ~misled /\ lsts' # "SUCCESS"
    <2>1. ~misled /\ m = rx[1] /\ 1 \in 1 .. Len(rx)
      BY <1>2, TakenInStep DEF TypeOK
    <2> QED  BY <2>1 DEF Unexpected, ReturnEarly, ConnInv, WireInOrder
  <1> QED  BY <1>1, <1>2

\* A message that is written leaves scan() in its page or at the end of it.
LEMMA PieceCounted ==
    ASSUME TypeOK, FilesKnown, pc = "recvData", NEW m \in Message, NEW ok \in BOOLEAN,
           WriteData(m, ok), UNCHANGED <<page, pagecnt>>
    PROVE  FilesKnown'
  <1>1. Len(files) = pagecnt /\ files # <<>> /\ files[Len(files)].written /\ pagecnt > 0
    BY EmptySeq DEF FilesKnown
  <1>2. Len(files') = Len(files) /\ (files'[Len(files)].written <=> ok)
    BY <1>1, WrittenFiles DEF WriteData
  <1>a. lsts' \in {"END_OF_PAGE", "FIOERROR"} \/ (lsts' = "SUCCESS" /\ ok)
    <2>1. lsts' = IF Last(m) THEN "END_OF_PAGE" ELSE IF ok THEN "SUCCESS" ELSE "FIOERROR"
      BY DEF WriteData
    <2> DEFINE last == Last(m)
    <2>2. last \in BOOLEAN
      BY DEF Last
    <2> HIDE DEF last
    <2>3. lsts' = IF last THEN "END_OF_PAGE" ELSE IF ok THEN "SUCCESS" ELSE "FIOERROR"
      BY <2>1 DEF last
    <2> QED  BY <2>2, <2>3
  <1>3. \/ lsts' \in {"END_OF_PAGE", "FIOERROR"} /\ pc' = "close"
        \/ lsts' = "SUCCESS" /\ pc' = "page" /\ ok
    BY <1>a DEF WriteData
  <1> QED  BY <1>1, <1>2, <1>3 DEF FilesKnown

\* A piece of the page goes to the end of its file.
LEMMA FilesWritten ==
    ASSUME TypeOK, ConnInv, FilesInv, PageNext, pc = "recvData",
           NEW m \in Arriving, Takes(m), m.type = "SCANDATA", NEW ok \in BOOLEAN,
           WriteData(m, ok), UNCHANGED <<page, pagecnt>>
    PROVE  FilesInv'
  <1> DEFINE n == Len(files)
  <1>0. m \in Message /\ FilesKnown'
    BY TakenType, PieceCounted DEF ConnInv, FilesInv
  <1> SUFFICES ASSUME ~misled' PROVE FileOfPage' /\ PagesReceived' /\ WriteErrorsEnd'
    BY <1>0 DEF FilesInv, FileOfPage, PagesReceived, WriteErrorsEnd
  <1>1. /\ m = rx[1] /\ 1 \in 1 .. Len(rx) /\ rx # <<>> /\ m \in Message /\ ~misled
        /\ m.size \in Nat /\ m.from \in Nat /\ m.image \in Image
    BY <1>0, TakenInStep DEF ConnInv, TypeOK, Message
  <1>2. /\ m.image = page /\ m.from = total_read
        /\ total_read + m.size <= page.size
    BY <1>1 DEF PageNext, OnPage, Place, Continues, ConnInv, PiecesFit
  <1>3. /\ n = pagecnt /\ n \in Nat \ {0} /\ files # <<>>
        /\ files[n].image = page /\ files[n].got = total_read /\ files[n].written
        /\ \A k \in 1 .. n : k < n => files[k].got = files[k].image.size
        /\ \A k \in 1 .. n : files[k].inOrder
                              /\ files[k].image.page = files[1].image.page + k - 1
    BY <1>1, EmptySeq DEF FilesInv, FilesKnown, FileOfPage, PagesReceived, OnPage, PageEnded, TypeOK
  <1>4. /\ Len(files') = n
        /\ \A k \in 1 .. n : k # n => files'[k] = files[k]
        /\ files'[n].image = page
        /\ files'[n].got = total_read + m.size
        /\ files'[n].inOrder
        /\ files'[n].written <=> ok
    <2>1. files' = [files EXCEPT ![Len(files)] = Written(@, m, ok)]
      BY DEF WriteData
    <2>2. /\ Len(files') = n
          /\ \A k \in 1 .. n : k # n => files'[k] = files[k]
          /\ files'[n].image = files[n].image
          /\ files'[n].got = files[n].got + m.size
          /\ files'[n].inOrder <=>
               files[n].inOrder /\ m.image = page /\ m.from = total_read
          /\ files'[n].written <=> files[n].written /\ ok
      BY <1>1, <1>3, <2>1, WrittenFiles
    <2>3. n \in 1 .. n
      BY <1>3
    <2>4. files[n].inOrder
      BY <1>3, <2>3
    <2> HIDE DEF n
    <2> QED  BY <1>2, <1>3, <2>2, <2>4
  <1>5. /\ total_read' = total_read + m.size
        /\ pc' = IF lsts' = "SUCCESS" THEN "page" ELSE "close"
        /\ lsts' = IF total_read' = page.size THEN "END_OF_PAGE"
                   ELSE IF ok THEN "SUCCESS" ELSE "FIOERROR"
    BY <1>2 DEF WriteData, Last
  <1>6. \A k \in 1 .. n : files'[k].image = files[k].image
    BY <1>3, <1>4
  <1> HIDE DEF n
  <1>7. FileOfPage'
    <2>1. page' = page /\ total_read \in Nat /\ page.size \in Nat
      BY ImageSize DEF TypeOK
    <2>2. \A k \in 1 .. n : k < n \/ lsts' = "END_OF_PAGE" =>
            files'[k].got = files'[k].image.size
      BY <1>3, <1>4, <1>5
    <2>3. pc' \in {"page", "close"} /\ files' # <<>>
      BY <1>3, <1>4, <1>5, EmptySeq DEF n
    <2>4. total_read' <= page.size /\ files'[n].image = page /\ files'[n].got = total_read'
      BY <1>2, <1>4, <1>5
    <2>5. pc' # "open" /\ (PageEnded' => lsts' = "END_OF_PAGE")
      BY <2>3 DEF PageEnded
    <2> QED  BY <1>3, <1>4, <2>1, <2>2, <2>3, <2>4, <2>5 DEF FileOfPage, n
  <1>8. PagesReceived'
    <2>1. \A k \in 1 .. n : files'[k].inOrder
                            /\ files'[k].image.page = files'[1].image.page + k - 1
      <3>1. 1 \in 1 .. n
        BY <1>3
      <3>2. \A k \in 1 .. n : files'[k].inOrder
        BY <1>3, <1>4
      <3>3. files'[1].image = files[1].image
        BY <1>6, <3>1
      <3> QED  BY <1>3, <1>6, <3>2, <3>3
    <2>2. \A k \in 1 .. n : k < n => files'[k].got = files'[k].image.size
      BY <1>3, <1>4
    <2>3. pc' \in {"page", "close"}
      BY <1>5
    <2> QED  BY <1>4, <2>1, <2>2, <2>3 DEF PagesReceived
  <1>9. WriteErrorsEnd'
    <2>1. ~files'[n].written => lsts' = "FIOERROR" \/ files'[n].got = files'[n].image.size
      BY <1>4, <1>5
    <2>2. \A k \in 1 .. n : k # n => files'[k].got = files'[k].image.size
      BY <1>3, <1>4
    <2> QED  BY <1>4, <2>1, <2>2 DEF WriteErrorsEnd
  <1> QED  BY <1>7, <1>8, <1>9

LEMMA PageCounted ==
    ASSUME TypeOK, FilesKnown, OpenPage
    PROVE  FilesKnown'
  <1> DEFINE f == [image |-> page, got |-> 0, inOrder |-> TRUE, written |-> TRUE]
  <1>1. /\ Len(files) \in Nat /\ Len(files) = pagecnt - 1 /\ pagecnt \in Nat
        /\ f \in File /\ f.written
    BY LenProperties DEF TypeOK, FilesKnown, OpenPage, File
  <1> HIDE DEF f
  <1>2. CASE lsts' = "FIOERROR" /\ pc' = "finish"
    BY <1>2 DEF FilesKnown
  <1>3. CASE pc' = "page" /\ files' = Append(files, f) /\ pagecnt' = pagecnt
    <2>1. Len(files') = Len(files) + 1 /\ files'[Len(files) + 1] = f
      BY <1>1, <1>3, AppendProperties DEF TypeOK
    <2> QED  BY <1>1, <1>3, <2>1 DEF FilesKnown
  <1> QED  BY <1>2, <1>3 DEF OpenPage, f

\* A page begins with an empty file behind those of the pages before it.
LEMMA FilesOpened ==
    ASSUME TypeOK, FilesInv, OpenPage
    PROVE  FilesInv'
  <1>0. FilesKnown'
    BY PageCounted DEF FilesInv
  <1> SUFFICES ASSUME ~misled' PROVE FileOfPage' /\ PagesReceived' /\ WriteErrorsEnd'
    BY <1>0 DEF FilesInv, FileOfPage, PagesReceived, WriteErrorsEnd
  <1> DEFINE n == Len(files)
             f == [image |-> page, got |-> 0, inOrder |-> TRUE, written |-> TRUE]
  <1>1. /\ n \in Nat /\ n = pagecnt - 1 /\ pagecnt \in Nat
        /\ \A k \in 1 .. n : /\ files[k].inOrder
                              /\ files[k].image.page = files[1].image.page + k - 1
                              /\ files[k].got = files[k].image.size
        /\ files # <<>> => page.page = files[n].image.page + 1
    BY LenProperties DEF TypeOK, FilesInv, FilesKnown, FileOfPage, PagesReceived, OpenPage
  <1>2. CASE lsts' = "FIOERROR" /\ pc' = "finish" /\ UNCHANGED files
    BY <1>1, <1>2 DEF FileOfPage, PagesReceived, WriteErrorsEnd, OnPage, PageEnded
  <1>3. CASE pc' = "page" /\ files' = Append(files, f)
    <2>1. f \in File /\ f.image = page /\ f.got = 0 /\ f.inOrder /\ f.written
      BY DEF TypeOK, File
    <2>2. page.size \in Nat /\ page.page \in Nat
      BY ImageSize DEF TypeOK, Image
    <2> HIDE DEF f
    <2>3. /\ Len(files') = n + 1 /\ files' # <<>>
          /\ \A k \in 1 .. n : files'[k] = files[k]
          /\ files'[n + 1] = f
      <3>1. files' \in Seq(File) /\ Len(files') = n + 1
        BY <1>3, <2>1, AppendProperties DEF TypeOK
      <3>2. files' # <<>>
        BY <1>1, <3>1, EmptySeq
      <3> QED  BY <1>3, <2>1, <3>1, <3>2, AppendProperties DEF TypeOK
    <2>4. \A k \in 1 .. n + 1 : files'[k].inOrder
                                /\ files'[k].image.page = files'[1].image.page + k - 1
      <3>1. CASE n = 0
        BY <2>1, <2>2, <2>3, <3>1
      <3>2. CASE n > 0
        <4>1. files # <<>> /\ files[n].image.page = files[1].image.page + n - 1
          BY <1>1, <3>2, EmptySeq
        <4>2. files[1].image.page \in Nat
          <5>1. files[1] \in File
            BY <1>1, <3>2 DEF TypeOK
          <5> QED  BY <5>1 DEF File, Image
        <4> HIDE DEF n
        <4>3. \A k \in 1 .. n : files'[k].inOrder
                                /\ files'[k].image.page = files'[1].image.page + k - 1
          BY <1>1, <2>3, <3>2
        <4>4. files'[n + 1].inOrder /\ files'[n + 1].image.page = files'[1].image.page + n
          BY <1>1, <2>1, <2>2, <2>3, <3>2, <4>1, <4>2
        <4> QED  BY <1>1, <2>1, <2>3, <3>2, <4>2, <4>3, <4>4
      <3> QED  BY <1>1, <3>1, <3>2
    <2>5. \A k \in 1 .. n : files'[k].got = files'[k].image.size
      BY <1>1, <2>3
    <2>6. pagecnt' = pagecnt /\ page' = page /\ total_read' = 0 /\ lsts' = "SUCCESS"
      BY <1>3 DEF OpenPage
    <2> HIDE DEF n
    <2>7. FileOfPage'
      BY <1>1, <1>3, <2>1, <2>2, <2>3, <2>5, <2>6 DEF FileOfPage, OnPage, PageEnded
    <2>8. PagesReceived'
      BY <1>1, <1>3, <2>3, <2>4, <2>5 DEF PagesReceived
    <2>9. WriteErrorsEnd'
      BY <1>1, <2>1, <2>3, <2>5 DEF WriteErrorsEnd
    <2> QED  BY <2>7, <2>8, <2>9
  <1> QED  BY <1>2, <1>3 DEF OpenPage

LEMMA FilesStep ==
    ASSUME TypeOK, ConnInv, PageNext, FilesInv, [Next]_vars
    PROVE  FilesInv'
  <1>a. ASSUME UNCHANGED files, pc' \in {"idle", "finish"}, lsts' # "SUCCESS",
               ~misled' =>
                 ~misled /\ \A k \in 1 .. Len(files) : files[k].got = files[k].image.size
        PROVE  FilesInv'
    BY <1>a DEF FilesInv, FilesKnown, FileOfPage, PagesReceived, WriteErrorsEnd, OnPage, PageEnded
  <1>1. CASE Open \/ CloseConnection \/ CancelScan \/ DaemonStep
    BY <1>1, FilesStay DEF Open, CloseConnection, CancelScan, DaemonStep, clientVars
  <1>2. CASE Scan
    <2>1. files' = <<>> /\ Len(files') = 0 /\ pagecnt' = 0 /\ pc' = "top" /\ lsts' = "none"
      BY <1>2, EmptySeq DEF Scan
    <2> QED  BY <2>1 DEF FilesInv, FilesKnown, FileOfPage, PagesReceived, WriteErrorsEnd, OnPage, PageEnded
  <1>3. CASE Top
    <2>1. /\ pagecnt \in Nat /\ Len(files) = pagecnt
          /\ UNCHANGED <<files, page, total_read, misled>>
          /\ ~misled => \A k \in 1 .. Len(files) : files[k].got = files[k].image.size
      <3>1. pagecnt = 0 \/ PageEnded
        BY <1>3 DEF Top, PageEnded, TypeOK
      <3> QED  BY <1>3, <3>1 DEF Top, TypeOK, FilesInv, FilesKnown, FileOfPage
    <2>2. CASE pc' = "finish" /\ lsts' = "CANCELED"
      BY <1>a, <2>1, <2>2
    <2>3. CASE /\ pc' = IF pagecnt = 0 THEN "sendScan" ELSE "sendContinue"
               /\ pagecnt' = pagecnt + 1 /\ lsts' = lsts
      BY <1>3, <2>1, <2>3
      DEF Top, FilesInv, FilesKnown, FileOfPage, PagesReceived, WriteErrorsEnd, OnPage, PageEnded
    <2> QED  BY <1>3, <2>2, <2>3 DEF Top
  <1>4. CASE SendScan \/ SendContinue
    <2>0. UNCHANGED <<files, page, pagecnt, total_read, misled>>
      BY <1>4 DEF SendScan, SendContinue, SendRequest
    <2>1. CASE pc = "sendScan" /\ pc' = "recvScan" /\ lsts' = lsts
      BY <2>0, <2>1 DEF FilesInv, FilesKnown, FileOfPage, PagesReceived, WriteErrorsEnd, OnPage, PageEnded
    <2>2. CASE pc = "sendContinue" /\ pc' = "recvContinue" /\ lsts' = lsts
      BY <2>0, <2>2 DEF FilesInv, FilesKnown, FileOfPage, PagesReceived, WriteErrorsEnd, OnPage, PageEnded
    <2>3. CASE pc' = "idle" /\ lsts' = "IOERROR"
      BY <1>4, <2>3, FilesReturn DEF SendScan, SendContinue, SendRequest
    <2> QED  BY <1>4, <2>1, <2>2, <2>3 DEF SendScan, SendContinue, SendRequest, ReturnEarly
  <1>5. CASE RecvScan
    <2>0. pc = "recvScan" /\ UNCHANGED <<files, pagecnt, total_read>>
      BY <1>5 DEF RecvScan
    <2>1. CASE pc' = "open"
      <3>1. /\ files = <<>> /\ Len(files) = 0 /\ pagecnt = 1
            /\ UNCHANGED <<files, pagecnt, total_read>>
        BY <2>0, EmptySeq DEF FilesInv, FilesKnown, TypeOK
      <3> QED
        BY <2>1, <3>1
        DEF FilesInv, FilesKnown, FileOfPage, PagesReceived, WriteErrorsEnd, OnPage, PageEnded
    <2>2. CASE pc' = "idle" /\ (~misled' => ~misled /\ lsts' # "SUCCESS")
      BY <2>0, <2>2, FilesReturn
    <2>3. CASE pc' = "idle" /\ lsts' = "IOERROR" /\ UNCHANGED misled
      BY <2>2, <2>3
    <2> QED  BY <1>5, <2>1, <2>2, <2>3, UnexpectedFails DEF RecvScan, ReturnEarly
  <1>6. CASE RecvContinue
    <2>0. pc = "recvContinue" /\ UNCHANGED <<files, pagecnt, total_read>>
      BY <1>6 DEF RecvContinue
    <2>1. ASSUME NEW m \in Arriving, Takes(m), m.type = "SCANCONTINUE", pc' = "open",
                 page' = m.image, lsts' = lsts
          PROVE  FilesInv'
      <3>0. FilesKnown'
        BY <2>0, <2>1 DEF FilesInv, FilesKnown
      <3> SUFFICES ASSUME ~misled' PROVE FilesInv'
        BY <3>0 DEF FilesInv, FileOfPage, PagesReceived, WriteErrorsEnd
      <3>a. ~misled /\ m = rx[1] /\ rx # <<>>
        BY <2>1, TakenInStep DEF TypeOK
      <3>1. page'.page = page.page + 1
        BY <2>0, <2>1, <3>a DEF PageNext, OnPage, PageEnded, Continues
      <3>2. /\ Len(files) = pagecnt - 1 /\ files # <<>> /\ files[Len(files)].image = page
            /\ \A k \in 1 .. Len(files) : files[k].got = files[k].image.size
        BY <2>0, <3>a DEF FilesInv, FilesKnown, FileOfPage, OnPage, PageEnded
      <3> QED
        BY <2>0, <2>1, <3>0, <3>a, <3>1, <3>2
        DEF FilesInv, FileOfPage, PagesReceived, WriteErrorsEnd, OnPage, PageEnded
    <2>2. ASSUME NEW m \in Arriving, Takes(m), UNCHANGED <<pc, page, lsts>>
          PROVE  FilesInv'
      <3>1. ~misled' => ~misled
        BY <2>2, TakenInStep DEF TypeOK
      <3> QED  BY <2>0, <2>2, <3>1, FilesStay
    <2>3. CASE pc' = "idle" /\ (~misled' => ~misled /\ lsts' # "SUCCESS")
      BY <2>0, <2>3, FilesReturn
    <2>4. CASE pc' = "idle" /\ lsts' = "IOERROR" /\ UNCHANGED misled
      BY <2>3, <2>4
    <2> QED  BY <1>6, <2>1, <2>2, <2>3, <2>4, UnexpectedFails DEF RecvContinue, ReturnEarly
  <1>7. CASE OpenPage
    BY <1>7, FilesOpened
  <1>8. CASE PageTop
    BY <1>8
    DEF PageTop, FilesInv, FilesKnown, FileOfPage, PagesReceived, WriteErrorsEnd, OnPage, PageEnded
  <1>9. CASE RecvData
    <2>1. ASSUME NEW m \in Arriving, Takes(m), m.type = "SCANDATA", NEW ok \in BOOLEAN,
                 WriteData(m, ok)
          PROVE  FilesInv'
      BY <1>9, <2>1, FilesWritten DEF RecvData
    <2>2. CASE pc' = "idle" /\ (~misled' => ~misled /\ lsts' # "SUCCESS") /\ UNCHANGED files
      BY <1>9, <2>2, FilesReturn DEF RecvData
    <2>3. CASE pc' = "idle" /\ lsts' = "IOERROR" /\ UNCHANGED <<files, misled>>
      BY <2>2, <2>3
    <2> QED  BY <1>9, <2>1, <2>2, <2>3, UnexpectedFails DEF RecvData, ReturnEarly
  <1>10. CASE ClosePage
    <2>1. UNCHANGED <<files, page, pagecnt, total_read, misled>> /\ pc = "close"
      BY <1>10 DEF ClosePage
    <2>2. CASE lsts = "END_OF_PAGE"
      <3>1. lsts' = "SUCCESS" /\ pc' \in {"top", "finish"} /\ PageEnded
        BY <1>10, <2>2 DEF ClosePage, PageEnded
      <3> QED
        BY <2>1, <2>2, <3>1
        DEF FilesInv, FilesKnown, FileOfPage, PagesReceived, WriteErrorsEnd, OnPage, PageEnded
    <2>3. CASE lsts # "END_OF_PAGE"
      <3>1. lsts' = lsts /\ lsts \in {"CANCELED", "FIOERROR"} /\ pc' = "finish"
        BY <1>10, <2>3 DEF ClosePage, FilesInv, FilesKnown
      <3> QED
        BY <2>1, <3>1
        DEF FilesInv, FilesKnown, FileOfPage, PagesReceived, WriteErrorsEnd, OnPage, PageEnded
    <2> QED  BY <2>2, <2>3
  <1>11. CASE Finish
    BY <1>11
    DEF Finish, FilesInv, FilesKnown, FileOfPage, PagesReceived, WriteErrorsEnd, OnPage, PageEnded
  <1>12. CASE UNCHANGED vars
    BY <1>12, FilesStay DEF vars, clientVars
  <1> QED
    BY <1>1, <1>2, <1>3, <1>4, <1>5, <1>6, <1>7, <1>8, <1>9, <1>10, <1>11, <1>12
    DEF Next, Client, Application

-----------------------------------------------------------------------------
(* The theorems.                                                           *)

LEMMA CancelStep ==
    ASSUME TypeOK, CancelSeen, CancelStops, [Next]_vars
    PROVE  CancelSeen' /\ CancelStops'
  <1> USE DEF TypeOK, CancelSeen, CancelStops, ReturnEarly
  <1>1. CASE Open \/ CloseConnection \/ DaemonStep \/ UNCHANGED vars
    BY <1>1 DEF Open, CloseConnection, DaemonStep, vars, clientVars
  <1>2. CASE Scan \/ CancelScan \/ Top
    BY <1>2 DEF Scan, CancelScan, Top
  <1>3. CASE SendScan \/ SendContinue
    BY <1>3 DEF SendScan, SendContinue, SendRequest
  <1>4. CASE RecvScan \/ RecvContinue
    BY <1>4 DEF RecvScan, RecvContinue, Unexpected
  <1>5. CASE OpenPage \/ PageTop \/ ClosePage \/ Finish
    BY <1>5 DEF OpenPage, PageTop, ClosePage, Finish
  <1>6. CASE RecvData
    <2>1. late' \in {late, IF canceled THEN late + 1 ELSE late}
      BY <1>6 DEF RecvData, Unexpected, WriteData
    <2>2. pc = "recvData" /\ pc' \in {"idle", "page", "close"} /\ canceled' = canceled
      BY <1>6 DEF RecvData, Unexpected, WriteData
    <2> QED  BY <2>1, <2>2
  <1> QED  BY <1>1, <1>2, <1>3, <1>4, <1>5, <1>6 DEF Next, Client, Application

LEMMA ClientInvParts ==
    ClientInv <=> /\ TypeOK /\ ConnInv /\ PageNext /\ JobKnown /\ FilesInv
                  /\ CancelSeen /\ CancelStops
  BY DEF ClientInv, ConnInv, FilesInv, TypeOK

LEMMA InvInit == Init => ClientInv
  <1> SUFFICES ASSUME Init PROVE ClientInv
    OBVIOUS
  <1>1. TypeOK /\ ConnInv
    BY TypeInit, ConnInit DEF Init
  <1>2. image.page \in Nat
    BY <1>1 DEF ConnInv, ScandTypeOK, Image
  <1>3. PageNext /\ JobKnown /\ CancelSeen /\ CancelStops
    BY <1>2 DEF Init, PageNext, OnPage, PageEnded, JobKnown, CancelSeen, CancelStops
  <1>4. FilesInv
    <2>1. files = <<>> /\ Len(files) = 0
      BY EmptySeq DEF Init
    <2> QED
      BY <2>1 DEF Init, FilesInv, FilesKnown, FileOfPage, PagesReceived, WriteErrorsEnd, OnPage, PageEnded
  <1> QED  BY <1>1, <1>3, <1>4, ClientInvParts

LEMMA InvStep == ClientInv /\ [Next]_vars => ClientInv'
  <1> SUFFICES ASSUME ClientInv, [Next]_vars PROVE ClientInv'
    OBVIOUS
  <1>0. /\ TypeOK /\ ConnInv /\ PageNext /\ JobKnown /\ FilesInv /\ FilesKnown
        /\ FileOfPage /\ CancelSeen /\ CancelStops
    BY ClientInvParts DEF FilesInv
  <1>1. TypeOK'
    BY <1>0, TypeStep
  <1>2. ConnInv'
    BY <1>0, ClientCalls, ConnStep
  <1>3. PageNext' /\ JobKnown' /\ FilesInv' /\ CancelSeen' /\ CancelStops'
    BY <1>0, PageNextStep, JobKnownStep, FilesStep, CancelStep
  <1> QED  BY <1>1, <1>2, <1>3 DEF ClientInv, ConnInv, FilesInv

\* What scan() knows of its page, its job and its files is what the daemon has
\* sent and will send, after any history of scans, errors and cancels - unless it has
\* taken a message from a stream out of step.
THEOREM ClientConsistent == Spec => []ClientInv
BY InvInit, InvStep, PTL DEF Spec

\* A scan() leaves whole pages in order, and when it succeeds has taken every page
\* of its job out of the feeder; it reports a write that fails unless that is the
\* last of its page, whose error it loses (scandifc.cpp:604).  For all image and
\* chunk sizes, and whatever earlier scans left in the socket, as long as the scan
\* takes no message from a stream out of step.
THEOREM PagesAreSafe == Spec => []PagesSafe
  <1>1. ClientInv => PagesSafe
    <2> SUFFICES ASSUME ClientInv PROVE PagesSafe
      OBVIOUS
    <2>1. NoPageLeft
      BY DEF ClientInv, JobKnown, NoPageLeft
    <2> QED  BY <2>1 DEF ClientInv, PagesSafe
  <1> QED  BY <1>1, ClientConsistent, PTL

\* After cancel_scan at most one request is sent or one message written.
THEOREM CancelIsSeen == Spec => []CancelStops
  <1>1. ClientInv => CancelStops
    BY DEF ClientInv
  <1> QED  BY <1>1, ClientConsistent, PTL

\* A page begins empty, grows up to its size, and is done with it or dropped.
LEMMA PageSteps ==
    ASSUME ClientInv, ClientInv', [Next]_vars
    PROVE  \/ ~InPage /\ ~PageDone /\ pc' = "page" /\ total_read' = 0
           \/ /\ InPage /\ InPage' /\ page' = page /\ total_read <= total_read'
              /\ ~misled' => ~misled /\ total_read' <= page.size
           \/ /\ InPage /\ PageDone' /\ ~InPage' /\ UNCHANGED <<page, total_read, misled>>
              /\ ~misled => total_read = page.size
           \/ ~InPage' /\ ~PageDone'
           \/ UNCHANGED <<pc, lsts, page, total_read, misled>>
  <1> USE DEF InPage, PageDone
  <1>0. /\ TypeOK /\ ConnInv /\ PageNext /\ FilesKnown /\ FileOfPage /\ FileOfPage'
        /\ total_read \in Nat /\ total_read' \in Nat /\ total_read <= total_read
    BY ClientInvParts DEF ClientInv, TypeOK
  <1>1. CASE Open \/ CloseConnection \/ CancelScan \/ DaemonStep \/ UNCHANGED vars
    BY <1>1 DEF Open, CloseConnection, CancelScan, DaemonStep, vars, clientVars
  <1>2. CASE Scan \/ Top \/ Finish
    BY <1>2 DEF Scan, Top, Finish
  <1>3. CASE SendScan \/ SendContinue
    BY <1>3 DEF SendScan, SendContinue, SendRequest, ReturnEarly
  <1>4. CASE RecvScan \/ RecvContinue
    BY <1>4 DEF RecvScan, RecvContinue, Unexpected, ReturnEarly
  <1>5. CASE OpenPage
    BY <1>5 DEF OpenPage
  <1>6. CASE PageTop
    BY <1>0, <1>6 DEF PageTop, FileOfPage, OnPage
  <1>7. CASE RecvData
    <2>0. pc = "recvData" /\ page' = page
      BY <1>7 DEF RecvData
    <2>1. ASSUME NEW m \in Arriving, Takes(m), NEW ok \in BOOLEAN, WriteData(m, ok)
          PROVE  /\ InPage /\ InPage' /\ page' = page /\ total_read <= total_read'
                 /\ ~misled' => ~misled /\ total_read' <= page.size
      <3>1. m.size \in Nat
        BY <1>0, <2>1, TakenType DEF ConnInv, Message
      <3>2. total_read' = total_read + m.size /\ pc' \in {"page", "close"}
        BY <2>1 DEF WriteData
      <3>3. ~misled' => ~misled
        BY <1>0, <2>1, TakenInStep DEF TypeOK
      <3>4. ~misled' => total_read' <= page.size
        BY <1>0, <2>0, <3>2 DEF FileOfPage, OnPage
      <3>5. total_read <= total_read'
        BY <1>0, <3>1, <3>2
      <3> QED  BY <2>0, <3>2, <3>3, <3>4, <3>5
    <2>2. CASE pc' = "idle"
      BY <2>2
    <2> QED  BY <1>7, <2>1, <2>2 DEF RecvData, Unexpected, ReturnEarly
  <1>8. CASE ClosePage
    <2>1. CASE lsts = "END_OF_PAGE"
      <3>1. PageEnded
        BY <1>8, <2>1 DEF ClosePage, PageEnded
      <3>2. ~misled => total_read = page.size
        BY <1>0, <3>1, EndIsWhole
      <3> QED  BY <1>8, <2>1, <3>2 DEF ClosePage
    <2>2. CASE lsts # "END_OF_PAGE"
      BY <1>0, <1>8, <2>2 DEF ClosePage, FilesKnown
    <2> QED  BY <2>1, <2>2
  <1> QED
    BY <1>1, <1>2, <1>3, <1>4, <1>5, <1>6, <1>7, <1>8 DEF Next, Client, Application

\* scandif::scan keeps the promise of SaneFrame for each of its pages, for all
\* sizes of images and chunks: a page is given up when a message is taken from a
\* stream out of step.
THEOREM ClientIsFrame == Spec => ImplementsFrame
  <1> USE DEF Frame!frameVars
  <1>1. Init => Frame!FrameInit
    BY DEF Init, Frame!FrameInit, InPage, PageDone
  <1>2. ClientInv /\ ClientInv' /\ [Next]_vars => [Frame!FrameNext]_Frame!frameVars
    <2> SUFFICES ASSUME ClientInv, ClientInv', [Next]_vars
                 PROVE  [Frame!FrameNext]_Frame!frameVars
      OBVIOUS
    <2>1. /\ page.size \in Sizes /\ page'.size \in Sizes /\ page.size \in Nat
          /\ total_read \in Nat /\ total_read' \in Nat
          /\ misled \in BOOLEAN /\ misled' \in BOOLEAN
      BY ImageSize DEF ClientInv, TypeOK, Image
    <2>2. InPage => ~PageDone
      BY DEF InPage, PageDone
    <2>3. (InPage => ~PageDone)'
      BY DEF InPage, PageDone
    <2>4. pc' = "page" => InPage'
      BY DEF InPage
    <2>5. (~InPage' /\ ~PageDone') \/ misled' => [Frame!FrameNext]_Frame!frameVars
      BY <2>1 DEF Frame!FrameNext, Frame!DropFrame
    <2>6. CASE ~misled' /\ ~InPage /\ ~PageDone /\ pc' = "page" /\ total_read' = 0
      BY <2>1, <2>3, <2>4, <2>6 DEF Frame!FrameNext, Frame!StartFrame
    <2>7. CASE /\ ~misled' /\ InPage /\ InPage' /\ page' = page /\ total_read <= total_read'
               /\ ~misled' => ~misled /\ total_read' <= page.size
      BY <2>1, <2>2, <2>3, <2>7 DEF Frame!FrameNext, Frame!Deliver
    <2>8. CASE /\ ~misled' /\ InPage /\ PageDone' /\ ~InPage'
               /\ UNCHANGED <<page, total_read, misled>>
               /\ ~misled => total_read = page.size
      BY <2>1, <2>2, <2>3, <2>8 DEF Frame!FrameNext, Frame!FinishFrame
    <2>9. CASE UNCHANGED <<pc, lsts, page, total_read, misled>>
      BY <2>9 DEF InPage, PageDone
    <2> QED  BY <2>5, <2>6, <2>7, <2>8, <2>9, PageSteps
  <1> QED
    BY <1>1, <1>2, ClientConsistent, PTL DEF Spec, ImplementsFrame, Frame!FrameSpec
=============================================================================
