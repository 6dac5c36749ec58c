---------------------------- MODULE ScandProofs ----------------------------
(***************************************************************************)
(* Lemmas about the connection to the scan daemon, for both of its clients *)
(* (ScanSession and ScanClient): what the client's socket calls and the    *)
(* daemon's steps do to it, and which of its properties they preserve.     *)
(***************************************************************************)
EXTENDS Scandif, TLAPS, SequenceTheorems

-----------------------------------------------------------------------------
(* Types of the messages and of the connection.                            *)

LEMMA ResponseType ==
    ASSUME NEW t \in {"SCAN", "SCANCONTINUE"}, NEW im \in Image, NEW b \in BOOLEAN
    PROVE  Response(t, im, b) \in Message
  BY DEF Response, Message, MsgType

LEMMA ScanDataType ==
    ASSUME NEW im \in Image, NEW pos \in Nat, NEW n \in Nat, NEW more \in BOOLEAN
    PROVE  ScanData(im, pos, n, more) \in Message
  BY DEF ScanData, Message, MsgType

LEMMA ErrorIndType ==
    ASSUME image \in Image, NEW e \in DaemonErrors \cup {"REJECT"}
    PROVE  ErrorInd(e) \in Message
  BY DEF ErrorInd, Message, MsgType

\* What recv() takes from the socket is a message, the rest are messages.
LEMMA HeadAndTail ==
    ASSUME rx \in Seq(Message), rx # <<>>
    PROVE  /\ Head(rx) \in Message /\ Head(rx) = rx[1]
           /\ Tail(rx) \in Seq(Message)
           /\ Len(rx) \in Nat \ {0}
           /\ Len(Tail(rx)) = Len(rx) - 1
           /\ \A i \in 1 .. Len(Tail(rx)) : Tail(rx)[i] = rx[i + 1]
  <1>1. Len(rx) \in Nat \ {0}
    BY EmptySeq
  <1>2. Head(rx) = rx[1] /\ rx[1] \in Message
    BY <1>1, HeadTailProperties, ElementOfSeq
  <1> QED  BY <1>1, <1>2, HeadTailProperties

\* The first k messages are gone, the others move up.
Dropped(k) ==
    /\ k \in 0 .. Len(rx) /\ Len(rx) \in Nat \ {0}
    /\ rx' \in Seq(Message) /\ Len(rx') = Len(rx) - k
    /\ \A i \in 1 .. Len(rx') : rx'[i] = rx[i + k]
    /\ UNCHANGED <<tx, peer, dstate, image, sent, adf>>

\* recv() takes the first message when the stream is in step, and otherwise a
\* number of them; what it makes of them is a message.
LEMMA ReceiveDrops ==
    ASSUME rx \in Seq(Message), Receive
    PROVE  \E k \in 0 .. Len(rx) : Dropped(k) /\ (torn = 0 => k = 1)
  <1>1. Len(rx) \in Nat \ {0}
    BY HeadAndTail DEF Receive
  <1>2. CASE torn = 0
    <2>a. rx # <<>> /\ rx' = Tail(rx) /\ UNCHANGED <<tx, peer, dstate, image, sent, adf>>
      BY <1>2 DEF Receive
    <2>1. Dropped(1)
      BY <1>1, <2>a, HeadAndTail DEF Dropped
    <2> QED  BY <1>1, <2>1
  <1>3. CASE torn # 0
    <2>1. PICK k \in 0 .. Len(rx) : rx' = SubSeq(rx, k + 1, Len(rx))
      BY <1>3 DEF Receive
    <2>2. \A i \in k + 1 .. Len(rx) : rx[i] \in Message
      BY <1>1, ElementOfSeq
    <2>3. rx' \in Seq(Message) /\ Len(rx') = Len(rx) - k
          /\ \A i \in 1 .. Len(rx') : rx'[i] = rx[i + k]
      BY <1>1, <2>1, <2>2, SubSeqProperties
    <2> QED  BY <1>1, <1>3, <2>3 DEF Receive, Dropped
  <1> QED  BY <1>2, <1>3

LEMMA ArrivingType ==
    ASSUME rx \in Seq(Message), NEW m \in Arriving
    PROVE  m \in Message /\ rx # <<>> /\ (torn = 0 => m = rx[1])
  <1>1. rx # <<>>
    BY DEF Arriving
  <1>2. rx[1] \in Message
    BY <1>1, HeadAndTail
  <1> QED  BY <1>1, <1>2, ScandAssumption DEF Arriving

\* Every socket call of the client keeps the types of the connection.
LEMMA SocketCallsType ==
    ASSUME ScandTypeOK,
           \/ Connect \/ Disconnect \/ Receive \/ Tear \/ UNCHANGED scandVars
           \/ \E r \in Request : Send(r)
    PROVE  ScandTypeOK'
  <1>1. CASE Connect \/ Disconnect
    <2>1. rx' = <<>> /\ tx' = <<>> /\ peer' \in BOOLEAN /\ dstate' = "idle" /\ torn' = 0
          /\ UNCHANGED <<image, sent, adf>>
      BY <1>1 DEF Connect, Disconnect
    <2>2. rx' \in Seq(Message) /\ tx' \in Seq(Request)
      BY <2>1, EmptySeq
    <2> QED  BY <2>1, <2>2 DEF ScandTypeOK
  <1>2. CASE Receive
    <2>1. torn' \in Nat
      BY <1>2 DEF ScandTypeOK, Receive
    <2> QED  BY <1>2, <2>1, ReceiveDrops DEF ScandTypeOK, Dropped
  <1>3. CASE Tear
    BY <1>3 DEF ScandTypeOK, Tear
  <1>4. CASE UNCHANGED scandVars
    BY <1>4 DEF ScandTypeOK, scandVars
  <1>5. CASE \E r \in Request : Send(r)
    BY <1>5 DEF ScandTypeOK, Send
  <1> QED  BY <1>1, <1>2, <1>3, <1>4, <1>5

LEMMA BeginPageType ==
    ASSUME ScandTypeOK, NEW t \in {"SCAN", "SCANCONTINUE"}, NEW im \in Image,
           NEW fromAdf \in BOOLEAN, BeginPage(t, im, fromAdf)
    PROVE  /\ rx' \in Seq(Message) /\ image' \in Image /\ sent' \in Nat
           /\ dstate' \in {"idle", "page", "more"} /\ adf' \in BOOLEAN
  <1>1. rx' \in Seq(Message)
    BY ResponseType, AppendProperties DEF ScandTypeOK, BeginPage
  <1>2. adf' \in BOOLEAN
    BY Zenon DEF BeginPage
  <1> QED  BY <1>1, <1>2 DEF BeginPage

\* So does every step of the daemon.
LEMMA DaemonType ==
    ASSUME ScandTypeOK, Daemon
    PROVE  ScandTypeOK'
  <1> USE ScandAssumption DEF ScandTypeOK
  <1>1. CASE ServeScan
    <2>1. tx' \in Seq(Request) /\ peer' \in BOOLEAN /\ torn' \in Nat /\ Head(tx) \in Request
      BY <1>1 DEF ServeScan, CanServe
    <2>2. CASE \E size \in Sizes, fromAdf \in BOOLEAN :
                 BeginPage("SCAN", [page |-> image.page + 1, mode |-> Head(tx).mode,
                                    size |-> size], fromAdf)
      <3> PICK size \in Sizes, fromAdf \in BOOLEAN :
             BeginPage("SCAN", [page |-> image.page + 1, mode |-> Head(tx).mode,
                                size |-> size], fromAdf)
        BY <2>2
      <3>1. [page |-> image.page + 1, mode |-> Head(tx).mode, size |-> size] \in Image
        BY <2>1 DEF Image, Request
      <3> QED  BY <2>1, <3>1, BeginPageType
    <2>3. CASE \E e \in DaemonErrors : Refuse(e)
      BY <2>1, <2>3, ErrorIndType DEF Refuse
    <2> QED  BY <1>1, <2>2, <2>3 DEF ServeScan
  <1>2. CASE ServeContinue
    <2>1. tx' \in Seq(Request) /\ peer' \in BOOLEAN /\ torn' \in Nat
      BY <1>2 DEF ServeContinue, CanServe
    <2>2. CASE BeginPage("SCANCONTINUE", [image EXCEPT !.page = @ + 1], adf)
      <3>1. [image EXCEPT !.page = @ + 1] \in Image
        BY DEF Image
      <3> QED  BY <2>1, <2>2, <3>1, BeginPageType
    <2>3. CASE \E e \in DaemonErrors \cup {"REJECT"} : Refuse(e)
      BY <2>1, <2>3, ErrorIndType DEF Refuse
    <2> QED  BY <1>2, <2>2, <2>3 DEF ServeContinue
  <1>3. CASE SendData
    <2> PICK n \in 1 .. MaxChunk, more \in BOOLEAN :
           /\ sent' = sent + n
           /\ dstate' \in {"idle", "more", "page"}
           /\ \/ rx' = Append(rx, ScanData(image, sent, n, more))
              \/ rx' = Append(Append(rx, ScanData(image, sent, n, more)),
                              ScanData(image, sent + n, 0, more))
      BY <1>3 DEF SendData
    <2>1. ScanData(image, sent, n, more) \in Message /\ ScanData(image, sent + n, 0, more) \in Message
      BY ScanDataType
    <2>2. \A s \in Seq(Message), m \in Message : Append(s, m) \in Seq(Message)
      BY AppendProperties
    <2>3. rx' \in Seq(Message)
      BY <2>1, <2>2
    <2> QED  BY <1>3, <2>3 DEF SendData
  <1>4. CASE FailPage
    BY <1>4, ErrorIndType DEF FailPage, Refuse
  <1>5. CASE Hangup
    BY <1>5, EmptySeq DEF Hangup
  <1> QED  BY <1>1, <1>2, <1>3, <1>4, <1>5 DEF Daemon

-----------------------------------------------------------------------------
(* The order of the bytes on the connection.                               *)

LEMMA ErrorIsNoSuccess ==
    ASSUME NEW e \in DaemonErrors \cup {"REJECT"}
    PROVE  e # "SUCCESS"
  BY ScandAssumption

LEMMA AppendFacts ==
    ASSUME NEW s \in Seq(Message), NEW m \in Message, NEW t, t = Append(s, m)
    PROVE  /\ t \in Seq(Message) /\ t # <<>>
           /\ Len(s) \in Nat /\ Len(t) = Len(s) + 1
           /\ \A i \in 1 .. Len(s) : t[i] = s[i]
           /\ t[Len(s) + 1] = m
           /\ (s = <<>>) <=> (Len(s) = 0)
  <1>1. t \in Seq(Message) /\ Len(t) = Len(s) + 1 /\ Len(s) \in Nat
    BY AppendProperties, LenProperties
  <1>2. (s = <<>>) <=> (Len(s) = 0)
    BY EmptySeq
  <1>3. t # <<>>
    BY <1>1, EmptySeq
  <1> QED  BY <1>1, <1>2, <1>3, AppendProperties

\* A new message that carries no image bytes, or the next ones of the page,
\* keeps the wire in order.
LEMMA WireAppend ==
    ASSUME ScandTypeOK, WireInOrder, NEW m \in Message,
           rx' = Append(rx, m), m.size <= MaxChunk,
           m.type \in {"SCAN", "SCANCONTINUE"} => m.from = 0 /\ m.size = 0,
           m.type = "ERRORSTATUS" => m.status # "SUCCESS",
           m.type = "SCANDATA" => dstate = "page" /\ m.image = image /\ m.from = sent,
           dstate' = "page" => After(m, image', sent')
    PROVE  WireInOrder'
  <1>1. /\ Len(rx) \in Nat /\ Len(rx') = Len(rx) + 1
        /\ \A i \in 1 .. Len(rx) : rx'[i] = rx[i]
        /\ rx'[Len(rx) + 1] = m
        /\ (rx = <<>>) <=> (Len(rx) = 0)
    BY AppendFacts DEF ScandTypeOK
  <1>2. ASSUME NEW i \in 1 .. Len(rx') - 1, rx'[i + 1].type = "SCANDATA"
        PROVE  After(rx'[i], rx'[i + 1].image, rx'[i + 1].from)
    <2>1. CASE i < Len(rx)
      BY <1>1, <1>2, <2>1 DEF WireInOrder, After
    <2>2. CASE i = Len(rx)
      BY <1>1, <1>2, <2>2 DEF WireInOrder, After
    <2> QED  BY <1>1, <2>1, <2>2
  <1>3. dstate' = "page" => After(rx'[Len(rx')], image', sent')
    BY <1>1
  <1>4. ASSUME NEW i \in 1 .. Len(rx')
        PROVE  /\ rx'[i].size <= MaxChunk
               /\ rx'[i].type \in {"SCAN", "SCANCONTINUE"} => rx'[i].from = 0 /\ rx'[i].size = 0
               /\ rx'[i].type = "ERRORSTATUS" => rx'[i].status # "SUCCESS"
    <2>1. CASE i <= Len(rx)
      BY <1>1, <2>1 DEF WireInOrder
    <2>2. CASE i = Len(rx) + 1
      BY <1>1, <2>2
    <2> QED  BY <1>1, <2>1, <2>2
  <1> QED  BY <1>2, <1>3, <1>4 DEF WireInOrder, After

\* The client's socket calls keep the wire in order.
LEMMA SocketCallsInOrder ==
    ASSUME ScandTypeOK, WireInOrder,
           \/ Connect \/ Disconnect \/ Receive \/ Tear \/ UNCHANGED scandVars
           \/ \E r \in Request : Send(r)
    PROVE  WireInOrder'
  <1>1. CASE Connect \/ Disconnect
    BY <1>1, EmptySeq DEF WireInOrder, Connect, Disconnect
  <1>2. CASE Receive
    <2>1. PICK k \in 0 .. Len(rx) : Dropped(k)
      BY <1>2, ReceiveDrops DEF ScandTypeOK
    <2>2. rx' # <<>> => Len(rx') >= 1 /\ rx'[Len(rx')] = rx[Len(rx)] /\ rx # <<>>
      BY <2>1, EmptySeq DEF Dropped
    <2>3. ASSUME NEW i \in 1 .. Len(rx') - 1
          PROVE  rx'[i] = rx[i + k] /\ rx'[i + 1] = rx[i + k + 1] /\ i + k \in 1 .. Len(rx) - 1
      BY <2>1 DEF Dropped
    <2>4. ASSUME NEW i \in 1 .. Len(rx')
          PROVE  rx'[i] = rx[i + k] /\ i + k \in 1 .. Len(rx)
      BY <2>1 DEF Dropped
    <2>5. ASSUME NEW i \in 1 .. Len(rx') - 1, rx'[i + 1].type = "SCANDATA"
          PROVE  After(rx'[i], rx'[i + 1].image, rx'[i + 1].from)
      <3>1. After(rx[i + k], rx[i + k + 1].image, rx[i + k + 1].from)
        BY <2>3, <2>5 DEF WireInOrder
      <3> QED  BY <2>3, <3>1
    <2>6. dstate' = "page" /\ rx' # <<>> => After(rx'[Len(rx')], image', sent')
      BY <2>1, <2>2 DEF WireInOrder, Dropped, After
    <2>7. ASSUME NEW i \in 1 .. Len(rx')
          PROVE  /\ rx'[i].size <= MaxChunk
                 /\ rx'[i].type \in {"SCAN", "SCANCONTINUE"} => rx'[i].from = 0 /\ rx'[i].size = 0
                 /\ rx'[i].type = "ERRORSTATUS" => rx'[i].status # "SUCCESS"
      BY <2>4 DEF WireInOrder
    <2> QED  BY <2>5, <2>6, <2>7 DEF WireInOrder, After
  <1>3. CASE Tear
    BY <1>3 DEF WireInOrder, Tear, After
  <1>4. CASE UNCHANGED scandVars
    BY <1>4 DEF WireInOrder, scandVars, After
  <1>5. CASE \E r \in Request : Send(r)
    BY <1>5 DEF WireInOrder, Send, After
  <1> QED  BY <1>1, <1>2, <1>3, <1>4, <1>5

\* So does the daemon.
LEMMA DaemonInOrder ==
    ASSUME ScandTypeOK, WireInOrder, Daemon
    PROVE  WireInOrder'
  <1> USE ScandAssumption
  <1>0. ASSUME NEW e \in DaemonErrors \cup {"REJECT"}, Refuse(e)
        PROVE  WireInOrder'
    <2>1. /\ ErrorInd(e) \in Message /\ ErrorInd(e).size = 0
          /\ ErrorInd(e).type = "ERRORSTATUS" /\ ErrorInd(e).status = e
      BY ErrorIndType DEF ScandTypeOK, ErrorInd
    <2>2. e # "SUCCESS"
      BY ErrorIsNoSuccess
    <2> QED  BY <1>0, <2>1, <2>2, WireAppend DEF Refuse
  <1>1. ASSUME NEW t \in {"SCAN", "SCANCONTINUE"}, NEW im \in Image, NEW b \in BOOLEAN,
               BeginPage(t, im, b)
        PROVE  WireInOrder'
    <2>1. /\ Response(t, im, b) \in Message
          /\ Response(t, im, b).type = t /\ Response(t, im, b).image = im
          /\ Response(t, im, b).from = 0 /\ Response(t, im, b).size = 0
      BY ResponseType DEF Response
    <2>2. After(Response(t, im, b), image', sent')
      BY <1>1, <2>1 DEF After, BeginPage
    <2> QED  BY <1>1, <2>1, <2>2, WireAppend DEF BeginPage
  <1>2. CASE ServeScan
    <2>1. Head(tx) \in Request
      BY <1>2 DEF ServeScan, CanServe, ScandTypeOK
    <2>2. CASE \E size \in Sizes, fromAdf \in BOOLEAN :
                 BeginPage("SCAN", [page |-> image.page + 1, mode |-> Head(tx).mode,
                                    size |-> size], fromAdf)
      <3> PICK size \in Sizes, fromAdf \in BOOLEAN :
             BeginPage("SCAN", [page |-> image.page + 1, mode |-> Head(tx).mode,
                                size |-> size], fromAdf)
        BY <2>2
      <3>1. [page |-> image.page + 1, mode |-> Head(tx).mode, size |-> size] \in Image
        BY <2>1 DEF Image, Request, ScandTypeOK
      <3> QED  BY <3>1, <1>1
    <2> QED  BY <1>0, <1>2, <2>2 DEF ServeScan
  <1>3. CASE ServeContinue
    <2>1. [image EXCEPT !.page = @ + 1] \in Image
      BY DEF Image, ScandTypeOK
    <2> QED  BY <1>0, <1>1, <1>3, <2>1 DEF ServeContinue, ScandTypeOK
  <1>4. CASE SendData
    <2> PICK n \in 1 .. MaxChunk, more \in BOOLEAN :
           /\ sent' = sent + n
           /\ \/ rx' = Append(rx, ScanData(image, sent, n, more))
              \/ /\ dstate' # "page"
                 /\ rx' = Append(Append(rx, ScanData(image, sent, n, more)),
                                 ScanData(image, sent + n, 0, more))
      BY <1>4 DEF SendData
    <2> DEFINE piece == ScanData(image, sent, n, more)
               trailer == ScanData(image, sent + n, 0, more)
    <2>1. /\ piece \in Message /\ piece.type = "SCANDATA" /\ piece.image = image
          /\ piece.from = sent /\ piece.size = n
      BY ScanDataType DEF ScandTypeOK, ScanData
    <2>2. /\ trailer \in Message /\ trailer.type = "SCANDATA" /\ trailer.image = image
          /\ trailer.from = sent + n /\ trailer.size = 0
      BY ScanDataType DEF ScandTypeOK, ScanData
    <2>3. dstate = "page" /\ image' = image /\ n \in Nat /\ n <= MaxChunk /\ sent \in Nat
      BY <1>4 DEF SendData, ScandTypeOK
    <2> HIDE DEF piece, trailer
    <2>4. CASE rx' = Append(rx, piece)
      BY <2>1, <2>3, <2>4, WireAppend DEF After
    <2>5. CASE dstate' # "page" /\ rx' = Append(Append(rx, piece), trailer)
      <3> DEFINE s == Append(rx, piece)
      <3>1. /\ s \in Seq(Message) /\ Len(rx) \in Nat /\ Len(s) = Len(rx) + 1
            /\ \A i \in 1 .. Len(rx) : s[i] = rx[i]
            /\ s[Len(rx) + 1] = piece
        BY <2>1, AppendFacts DEF ScandTypeOK
      <3>2. /\ Len(rx') = Len(s) + 1
            /\ \A i \in 1 .. Len(s) : rx'[i] = s[i]
            /\ rx'[Len(s) + 1] = trailer
        BY <2>2, <2>5, <3>1, AppendFacts
      <3> HIDE DEF s
      <3>3. /\ Len(rx') = Len(rx) + 2
            /\ \A i \in 1 .. Len(rx) : rx'[i] = rx[i]
            /\ rx'[Len(rx) + 1] = piece
            /\ rx'[Len(rx) + 2] = trailer
            /\ (rx = <<>>) <=> (Len(rx) = 0)
        BY <3>1, <3>2, EmptySeq DEF ScandTypeOK
      <3>4. ASSUME NEW i \in 1 .. Len(rx') - 1, rx'[i + 1].type = "SCANDATA"
            PROVE  After(rx'[i], rx'[i + 1].image, rx'[i + 1].from)
        <4>1. CASE i < Len(rx)
          BY <3>1, <3>3, <3>4, <4>1 DEF WireInOrder, After
        <4>2. CASE i = Len(rx)
          BY <2>1, <2>3, <3>1, <3>3, <3>4, <4>2 DEF WireInOrder, After
        <4>3. CASE i = Len(rx) + 1
          BY <2>1, <2>2, <3>1, <3>3, <4>3 DEF After
        <4> QED  BY <3>1, <3>3, <4>1, <4>2, <4>3
      <3>5. ASSUME NEW i \in 1 .. Len(rx')
            PROVE  /\ rx'[i].size <= MaxChunk
                   /\ rx'[i].type \in {"SCAN", "SCANCONTINUE"} => rx'[i].from = 0 /\ rx'[i].size = 0
                   /\ rx'[i].type = "ERRORSTATUS" => rx'[i].status # "SUCCESS"
        <4>1. CASE i <= Len(rx)
          BY <3>1, <3>3, <4>1 DEF WireInOrder
        <4>2. CASE i = Len(rx) + 1
          BY <2>1, <2>3, <3>3, <4>2
        <4>3. CASE i = Len(rx) + 2
          BY <2>2, <3>3, <4>3
        <4> QED  BY <3>1, <3>3, <4>1, <4>2, <4>3
      <3> QED  BY <2>5, <3>4, <3>5 DEF WireInOrder, After
    <2> QED  BY <2>4, <2>5 DEF piece, trailer
  <1>5. CASE FailPage
    BY <1>0, <1>5 DEF FailPage
  <1>6. CASE Hangup
    BY <1>6 DEF Hangup, WireInOrder, After
  <1> QED  BY <1>2, <1>3, <1>4, <1>5, <1>6 DEF Daemon

-----------------------------------------------------------------------------
(* What the steps of the daemon and of the client do to the socket.        *)

\* Message m is put behind the others.
Grown(m) ==
    /\ Len(rx') = Len(rx) + 1
    /\ \A i \in 1 .. Len(rx) : rx'[i] = rx[i]
    /\ rx'[Len(rx) + 1] = m

LEMMA AppendGrows ==
    ASSUME ScandTypeOK, NEW m \in Message, rx' = Append(rx, m)
    PROVE  Grown(m) /\ Len(rx) \in Nat
  BY AppendFacts DEF ScandTypeOK, Grown

\* The daemon starts a page.
Begun(t, m) ==
    /\ tx # <<>> /\ tx[1].type = t /\ tx' = Tail(tx)
    /\ dstate # "page" /\ dstate' = "page"
    /\ m.type = t /\ m.image = image' /\ m.from = 0 /\ m.size = 0
    /\ image' \in Image /\ sent' = 0 /\ m.adf = adf'
    /\ image'.page = image.page + 1
    /\ IF t = "SCAN" THEN image'.mode = tx[1].mode
                     ELSE /\ image'.mode = image.mode /\ image'.size = image.size
                          /\ dstate = "more" /\ adf' = adf
    /\ Grown(m)

LEMMA BegunIs ==
    ASSUME ScandTypeOK, NEW t \in {"SCAN", "SCANCONTINUE"}, NEW im \in Image, NEW b \in BOOLEAN,
           CanServe(t), BeginPage(t, im, b), im.page = image.page + 1,
           IF t = "SCAN" THEN im.mode = tx[1].mode
                         ELSE /\ im.mode = image.mode /\ im.size = image.size
                              /\ dstate = "more" /\ b = adf
    PROVE  \E m \in Message : Begun(t, m)
  <1> DEFINE m == Response(t, im, b)
  <1>1. /\ m \in Message
        /\ m.type = t /\ m.image = im /\ m.from = 0 /\ m.size = 0 /\ m.adf = b
    BY ResponseType DEF Response
  <1> HIDE DEF m
  <1>2. Grown(m)
    BY <1>1, AppendGrows DEF BeginPage, m
  <1>3. tx # <<>> /\ tx[1].type = t /\ tx' = Tail(tx) /\ dstate # "page"
    BY DEF CanServe, ScandTypeOK
  <1>4. Begun(t, m)
    BY <1>1, <1>2, <1>3 DEF Begun, BeginPage
  <1> QED  BY <1>1, <1>4

\* The daemon reports error e, in answer to a request or to end a page.
Failed(m) ==
    /\ m.type = "ERRORSTATUS" /\ m.status # "SUCCESS"
    /\ m.image = image /\ m.from = 0 /\ m.size = 0
    /\ dstate' = "idle" /\ UNCHANGED <<image, sent, adf>>
    /\ \/ tx # <<>> /\ tx' = Tail(tx)
       \/ tx' = tx /\ m.status # "REJECT"
    /\ Grown(m)

LEMMA FailedIs ==
    ASSUME ScandTypeOK, NEW e \in DaemonErrors \cup {"REJECT"}, Refuse(e),
           \/ tx # <<>> /\ tx' = Tail(tx)
           \/ tx' = tx /\ e # "REJECT"
    PROVE  \E m \in Message : Failed(m)
  <1> DEFINE m == ErrorInd(e)
  <1>1. /\ m \in Message /\ m.type = "ERRORSTATUS" /\ m.status = e
        /\ m.image = image /\ m.from = 0 /\ m.size = 0
    BY ErrorIndType DEF ScandTypeOK, ErrorInd
  <1>2. e # "SUCCESS"
    BY ErrorIsNoSuccess
  <1> HIDE DEF m
  <1>3. Grown(m)
    BY <1>1, AppendGrows DEF Refuse, m
  <1>4. Failed(m)
    BY <1>1, <1>2, <1>3 DEF Failed, Refuse
  <1> QED  BY <1>1, <1>4

\* The daemon sends the next piece m of the page, with or without a trailer.
Sent(m) ==
    /\ dstate = "page" /\ UNCHANGED <<tx, image, adf>>
    /\ m.type = "SCANDATA" /\ m.image = image /\ m.from = sent
    /\ m.size > 0 /\ m.from + m.size <= image.size /\ sent' = sent + m.size
    /\ dstate' = "page" => sent' < image.size
    /\ m.more = (dstate' = "more")
    /\ dstate' = "more" => adf
    /\ \/ Grown(m)
       \/ /\ Trailers /\ dstate' # "page"
          /\ Len(rx') = Len(rx) + 2
          /\ \A i \in 1 .. Len(rx) : rx'[i] = rx[i]
          /\ rx'[Len(rx) + 1] = m
          /\ rx'[Len(rx) + 2].type = "SCANDATA" /\ rx'[Len(rx) + 2].image = image
          /\ rx'[Len(rx) + 2].from = sent' /\ rx'[Len(rx) + 2].size = 0
          /\ rx'[Len(rx) + 2].more = (dstate' = "more")

LEMMA SentIs ==
    ASSUME ScandTypeOK, SendData
    PROVE  \E m \in Message : Sent(m)
  <1> USE ScandAssumption DEF ScandTypeOK
  <1>1. PICK n \in 1 .. MaxChunk, more \in BOOLEAN, trailer \in BOOLEAN :
           /\ sent + n <= image.size /\ sent' = sent + n
           /\ dstate' = "page" => sent + n < image.size
           /\ more = (dstate' = "more") /\ (dstate' = "more" => adf)
           /\ trailer => Trailers /\ dstate' # "page"
           /\ rx' = IF trailer
                    THEN Append(Append(rx, ScanData(image, sent, n, more)),
                                ScanData(image, sent + n, 0, more))
                    ELSE Append(rx, ScanData(image, sent, n, more))
    BY DEF SendData
  <1> DEFINE m == ScanData(image, sent, n, more)
             z == ScanData(image, sent + n, 0, more)
  <1>2. /\ m \in Message /\ m.type = "SCANDATA" /\ m.image = image
        /\ m.from = sent /\ m.size = n /\ m.more = more
    BY ScanDataType DEF ScanData
  <1>3. /\ z \in Message /\ z.type = "SCANDATA" /\ z.image = image
        /\ z.from = sent + n /\ z.size = 0 /\ z.more = more
    BY ScanDataType DEF ScanData
  <1>4. rx' = IF trailer THEN Append(Append(rx, m), z) ELSE Append(rx, m)
    BY <1>1
  <1> HIDE DEF m, z
  <1>5. dstate = "page" /\ UNCHANGED <<tx, image, adf>> /\ n > 0
    BY DEF SendData
  <1>6. CASE ~trailer
    <2>1. Grown(m)
      BY <1>2, <1>4, <1>6, AppendGrows
    <2> QED  BY <1>1, <1>2, <1>5, <2>1 DEF Sent
  <1>7. CASE trailer
    <2> DEFINE s == Append(rx, m)
    <2>1. /\ s \in Seq(Message) /\ Len(rx) \in Nat /\ Len(s) = Len(rx) + 1
          /\ \A i \in 1 .. Len(rx) : s[i] = rx[i]
          /\ s[Len(rx) + 1] = m
      BY <1>2, AppendFacts
    <2>2. rx' = Append(s, z)
      BY <1>4, <1>7
    <2> HIDE DEF s
    <2>3. /\ Len(rx') = Len(s) + 1
          /\ \A i \in 1 .. Len(s) : rx'[i] = s[i]
          /\ rx'[Len(s) + 1] = z
      BY <1>3, <2>1, <2>2, AppendFacts
    <2>4. /\ Len(rx') = Len(rx) + 2
          /\ \A i \in 1 .. Len(rx) : rx'[i] = rx[i]
          /\ rx'[Len(rx) + 1] = m /\ rx'[Len(rx) + 2] = z
      BY <2>1, <2>3
    <2> QED  BY <1>1, <1>2, <1>3, <1>5, <1>7, <2>4 DEF Sent
  <1> QED  BY <1>6, <1>7

\* Every step of the daemon is one of these, or it hangs up.
LEMMA DaemonEffect ==
    ASSUME ScandTypeOK, Daemon
    PROVE  \/ \E m \in Message : \/ Begun("SCAN", m) \/ Begun("SCANCONTINUE", m)
                                 \/ Failed(m) \/ Sent(m)
           \/ Hangup
  <1> USE DEF ScandTypeOK
  <1>1. CASE ServeScan
    <2>1. CanServe("SCAN") /\ Head(tx) = tx[1] /\ Head(tx) \in Request /\ tx # <<>> /\ tx' = Tail(tx)
      BY <1>1 DEF ServeScan, CanServe
    <2>2. ASSUME NEW size \in Sizes, NEW b \in BOOLEAN,
                 BeginPage("SCAN", [page |-> image.page + 1, mode |-> Head(tx).mode,
                                    size |-> size], b)
          PROVE  \E m \in Message : Begun("SCAN", m)
      <3> DEFINE im == [page |-> image.page + 1, mode |-> Head(tx).mode, size |-> size]
      <3>1. im \in Image /\ im.mode = tx[1].mode /\ im.page = image.page + 1
        BY <2>1 DEF Image, Request
      <3> HIDE DEF im
      <3> QED  BY <2>1, <2>2, <3>1, BegunIs DEF im
    <2>3. ASSUME NEW e \in DaemonErrors, Refuse(e) PROVE \E m \in Message : Failed(m)
      BY <2>1, <2>3, FailedIs
    <2> QED  BY <1>1, <2>2, <2>3 DEF ServeScan
  <1>2. CASE ServeContinue
    <2>1. CanServe("SCANCONTINUE") /\ tx # <<>> /\ tx' = Tail(tx)
      BY <1>2 DEF ServeContinue, CanServe
    <2>2. ASSUME BeginPage("SCANCONTINUE", [image EXCEPT !.page = @ + 1], adf),
                 dstate = "more"
          PROVE  \E m \in Message : Begun("SCANCONTINUE", m)
      <3> DEFINE im == [image EXCEPT !.page = @ + 1]
      <3>1. /\ im \in Image /\ im.mode = image.mode /\ im.size = image.size
            /\ im.page = image.page + 1
        BY DEF Image
      <3> HIDE DEF im
      <3> QED  BY <2>1, <2>2, <3>1, BegunIs DEF im
    <2>3. ASSUME NEW e \in DaemonErrors \cup {"REJECT"}, Refuse(e)
          PROVE  \E m \in Message : Failed(m)
      BY <2>1, <2>3, FailedIs
    <2> QED  BY <1>2, <2>2, <2>3 DEF ServeContinue
  <1>3. CASE SendData
    BY <1>3, SentIs
  <1>4. CASE FailPage
    <2>1. \A e \in DaemonErrors : e # "REJECT"
      BY ScandAssumption
    <2> QED  BY <1>4, <2>1, FailedIs DEF FailPage
  <1> QED  BY <1>1, <1>2, <1>3, <1>4 DEF Daemon

\* recv() on a stream in step takes the first message, the others move up.
LEMMA Received ==
    ASSUME ScandTypeOK, Receive, torn = 0
    PROVE  /\ Head(rx) = rx[1] /\ rx[1] \in Message
           /\ Len(rx) \in Nat \ {0} /\ Len(rx') = Len(rx) - 1 /\ rx' \in Seq(Message)
           /\ \A i \in 1 .. Len(rx') : rx'[i] = rx[i + 1]
           /\ UNCHANGED <<tx, peer, dstate, image, sent, adf, torn>>
  <1>1. rx # <<>> /\ rx' = Tail(rx) /\ UNCHANGED <<tx, peer, dstate, image, sent, adf, torn>>
    BY DEF Receive
  <1>2. rx \in Seq(Message)
    BY DEF ScandTypeOK
  <1> QED  BY <1>1, <1>2, HeadAndTail

-----------------------------------------------------------------------------
(* The pieces of a page.                                                   *)

LEMMA ImageSize ==
    ASSUME NEW im \in Image
    PROVE  im.size \in Nat \ {0}
  <1>1. im.size \in Sizes
    BY DEF Image
  <1> QED  BY <1>1, ScandAssumption

LEMMA PiecesStep ==
    ASSUME ScandTypeOK, PiecesFit,
           \/ Connect \/ Disconnect \/ Receive \/ Tear \/ UNCHANGED scandVars
           \/ \E r \in Request : Send(r)
           \/ Daemon
    PROVE  PiecesFit'
  <1>1. CASE Connect \/ Disconnect
    BY <1>1, EmptySeq DEF PiecesFit, Connect, Disconnect
  <1>2. CASE Receive
    <2>1. PICK k \in 0 .. Len(rx) : Dropped(k)
      BY <1>2, ReceiveDrops DEF ScandTypeOK
    <2>2. ASSUME NEW i \in 1 .. Len(rx')
          PROVE  rx'[i] = rx[i + k] /\ i + k \in 1 .. Len(rx)
      BY <2>1 DEF Dropped
    <2> QED  BY <2>1, <2>2 DEF PiecesFit, Dropped
  <1>3. CASE Tear
    BY <1>3 DEF PiecesFit, Tear
  <1>4. CASE UNCHANGED scandVars
    BY <1>4 DEF PiecesFit, scandVars
  <1>5. CASE \E r \in Request : Send(r)
    BY <1>5 DEF PiecesFit, Send
  <1>6. CASE Hangup
    BY <1>6 DEF PiecesFit, Hangup
  <1>7. ASSUME NEW t, NEW m \in Message, Begun(t, m), t # "SCANDATA"
        PROVE  PiecesFit'
    <2>1. image'.size \in Nat \ {0} /\ sent' = 0
      BY <1>7, ImageSize DEF Begun
    <2>2. Len(rx) \in Nat /\ m.type # "SCANDATA" /\ Grown(m)
      BY <1>7 DEF Begun, ScandTypeOK
    <2> QED  BY <2>1, <2>2 DEF Grown, PiecesFit
  <1>8. ASSUME NEW m \in Message, Failed(m) PROVE PiecesFit'
    <2>1. Len(rx) \in Nat
      BY DEF ScandTypeOK
    <2> QED  BY <1>8, <2>1 DEF Failed, Grown, PiecesFit
  <1>9. ASSUME NEW m \in Message, Sent(m) PROVE PiecesFit'
    <2>1. Len(rx) \in Nat /\ m.from \in Nat /\ m.size \in Nat /\ sent \in Nat /\ image.size \in Nat
      BY ImageSize DEF ScandTypeOK, Message
    <2>2. CASE Grown(m)
      BY <1>9, <2>1, <2>2 DEF Sent, Grown, PiecesFit
    <2>3. CASE ~Grown(m)
      <3>1. /\ Trailers /\ Len(rx') = Len(rx) + 2
            /\ \A i \in 1 .. Len(rx) : rx'[i] = rx[i]
            /\ rx'[Len(rx) + 1] = m
            /\ rx'[Len(rx) + 2].image = image
            /\ rx'[Len(rx) + 2].from = sent' /\ rx'[Len(rx) + 2].size = 0
            /\ m.image = image /\ m.from + m.size <= image.size
            /\ sent' = m.from + m.size
            /\ image' = image /\ (dstate' = "page" => sent' < image.size)
        BY <1>9, <2>3 DEF Sent
      <3>2. ASSUME NEW i \in 1 .. Len(rx'), rx'[i].type = "SCANDATA"
            PROVE  rx'[i].from + rx'[i].size <= rx'[i].image.size
        <4>1. CASE i <= Len(rx)
          BY <2>1, <3>1, <3>2, <4>1 DEF PiecesFit
        <4>2. CASE i = Len(rx) + 1
          BY <2>1, <3>1, <4>2
        <4>3. CASE i = Len(rx) + 2
          BY <2>1, <3>1, <4>3
        <4> QED  BY <2>1, <3>1, <4>1, <4>2, <4>3
      <3> QED  BY <1>9, <3>1, <3>2 DEF PiecesFit, Sent
    <2> QED  BY <2>2, <2>3
  <1> QED  BY <1>1, <1>2, <1>3, <1>4, <1>5, <1>6, <1>7, <1>8, <1>9, DaemonEffect

-----------------------------------------------------------------------------
(* The pages of a job.                                                     *)

\* What PagesInOrder says of a message, on its own.
PageKnown(m) ==
    /\ m.image.page <= image.page
    /\ m.type = "SCANCONTINUE" => m.adf
    /\ m.image.page = image.page =>
         /\ m.image = image
         /\ m.type \in {"SCAN", "SCANCONTINUE"} => m.adf = adf
         /\ m.type = "SCANDATA" =>
              /\ m.from + m.size <= sent
              /\ Last(m) /\ dstate = "more" => m.more

LEMMA PagesByMessage ==
    PagesInOrder <=>
      /\ dstate = "more" => adf /\ (rx # <<>> => rx[Len(rx)].image = image)
      /\ \A i \in 1 .. Len(rx) - 1 :
           rx[i + 1].type = "SCANCONTINUE" => rx[i + 1].image.page = rx[i].image.page + 1
      /\ \A i \in 1 .. Len(rx) : PageKnown(rx[i])
  BY DEF PagesInOrder, PageKnown

\* A message of the page being scanned is put behind the others.
LEMMA PagesGrow ==
    ASSUME ScandTypeOK, PagesInOrder, NEW m \in Message, Grown(m),
           \A i \in 1 .. Len(rx) : PageKnown(rx[i])', PageKnown(m)',
           m.image = image', dstate' = "more" => adf',
           m.type = "SCANCONTINUE" => dstate = "more" /\ m.image.page = image.page + 1
    PROVE  PagesInOrder'
  <1>1. /\ Len(rx) \in Nat /\ (rx = <<>> <=> Len(rx) = 0)
        /\ Len(rx') = Len(rx) + 1 /\ rx'[Len(rx) + 1] = m
        /\ \A i \in 1 .. Len(rx) : rx'[i] = rx[i]
    BY EmptySeq DEF ScandTypeOK, Grown
  <1>2. ASSUME NEW i \in 1 .. Len(rx') - 1, rx'[i + 1].type = "SCANCONTINUE"
        PROVE  rx'[i + 1].image.page = rx'[i].image.page + 1
    <2>1. CASE i < Len(rx)
      BY <1>1, <1>2, <2>1, PagesByMessage
    <2>2. CASE i = Len(rx)
      <3>1. rx[Len(rx)].image = image
        BY <1>1, <1>2, <2>2, PagesByMessage
      <3> QED  BY <1>1, <1>2, <2>2, <3>1
    <2> QED  BY <1>1, <2>1, <2>2
  <1>3. ASSUME NEW i \in 1 .. Len(rx') PROVE PageKnown(rx[i])'
    <2>1. CASE i <= Len(rx)
      BY <1>1, <2>1
    <2>2. CASE i = Len(rx) + 1
      BY <1>1, <2>2
    <2> QED  BY <1>1, <2>1, <2>2
  <1>4. dstate' = "more" => adf' /\ rx'[Len(rx')].image = image'
    BY <1>1
  <1>5. PagesInOrder' <=>
          /\ dstate' = "more" => adf' /\ (rx' # <<>> => rx'[Len(rx')].image = image')
          /\ \A i \in 1 .. Len(rx') - 1 :
               rx'[i + 1].type = "SCANCONTINUE" => rx'[i + 1].image.page = rx'[i].image.page + 1
          /\ \A i \in 1 .. Len(rx') : PageKnown(rx[i])'
    BY DEF PagesInOrder, PageKnown
  <1> QED  BY <1>2, <1>3, <1>4, <1>5

\* The client's socket calls and the daemon keep the pages in order.
LEMMA PagesStep ==
    ASSUME ScandTypeOK, PiecesFit, PagesInOrder,
           \/ Connect \/ Disconnect \/ Receive \/ Tear \/ UNCHANGED scandVars
           \/ \E r \in Request : Send(r)
           \/ Daemon
    PROVE  PagesInOrder'
  <1>0. Len(rx) \in Nat /\ image.page \in Nat
    BY DEF ScandTypeOK, Image
  <1>1. CASE Connect \/ Disconnect
    BY <1>1, EmptySeq DEF PagesInOrder, Connect, Disconnect
  <1>2. CASE Receive
    <2>1. PICK k \in 0 .. Len(rx) : Dropped(k)
      BY <1>2, ReceiveDrops DEF ScandTypeOK
    <2>2. rx' # <<>> => Len(rx') >= 1 /\ rx'[Len(rx')] = rx[Len(rx)]
      BY <2>1, EmptySeq DEF Dropped
    <2>3. rx # <<>>
      BY <1>2 DEF Receive
    <2>4. ASSUME NEW i \in 1 .. Len(rx') - 1
          PROVE  rx'[i] = rx[i + k] /\ rx'[i + 1] = rx[i + k + 1] /\ i + k \in 1 .. Len(rx) - 1
      BY <2>1 DEF Dropped
    <2>5. ASSUME NEW i \in 1 .. Len(rx')
          PROVE  rx'[i] = rx[i + k] /\ i + k \in 1 .. Len(rx)
      BY <2>1 DEF Dropped
    <2>6. UNCHANGED <<dstate, image, sent, adf>>
      BY <2>1 DEF Dropped
    <2>7. ASSUME NEW i \in 1 .. Len(rx') PROVE PageKnown(rx[i])'
      <3>1. PageKnown(rx[i + k])
        BY <2>5, PagesByMessage
      <3> QED  BY <2>5, <2>6, <3>1 DEF PageKnown, Last
    <2>8. ASSUME NEW i \in 1 .. Len(rx') - 1, rx'[i + 1].type = "SCANCONTINUE"
          PROVE  rx'[i + 1].image.page = rx'[i].image.page + 1
      BY <2>4, <2>8, PagesByMessage
    <2>9. dstate' = "more" => adf' /\ (rx' # <<>> => rx'[Len(rx')].image = image')
      BY <2>2, <2>3, <2>6 DEF PagesInOrder
    <2>10. PagesInOrder' <=>
            /\ dstate' = "more" => adf' /\ (rx' # <<>> => rx'[Len(rx')].image = image')
            /\ \A i \in 1 .. Len(rx') - 1 :
                 rx'[i + 1].type = "SCANCONTINUE" => rx'[i + 1].image.page = rx'[i].image.page + 1
            /\ \A i \in 1 .. Len(rx') : PageKnown(rx[i])'
      BY DEF PagesInOrder, PageKnown
    <2> QED  BY <2>7, <2>8, <2>9, <2>10
  <1>3. CASE Tear
    BY <1>3 DEF PagesInOrder, Tear, Last
  <1>4. CASE UNCHANGED scandVars
    BY <1>4 DEF PagesInOrder, scandVars, Last
  <1>5. CASE \E r \in Request : Send(r)
    BY <1>5 DEF PagesInOrder, Send, Last
  <1>6. CASE Hangup
    BY <1>6 DEF PagesInOrder, Hangup, Last
  <1>7. ASSUME NEW t \in {"SCAN", "SCANCONTINUE"}, NEW m \in Message, Begun(t, m)
        PROVE  PagesInOrder'
    <2>1. /\ Grown(m) /\ image'.page = image.page + 1 /\ m.image = image' /\ m.type = t
          /\ m.adf = adf' /\ dstate' = "page"
          /\ t = "SCANCONTINUE" => dstate = "more" /\ adf' = adf
      BY <1>7 DEF Begun
    <2>2. adf \in BOOLEAN /\ (dstate = "more" => adf)
      BY DEF ScandTypeOK, PagesInOrder
    <2>3. PageKnown(m)'
      BY <1>0, <2>1, <2>2 DEF PageKnown
    <2>4. ASSUME NEW i \in 1 .. Len(rx) PROVE PageKnown(rx[i])'
      <3>1. rx'[i] = rx[i] /\ rx[i] \in Message /\ PageKnown(rx[i])
        BY <2>1, PagesByMessage DEF ScandTypeOK, Grown
      <3>2. rx[i].image.page \in Nat
        BY <3>1 DEF Message, Image
      <3> QED  BY <1>0, <2>1, <3>1, <3>2 DEF PageKnown
    <2> QED  BY <2>1, <2>3, <2>4, PagesGrow
  <1>8. ASSUME NEW m \in Message, Failed(m) PROVE PagesInOrder'
    <2>1. /\ Grown(m) /\ m.image = image /\ m.type = "ERRORSTATUS" /\ dstate' = "idle"
          /\ UNCHANGED <<image, sent, adf>>
      BY <1>8 DEF Failed
    <2>2. PageKnown(m)'
      BY <1>0, <2>1 DEF PageKnown
    <2>3. ASSUME NEW i \in 1 .. Len(rx) PROVE PageKnown(rx[i])'
      <3>1. rx'[i] = rx[i] /\ PageKnown(rx[i])
        BY <2>1, PagesByMessage DEF Grown
      <3> QED  BY <2>1, <3>1 DEF PageKnown
    <2> QED  BY <2>1, <2>2, <2>3, PagesGrow
  <1>9. ASSUME NEW m \in Message, Sent(m) PROVE PagesInOrder'
    <2>1. /\ dstate = "page" /\ UNCHANGED <<image, adf>>
          /\ m.type = "SCANDATA" /\ m.image = image /\ m.from = sent
          /\ m.size > 0 /\ sent' = sent + m.size
          /\ dstate' = "more" => adf
      BY <1>9 DEF Sent
    <2>a. dstate' = "more" => m.more
      BY <1>9, Zenon DEF Sent
    <2>2. sent < image.size /\ sent \in Nat /\ m.size \in Nat /\ m.from \in Nat
      BY <2>1 DEF PiecesFit, ScandTypeOK, Message
    <2>3. PageKnown(m)'
      BY <1>0, <2>1, <2>2, <2>a DEF PageKnown
    <2>4. ASSUME NEW i \in 1 .. Len(rx), rx'[i] = rx[i] PROVE PageKnown(rx[i])'
      <3>1. rx[i] \in Message /\ PageKnown(rx[i])
        BY PagesByMessage DEF ScandTypeOK
      <3>2. rx[i].from \in Nat /\ rx[i].size \in Nat /\ image.size \in Nat
        BY <3>1, ImageSize DEF Message, ScandTypeOK
      <3> QED  BY <2>1, <2>2, <2>4, <3>1, <3>2 DEF PageKnown, Last
    <2>5. CASE Grown(m)
      BY <2>1, <2>3, <2>4, <2>5, PagesGrow DEF Grown
    <2>6. CASE ~Grown(m)
      <3>1. /\ Len(rx') = Len(rx) + 2
            /\ \A i \in 1 .. Len(rx) : rx'[i] = rx[i]
            /\ rx'[Len(rx) + 1] = m
            /\ rx'[Len(rx) + 2].type = "SCANDATA" /\ rx'[Len(rx) + 2].image = image
            /\ rx'[Len(rx) + 2].from = sent' /\ rx'[Len(rx) + 2].size = 0
        BY <1>9, <2>6 DEF Sent
      <3>a. dstate' = "more" => rx'[Len(rx) + 2].more
        BY <1>9, <2>6, Zenon DEF Sent
      <3>2. ASSUME NEW i \in 1 .. Len(rx') PROVE PageKnown(rx[i])'
        <4>1. CASE i <= Len(rx)
          BY <1>0, <2>4, <3>1, <4>1
        <4>2. CASE i = Len(rx) + 1
          BY <2>3, <3>1, <4>2
        <4>3. CASE i = Len(rx) + 2
          BY <1>0, <2>1, <2>2, <3>1, <3>a, <4>3 DEF PageKnown
        <4> QED  BY <1>0, <3>1, <4>1, <4>2, <4>3
      <3>3. ASSUME NEW i \in 1 .. Len(rx') - 1, rx'[i + 1].type = "SCANCONTINUE"
            PROVE  rx'[i + 1].image.page = rx'[i].image.page + 1
        <4>1. i + 1 <= Len(rx)
          BY <1>0, <2>1, <3>1, <3>3
        <4> QED  BY <1>0, <3>1, <3>3, <4>1 DEF PagesInOrder
      <3>4. dstate' = "more" => adf' /\ rx'[Len(rx')].image = image'
        BY <2>1, <3>1
      <3>5. PagesInOrder' <=>
              /\ dstate' = "more" => adf' /\ (rx' # <<>> => rx'[Len(rx')].image = image')
              /\ \A i \in 1 .. Len(rx') - 1 :
                   rx'[i + 1].type = "SCANCONTINUE" => rx'[i + 1].image.page = rx'[i].image.page + 1
              /\ \A i \in 1 .. Len(rx') : PageKnown(rx[i])'
        BY DEF PagesInOrder, PageKnown
      <3> QED  BY <3>2, <3>3, <3>4, <3>5
    <2> QED  BY <2>5, <2>6
  <1> QED  BY <1>1, <1>2, <1>3, <1>4, <1>5, <1>6, <1>7, <1>8, <1>9, DaemonEffect

\* What both clients may rely on, together.
ConnInv == ScandTypeOK /\ WireInOrder /\ PiecesFit /\ PagesInOrder

LEMMA ConnInit == ScandInit => ConnInv
  <1> SUFFICES ASSUME ScandInit PROVE ConnInv
    OBVIOUS
  <1>1. image \in Image
    BY DEF ScandInit, Image
  <1>2. ScandTypeOK
    BY <1>1, EmptySeq DEF ScandInit, ScandTypeOK
  <1>3. rx = <<>> /\ Len(rx) = 0 /\ dstate = "idle"
    BY EmptySeq DEF ScandInit
  <1>4. WireInOrder /\ PiecesFit /\ PagesInOrder
    BY <1>3 DEF WireInOrder, PiecesFit, PagesInOrder
  <1> QED  BY <1>2, <1>4 DEF ConnInv

LEMMA ConnStep ==
    ASSUME ConnInv,
           \/ Connect \/ Disconnect \/ Receive \/ Tear \/ UNCHANGED scandVars
           \/ \E r \in Request : Send(r)
           \/ Daemon
    PROVE  ConnInv'
  BY SocketCallsType, DaemonType, SocketCallsInOrder, DaemonInOrder, PiecesStep, PagesStep
  DEF ConnInv
=============================================================================
