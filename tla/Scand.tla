-------------------------------- MODULE Scand --------------------------------
(***************************************************************************)
(* The scan daemon behind the Unix stream socket SCAND_UDSOCKNAME, as the  *)
(* backend sees it.  The daemon's source is not part of the repository:    *)
(* this module is its behaviour as driver/devel/scandifdef.h declares the  *)
(* messages and as the two clients (DeviceBaseImpl::start/read and         *)
(* scandif::scan) use them.  A connection serves one request at a time:    *)
(* SCAN opens a job and streams one page, SCANCONTINUE streams the next    *)
(* page of an ADF job, and an ERRORSTATUS indication ends a page or        *)
(* refuses a request.                                                      *)
(*                                                                         *)
(* A message carries, besides what is on the wire, the image its bytes     *)
(* belong to and their position in it, so that properties can tell which   *)
(* bytes reached the frontend.                                             *)
(*                                                                         *)
(* The stream has no marks.  A receive that gives up inside a message      *)
(* leaves it out of step: until the connection is closed the client takes  *)
(* whatever bytes come next for a header and a body, and these may look    *)
(* like any message (Misread).  A length in such a header that overruns    *)
(* the memory of the client is undefined behaviour and is not followed.    *)
(***************************************************************************)
EXTENDS Naturals, Sequences

CONSTANTS
    Modes,          \* colour modes a request may ask for
    Sizes,          \* sizes of an image (scan_resp_t.size_bytes)
    MaxChunk,       \* most image bytes in one SCANDATA (max_trans_size)
    DaemonErrors,   \* error_status values the daemon reports, REJECT aside
    MaxPage,        \* bound: pages scanned in a behaviour
    RxMax,          \* bound: replies waiting in the socket
    TxMax,          \* bound: requests waiting in the socket
    Trailers,       \* may an empty SCANDATA follow the last one of a page?
    Misread,        \* the messages that bytes out of step are taken for
    MaxMisreads     \* bound: messages misread on one connection

VARIABLES
    rx,             \* replies sent by the daemon and not yet received
    tx,             \* requests sent by the client and not yet read
    peer,           \* the daemon's end of the connection is open
    dstate,         \* "idle", "page" (streaming one), "more" (next page waits)
    image,          \* the page being scanned, or the last one scanned
    sent,           \* bytes of it sent so far
    adf,            \* the job feeds from the ADF (scan_resp_t.src == 2)
    torn            \* 0, or one more than the messages misread since the client
                    \* gave up inside a message of this connection

scandVars == <<rx, tx, peer, dstate, image, sent, adf, torn>>

Image == [page : Nat, mode : Modes, size : Sizes]

Request == [type : {"SCAN", "SCANCONTINUE"}, mode : Modes]

MsgType == {"SCAN", "SCANCONTINUE", "SCANDATA", "ERRORSTATUS", "JUNK"}

Message == [type : MsgType, image : Image, from : Nat, size : Nat,
            adf : BOOLEAN, more : BOOLEAN, status : DaemonErrors \cup {"REJECT", "SUCCESS"}]

ASSUME ScandAssumption ==
    /\ Modes # {}
    /\ Sizes \subseteq Nat \ {0} /\ Sizes # {}
    /\ MaxChunk \in Nat \ {0}
    /\ "REJECT" \notin DaemonErrors /\ "SUCCESS" \notin DaemonErrors
    /\ MaxPage \in Nat /\ RxMax \in Nat /\ TxMax \in Nat
    /\ Trailers \in BOOLEAN
    /\ Misread \subseteq Message /\ MaxMisreads \in Nat

\* A response: the page announced, where it comes from, no image bytes.
Response(t, im, fromAdf) ==
    [type |-> t, image |-> im, from |-> 0, size |-> 0,
     adf |-> fromAdf, more |-> FALSE, status |-> "SUCCESS"]

\* SCANDATA.ind with n bytes of im, from position pos on; more is its
\* has_more_docs.
ScanData(im, pos, n, more) ==
    [type |-> "SCANDATA", image |-> im, from |-> pos, size |-> n,
     adf |-> FALSE, more |-> more, status |-> "SUCCESS"]

\* scandata_ind_t.last: the bytes of the page end with this message.
Last(m) == m.from + m.size = m.image.size

\* ERRORSTATUS.ind
ErrorInd(e) ==
    [type |-> "ERRORSTATUS", image |-> image, from |-> 0, size |-> 0,
     adf |-> FALSE, more |-> FALSE, status |-> e]

ScandTypeOK ==
    /\ rx \in Seq(Message)
    /\ tx \in Seq(Request)
    /\ peer \in BOOLEAN
    /\ dstate \in {"idle", "page", "more"}
    /\ image \in Image
    /\ sent \in Nat
    /\ adf \in BOOLEAN
    /\ torn \in Nat

ScandInit ==
    /\ rx = <<>> /\ tx = <<>> /\ peer = FALSE
    /\ dstate = "idle"
    /\ image \in [page : {0}, mode : Modes, size : Sizes]
    /\ sent = 0
    /\ adf = FALSE
    /\ torn = 0

-----------------------------------------------------------------------------
(* The connection, as the client's socket calls change it.                 *)

\* connect() succeeds: a fresh connection to an idle daemon.
Connect == /\ rx' = <<>> /\ tx' = <<>> /\ peer' = TRUE
           /\ dstate' = "idle" /\ torn' = 0
           /\ UNCHANGED <<image, sent, adf>>

\* shutdown() and close(): what was in flight is lost, the job is dropped.
Disconnect == /\ rx' = <<>> /\ tx' = <<>> /\ peer' = FALSE
              /\ dstate' = "idle" /\ torn' = 0
              /\ UNCHANGED <<image, sent, adf>>

\* send(): the daemon will find the request after the earlier ones.
Send(req) == /\ peer /\ Len(tx) < TxMax
             /\ tx' = Append(tx, req)
             /\ UNCHANGED <<rx, peer, dstate, image, sent, adf, torn>>

\* What a recv() may find: the oldest reply, or what its bytes look like.
Arriving == CASE rx = <<>> -> {}
              [] rx # <<>> /\ torn = 0 -> {rx[1]}
              [] OTHER -> IF torn <= MaxMisreads THEN Misread ELSE {}

\* recv() takes the oldest reply.  A header out of step has a length of its
\* own: with its body it may swallow none of the replies behind it or all.
Receive ==
    /\ rx # <<>>
    /\ \/ torn = 0 /\ rx' = Tail(rx) /\ UNCHANGED torn
       \/ torn > 0 /\ torn' = torn + 1
          /\ \E k \in 0 .. Len(rx) : rx' = SubSeq(rx, k + 1, Len(rx))
    /\ UNCHANGED <<tx, peer, dstate, image, sent, adf>>

\* scandif_recv gives up inside a message: its rest stays in the stream,
\* where the next call takes it for a header.
Tear == /\ rx # <<>>
        /\ torn' = IF torn = 0 THEN 1 ELSE torn
        /\ UNCHANGED <<rx, tx, peer, dstate, image, sent, adf>>

-----------------------------------------------------------------------------
(* The daemon.                                                             *)

CanServe(t) == /\ peer /\ dstate # "page" /\ Len(rx) < RxMax
               /\ tx # <<>> /\ Head(tx).type = t
               /\ tx' = Tail(tx)
               /\ UNCHANGED <<peer, torn>>

BeginPage(t, im, fromAdf) ==
    /\ im.page <= MaxPage
    /\ image' = im /\ sent' = 0 /\ adf' = fromAdf /\ dstate' = "page"
    /\ rx' = Append(rx, Response(t, im, fromAdf))

Refuse(e) == /\ dstate' = "idle"
             /\ rx' = Append(rx, ErrorInd(e))
             /\ UNCHANGED <<image, sent, adf>>

\* A SCAN request starts a job, from either source, or is refused.
ServeScan ==
    /\ CanServe("SCAN")
    /\ \/ \E size \in Sizes, fromAdf \in BOOLEAN :
             BeginPage("SCAN", [page |-> image.page + 1, mode |-> Head(tx).mode,
                                size |-> size], fromAdf)
       \/ \E e \in DaemonErrors : Refuse(e)

\* A SCANCONTINUE request starts the next page of the job, of the same
\* size, fails, or is rejected when no page is waiting.
ServeContinue ==
    /\ CanServe("SCANCONTINUE")
    /\ \/ /\ dstate = "more"
          /\ BeginPage("SCANCONTINUE", [image EXCEPT !.page = @ + 1], adf)
       \/ \E e \in IF dstate = "more" THEN DaemonErrors ELSE {"REJECT"} : Refuse(e)

\* The next piece of the page; after the last one an ADF job may have more
\* pages, and an empty SCANDATA may follow.
SendData ==
    /\ peer /\ dstate = "page" /\ Len(rx) < RxMax
    /\ \E n \in 1 .. MaxChunk, next \in {"page", "idle", "more"}, trailer \in BOOLEAN :
         LET more == next = "more" IN
         /\ sent + n <= image.size
         /\ next = "page" <=> sent + n < image.size
         /\ more => adf
         /\ trailer => Trailers /\ next # "page"
         /\ sent' = sent + n /\ dstate' = next
         /\ rx' = IF trailer
                  THEN Append(Append(rx, ScanData(image, sent, n, more)),
                              ScanData(image, sent + n, 0, more))
                  ELSE Append(rx, ScanData(image, sent, n, more))
    /\ UNCHANGED <<tx, peer, image, adf, torn>>

\* The device fails in the middle of a page.
FailPage ==
    /\ peer /\ dstate = "page" /\ Len(rx) < RxMax
    /\ \E e \in DaemonErrors : Refuse(e)
    /\ UNCHANGED <<tx, peer, torn>>

\* The daemon dies or closes the connection; what it sent can still be read.
Hangup ==
    /\ peer
    /\ peer' = FALSE /\ tx' = <<>> /\ dstate' = "idle"
    /\ UNCHANGED <<rx, image, sent, adf, torn>>

Daemon == ServeScan \/ ServeContinue \/ SendData \/ FailPage \/ Hangup

\* Byte position (im, pos) comes right after what message m carries.
After(m, im, pos) ==
    m.type # "ERRORSTATUS" /\ m.image = im /\ m.from + m.size = pos

\* Every piece of a page in the socket continues the message before it, what
\* the daemon sends next continues the last one, no piece is larger than the
\* client's buffer, a response carries no image bytes, and an ERRORSTATUS
\* indication a failure.
WireInOrder ==
    /\ \A i \in 1 .. Len(rx) - 1 :
         rx[i + 1].type = "SCANDATA" => After(rx[i], rx[i + 1].image, rx[i + 1].from)
    /\ dstate = "page" /\ rx # <<>> => After(rx[Len(rx)], image, sent)
    /\ \A i \in 1 .. Len(rx) :
         /\ rx[i].size <= MaxChunk
         /\ rx[i].type \in {"SCAN", "SCANCONTINUE"} => rx[i].from = 0 /\ rx[i].size = 0
         /\ rx[i].type = "ERRORSTATUS" => rx[i].status # "SUCCESS"

\* A piece of a page has bytes of it, unless it is a trailer.
PiecesFit ==
    /\ \A i \in 1 .. Len(rx) : rx[i].type = "SCANDATA" =>
         /\ rx[i].from + rx[i].size <= rx[i].image.size
         /\ ~Trailers => rx[i].size > 0
    /\ dstate = "page" => sent < image.size

\* The pages of a job follow each other: what the daemon sends next belongs to the
\* last page announced, SCANCONTINUE announces the page after the one before it,
\* the last piece of a page tells whether another one waits, and only a job of
\* the ADF has another one.
PagesInOrder ==
    /\ dstate = "more" => adf /\ (rx # <<>> => rx[Len(rx)].image = image)
    /\ \A i \in 1 .. Len(rx) - 1 :
         rx[i + 1].type = "SCANCONTINUE" => rx[i + 1].image.page = rx[i].image.page + 1
    /\ \A i \in 1 .. Len(rx) :
         /\ rx[i].image.page <= image.page
         /\ rx[i].type = "SCANCONTINUE" => rx[i].adf
         /\ rx[i].image.page = image.page =>
              /\ rx[i].image = image
              /\ rx[i].type \in {"SCAN", "SCANCONTINUE"} => rx[i].adf = adf
              /\ rx[i].type = "SCANDATA" =>
                   /\ rx[i].from + rx[i].size <= sent
                   /\ Last(rx[i]) /\ dstate = "more" => rx[i].more
=============================================================================
