------------------------------ MODULE Transfer -------------------------------
(***************************************************************************)
(* How scandif_send and scandif_recv (driver/odc_scandif.cpp) carry one    *)
(* message over the stream socket: a header of HeaderLen units with the    *)
(* length of the body, then the body, in as many pieces as send() and      *)
(* recv() make of it.  The modules above (Scandif, ScanSession,            *)
(* ScanClient) take a message as one item of a queue; MessageStream is     *)
(* that view, and this module is checked to implement it.                  *)
(*                                                                         *)
(* A unit of the stream is <<m, k>>: the k-th unit of the m-th message     *)
(* sent.  The code cannot see that; the properties do.                     *)
(***************************************************************************)
EXTENDS Naturals, Sequences

CONSTANTS
    HeaderLen,      \* units of a header (sizeof(msg_header_t))
    BodyLens,       \* data_length of the messages that are sent
    RecvRetry,      \* SCANDIF_RECV_RETRY
    ShortSends,     \* may a send() be interrupted after a part of its data?
    MaxMessages     \* bound: messages sent in a behaviour

ASSUME TransferAssumption ==
    /\ HeaderLen \in Nat \ {0} /\ RecvRetry \in Nat \ {0} /\ MaxMessages \in Nat
    /\ BodyLens \subseteq Nat
    /\ ShortSends \in BOOLEAN

VARIABLES
    stream,         \* units written to the socket and not yet read
    lens,           \* data_length of each message sent so far
    sending,        \* units of the message in hand that send() has not taken
    hungup,         \* the sender closed its end
    recvpc,         \* scandif_recv: "idle", "header" or "body"
    cnt,            \* its retry counter
    got,            \* units it has read in this call (off = those of the body)
    remain,         \* body units it still waits for
    status,         \* what the latest call returned
    delivered,      \* messages of the calls that returned SUCCESS; 0: no message
    spoilt          \* a call gave up inside a body, or a send() fell short

transferVars == <<stream, lens, sending, hungup, recvpc, cnt, got, remain,
                  status, delivered, spoilt>>
recvVars == <<recvpc, cnt, got, remain, status, delivered>>

Status == {"SUCCESS", "NODATA", "DISCONNECTED", "IOERROR"}

TransferInit ==
    /\ stream = <<>> /\ lens = <<>> /\ sending = <<>> /\ hungup = FALSE
    /\ recvpc = "idle" /\ cnt = 0 /\ got = <<>> /\ remain = 0
    /\ status = "SUCCESS" /\ delivered = <<>> /\ spoilt = FALSE

\* The units of message m when its body has n units.
Units(m, n) == [k \in 1 .. HeaderLen + n |-> <<m, k>>]

-----------------------------------------------------------------------------
(* scandif_send, at the other end.                                         *)

\* The next message; its header is handed to send().
SendHeader ==
    /\ sending = <<>> /\ ~hungup /\ Len(lens) < MaxMessages
    /\ \E n \in BodyLens :
         /\ lens' = Append(lens, n)
         /\ sending' = SubSeq(Units(Len(lens) + 1, n), HeaderLen + 1, HeaderLen + n)
    /\ stream' = stream \o SubSeq(Units(Len(lens) + 1, 0), 1, HeaderLen)
    /\ UNCHANGED <<hungup, recvVars, spoilt>>

\* send() passes a body on piece by piece, as the socket has room.
SendPiece ==
    /\ sending # <<>> /\ ~hungup
    /\ \E n \in 1 .. Len(sending) :
         /\ stream' = stream \o SubSeq(sending, 1, n)
         /\ sending' = SubSeq(sending, n + 1, Len(sending))
    /\ UNCHANGED <<lens, hungup, recvVars, spoilt>>

\* A signal interrupts send() after a part of the body: it returns that part's
\* length, which is not negative, and scandif_send returns SUCCESS.
SendShort ==
    /\ ShortSends /\ sending # <<>> /\ ~hungup
    /\ sending' = <<>> /\ spoilt' = TRUE
    /\ UNCHANGED <<stream, lens, hungup, recvVars>>

\* The sender dies or closes; what it wrote can still be read.
SenderCloses ==
    /\ ~hungup
    /\ hungup' = TRUE /\ sending' = <<>>
    /\ UNCHANGED <<stream, lens, recvVars, spoilt>>

-----------------------------------------------------------------------------
(* scandif_recv.                                                           *)

Return(s) == recvpc' = "idle" /\ status' = s /\ cnt' = 0 /\ remain' = 0

\* The message that the units of this call are, 0 when they are none.
MessageOf(us) ==
    IF us # <<>> /\ us = Units(us[1][1], Len(us) - HeaderLen)
    THEN us[1][1] ELSE 0

\* receive_message is called.
RecvCall ==
    /\ recvpc = "idle"
    /\ recvpc' = "header" /\ cnt' = 0 /\ got' = <<>> /\ remain' = 0
    /\ UNCHANGED <<stream, lens, sending, hungup, status, delivered, spoilt>>

RecvHeaderRetry_Forever ==
    /\ recvpc = "header"
    /\ UNCHANGED <<recvpc, status, remain, cnt>>
    /\ UNCHANGED <<stream, lens, sending, hungup, got, delivered, spoilt>>

RecvHeaderRetry_OneMore ==
    /\ recvpc = "header"
    /\ IF cnt = RecvRetry
       THEN Return("NODATA")
       ELSE cnt' = cnt + 1 /\ UNCHANGED <<recvpc, status, remain>>
    /\ UNCHANGED <<stream, lens, sending, hungup, got, delivered, spoilt>>

\* EAGAIN (the receive timeout) or EINTR: once more, or NODATA.
RecvHeaderRetry ==
    /\ recvpc = "header"
    /\ IF cnt + 1 = RecvRetry
       THEN Return("NODATA")
       ELSE cnt' = cnt + 1 /\ UNCHANGED <<recvpc, status, remain>>
    /\ UNCHANGED <<stream, lens, sending, hungup, got, delivered, spoilt>>

\* data_length as the header read says; in anything but a header of a message it
\* may be any number.
LengthIn(us) ==
    IF Len(us) = HeaderLen /\ us = Units(us[1][1], 0) THEN {lens[us[1][1]]}
    ELSE BodyLens

\* recv() hands out what is there, at most a header of it; its length is not
\* compared with the size of the header.
RecvHeader ==
    /\ recvpc = "header" /\ stream # <<>>
    /\ LET n == IF Len(stream) < HeaderLen THEN Len(stream) ELSE HeaderLen
           us == SubSeq(stream, 1, n)
       IN /\ stream' = SubSeq(stream, n + 1, Len(stream))
          /\ got' = us
          /\ \E len \in LengthIn(us) :
               IF len > 0
               THEN /\ recvpc' = "body" /\ cnt' = 0 /\ remain' = len
                    /\ UNCHANGED <<status, delivered>>
               ELSE /\ Return("SUCCESS")
                    /\ delivered' = Append(delivered, MessageOf(us))
    /\ UNCHANGED <<lens, sending, hungup, spoilt>>

RecvBodyRetry_NoData ==
    /\ recvpc = "body"
    /\ IF cnt + 1 = RecvRetry
       THEN Return("NODATA") /\ spoilt' = TRUE
       ELSE cnt' = cnt + 1 /\ UNCHANGED <<recvpc, status, remain, spoilt>>
    /\ UNCHANGED <<stream, lens, sending, hungup, got, delivered>>

\* EAGAIN inside the body counts as a retry, too.
RecvBodyRetry ==
    /\ recvpc = "body"
    /\ IF cnt + 1 = RecvRetry
       THEN Return("IOERROR") /\ spoilt' = TRUE
       ELSE cnt' = cnt + 1 /\ UNCHANGED <<recvpc, status, remain, spoilt>>
    /\ UNCHANGED <<stream, lens, sending, hungup, got, delivered>>

RecvBody_OnePiece ==
    /\ recvpc = "body" /\ stream # <<>>
    /\ LET n == IF Len(stream) < remain THEN Len(stream) ELSE remain IN
       /\ got' = got \o SubSeq(stream, 1, n)
       /\ stream' = SubSeq(stream, n + 1, Len(stream))
       /\ Return("SUCCESS")
       /\ delivered' = Append(delivered, MessageOf(got'))
    /\ UNCHANGED <<lens, sending, hungup, spoilt>>

\* A piece of the body; a body in more than RecvRetry pieces is an error.
RecvBody ==
    /\ recvpc = "body" /\ stream # <<>>
    /\ LET n == IF Len(stream) < remain THEN Len(stream) ELSE remain IN
       /\ got' = got \o SubSeq(stream, 1, n)
       /\ stream' = SubSeq(stream, n + 1, Len(stream))
       /\ IF remain = n
          THEN /\ Return("SUCCESS")
               /\ delivered' = Append(delivered, MessageOf(got'))
               /\ UNCHANGED spoilt
          ELSE IF cnt + 1 = RecvRetry
          THEN Return("IOERROR") /\ spoilt' = TRUE /\ UNCHANGED delivered
          ELSE /\ remain' = remain - n /\ cnt' = cnt + 1
               /\ UNCHANGED <<recvpc, status, delivered, spoilt>>
    /\ UNCHANGED <<lens, sending, hungup>>

\* A signal inside a body, or an error of the socket in either half.
RecvFail ==
    /\ recvpc \in {"header", "body"}
    /\ Return("IOERROR")
    /\ spoilt' = (spoilt \/ recvpc = "body")
    /\ UNCHANGED <<stream, lens, sending, hungup, got, delivered>>

\* recv() returns 0: the sender is gone and everything was read.
RecvClosed ==
    /\ recvpc \in {"header", "body"} /\ hungup /\ stream = <<>>
    /\ Return("DISCONNECTED")
    /\ UNCHANGED <<stream, lens, sending, hungup, got, delivered, spoilt>>

Sender == SendHeader \/ SendPiece \/ SendShort \/ SenderCloses
RecvStep == RecvHeaderRetry \/ RecvHeader \/ RecvBodyRetry \/ RecvBody \/ RecvClosed
TransferNext == Sender \/ RecvCall \/ RecvStep \/ RecvFail

TransferSpec == TransferInit /\ [][TransferNext]_transferVars

\* With a receive timeout set (set_timeout) recv() returns in any case: the
\* thread in scandif_recv always makes its next step.  No error of the socket is
\* relied on.
TransferFairSpec == TransferSpec /\ WF_transferVars(RecvStep)

-----------------------------------------------------------------------------
(* Properties.                                                             *)

TransferTypeOK ==
    /\ lens \in Seq(BodyLens)
    /\ stream \in Seq(Nat \X Nat) /\ sending \in Seq(Nat \X Nat) /\ got \in Seq(Nat \X Nat)
    /\ hungup \in BOOLEAN /\ spoilt \in BOOLEAN
    /\ recvpc \in {"idle", "header", "body"}
    /\ cnt \in 0 .. RecvRetry - 1
    /\ remain \in Nat /\ (recvpc = "body" <=> remain > 0)
    /\ status \in Status
    /\ delivered \in Seq(Nat)

\* scandif_recv gives its callers the queue of messages that Scandif models:
\* in order, each once, until a call reports an error from inside a message
\* (retry counters, offset and remainder of the two loops, 128-193).
Messages == INSTANCE MessageStream
              WITH put <- Len(lens), taken <- delivered, torn <- spoilt
ImplementsStream == Messages!StreamSpec

\* A call that returns NODATA has taken nothing from the stream: its caller
\* (DeviceBaseImpl::read, odc_products.cpp:767) calls again and goes on where
\* it was.  A timeout inside a body must therefore be another status (142, 191).
NodataIsClean == recvpc = "idle" /\ status = "NODATA" => got = <<>>

\* receive_message returns, whatever the sender does: with a timeout set, the
\* retries of both loops end.
RecvReturns == recvpc # "idle" ~> recvpc = "idle"

\* The state of scandif_recv is what its loops say, and what its caller may conclude
\* from NODATA is true: a call that can be repeated has taken nothing.
TransferSafe == TransferTypeOK /\ NodataIsClean
=============================================================================
