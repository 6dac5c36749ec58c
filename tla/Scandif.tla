------------------------------- MODULE Scandif -------------------------------
(***************************************************************************)
(* The client's end of a connection to the scan daemon: the socket of a    *)
(* scandif (driver/scandifc.cpp) and the outcomes of its calls.            *)
(***************************************************************************)
EXTENDS Scand

VARIABLE sock       \* scandif::sock: "none" (-1), "dead" (never connected), "conn"

\* scandif::open: connected, or one of its two failures.
OpenSucceeds == sock' = "conn" /\ Connect
OpenFails == sock' \in {"none", "dead"} /\ Disconnect

\* scandif::is_open: the peek finds data or an open connection.  When it
\* does not, is_open closes the socket.
IsOpen == sock = "conn" /\ (peer \/ rx # <<>>)

\* scandif::close
Close == sock' = "none" /\ Disconnect

\* receive_message finds m.
Receives(m) == m \in Arriving /\ sock = "conn" /\ Receive

\* The ways a receive_message ends without a message: recv fails on a socket
\* that is not connected (any more), the daemon hung up, the body did not
\* arrive in SCANDIF_RECV_RETRY pieces, or the call was interrupted.
RecvFails ==
    \/ sock # "conn" /\ UNCHANGED scandVars
    \/ sock = "conn" /\ ~peer /\ rx = <<>> /\ UNCHANGED scandVars
    \/ sock = "conn" /\ Tear

\* A recv() blocks: the connection is there and has nothing to read.
Waits == sock = "conn" /\ peer /\ rx = <<>>

\* SCANDIF_RECV_RETRY timeouts or signals while it waits for a header: NODATA.
RecvInterrupted == sock = "conn" /\ UNCHANGED scandVars
=============================================================================
