---------------------------- MODULE MessageStream ----------------------------
(***************************************************************************)
(* What the two clients of the scan daemon take receive_message to be: it  *)
(* hands out the messages that were sent, one after the other, each once.  *)
(* Only when a message was torn, because a call gave up inside it or its   *)
(* sender did not send it to its end, may something come that nobody sent; *)
(* even then no message comes back.                                        *)
(***************************************************************************)
EXTENDS Naturals, Sequences

VARIABLES
    put,            \* number of messages sent: 1 .. put
    taken,          \* the messages handed out, 0 for what is none
    torn            \* a message was torn

streamVars == <<put, taken, torn>>

StreamInit == put = 0 /\ taken = <<>> /\ torn = FALSE

Put == put' = put + 1 /\ UNCHANGED <<taken, torn>>

Take == /\ ~torn /\ Len(taken) < put
        /\ taken' = Append(taken, Len(taken) + 1)
        /\ UNCHANGED <<put, torn>>

TearOne == ~torn /\ torn' = TRUE /\ UNCHANGED <<put, taken>>

TakeJunk ==
    /\ torn
    /\ \E m \in 0 .. put :
         /\ m > 0 => \A i \in 1 .. Len(taken) : taken[i] < m
         /\ taken' = Append(taken, m)
    /\ UNCHANGED <<put, torn>>

StreamNext == Put \/ Take \/ TearOne \/ TakeJunk

StreamSpec == StreamInit /\ [][StreamNext]_streamVars
=============================================================================
