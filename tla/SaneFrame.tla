------------------------------ MODULE SaneFrame ------------------------------
(***************************************************************************)
(* What a scanning device promises a SANE frontend about its image frames, *)
(* whatever happens behind the API: a frame that was started hands out its *)
(* bytes one after the other, at most as many as the image has; it is      *)
(* complete only with the last one, and until then it may be abandoned (an *)
(* error, a cancel).                                                       *)
(*                                                                         *)
(* ScanSession, the model of DeviceBaseImpl and its connection to the scan *)
(* daemon, is checked to implement this specification.                     *)
(***************************************************************************)
EXTENDS Naturals

CONSTANT Sizes      \* the sizes, in bytes, an image may have

VARIABLES
    state,          \* of the latest frame: "none", "active" or "complete"
    need,           \* its size, 0 when there is none
    got             \* bytes of it the frontend has

frameVars == <<state, need, got>>

FrameInit == state = "none" /\ need = 0 /\ got = 0

\* sane_start returns SANE_STATUS_GOOD.
StartFrame ==
    /\ state = "none"
    /\ state' = "active" /\ need' \in Sizes /\ got' = 0

\* sane_read returns SANE_STATUS_GOOD with some bytes.
Deliver ==
    /\ state = "active"
    /\ got' \in got .. need
    /\ UNCHANGED <<state, need>>

\* sane_read returns SANE_STATUS_EOF.
FinishFrame ==
    /\ state = "active" /\ got = need
    /\ state' = "complete" /\ UNCHANGED <<need, got>>

\* A call fails, the frontend cancels, or it asks for another frame.
DropFrame ==
    /\ state # "none"
    /\ state' = "none" /\ need' = 0 /\ got' = 0

FrameNext == StartFrame \/ Deliver \/ FinishFrame \/ DropFrame

FrameSpec == FrameInit /\ [][FrameNext]_frameVars
=============================================================================
