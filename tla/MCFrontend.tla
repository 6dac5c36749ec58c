------------------------------ MODULE MCFrontend ------------------------------
(***************************************************************************)
(* What a frontend may call, side by side in one run: a behaviour is one   *)
(* of SaneApi, the entry points and their handles, or of Options, the      *)
(* options of one open device; part says which, and the variables of the   *)
(* other stay as they began.                                               *)
(***************************************************************************)
EXTENDS MCSaneApi, MCOptions

VARIABLE part

mcVars == <<part, vars, optionVars>>

MCInit == Init /\ OptionsInit /\ part \in {"api", "options"}

ApiPart == part = "api" /\ Next /\ UNCHANGED <<part, optionVars>>

OptionsPart == part = "options" /\ OptionsNext /\ UNCHANGED <<part, vars>>

MCNext == ApiPart \/ OptionsPart

MCSpec == MCInit /\ [][MCNext]_mcVars
=============================================================================
