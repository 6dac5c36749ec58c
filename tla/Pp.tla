----------------------------------- MODULE Pp -----------------------------------
(***************************************************************************)
(* Parallel ports (sanei_pp.c): a port is opened - its control registers   *)
(* are saved and what it can do is probed - claimed, set to a mode,        *)
(* released and closed.  The build has libieee1284 ("lib"), direct I/O     *)
(* with the registers of ECP ports ("iopl") or without them ("ioperm"),    *)
(* or none of these.                                                       *)
(***************************************************************************)
EXTENDS FiniteSets

CONSTANTS
    PpPorts,        \* the ports
    PpLowPorts,     \* those at an address no EPP port can have
    PpBuilds,       \* of "lib", "iopl", "ioperm", "none"
    PpHardware      \* what the ports may be

\* Hardware: the ports, ECP and PS/2, that there are, and an EPP port: of version 1.9
\* with the direction set by hardware ("hw") or software ("sw"), of version 1.7, one that
\* some ECP chips only seem to have ("phony"), or "none".
ASSUME PpAssumption ==
    /\ PpLowPorts \subseteq PpPorts /\ PpBuilds \subseteq {"lib", "iopl", "ioperm", "none"}
    /\ PpHardware \subseteq [spp : BOOLEAN, ecp : BOOLEAN, ps2 : BOOLEAN,
                             epp : {"hw", "sw", "1.7", "phony", "none"}]
    /\ \A h \in PpHardware : h.epp = "phony" => h.ecp

Modes == {"SPP", "BIDI", "EPP", "ECP"}      \* SANEI_PP_MODE_...

VARIABLES
    ppBuild, ppHardware,    \* fixed at first
    ppInit,         \* whether pp_init has succeeded (first_time)
    ppPort,         \* PortRec, with the port's registers; claim: who has it
    ppHeld,         \* ports an application has opened and not closed
    ppStuck         \* ports that could not be closed

ppVars == <<ppBuild, ppHardware, ppInit, ppPort, ppHeld, ppStuck>>
ppFixed == <<ppBuild, ppHardware, ppInit>>

\* The control register - direction bit, the rest - and the mode of the ECP register.
OrigRegs == [dir |-> "orig", low |-> "orig", ecr |-> "orig"]

PpInit0 ==
    /\ ppBuild \in PpBuilds /\ ppHardware \in [PpPorts -> PpHardware] /\ ppInit = FALSE
    /\ ppPort = [p \in PpPorts |-> [in_use |-> FALSE, claimed |-> FALSE, caps |-> {},
                                    regs |-> OrigRegs, saved |-> OrigRegs, claim |-> "free"]]
    /\ ppHeld = {} /\ ppStuck = {}

-----------------------------------------------------------------------------
\* sanei_pp_init, which may fail and be tried again.
PpInitialise ==
    /\ ppBuild # "none"
    /\ ppInit' \in {ppInit, TRUE}
    /\ UNCHANGED <<ppBuild, ppHardware, ppPort, ppHeld, ppStuck>>

ProbedEpp_NoBugCheck(h, p) == IF p \in PpLowPorts \/ h.epp = "none" THEN {} ELSE {IF h.epp = "phony" THEN "hw" ELSE h.epp}

\* pp_probe: the EPP port it finds.  The check for phony ports is only made where an ECP
\* port has been found.
ProbedEpp(h, p) ==
    IF p \in PpLowPorts \/ h.epp = "none" THEN {}
    ELSE IF h.epp = "phony" THEN IF ppBuild = "iopl" THEN {} ELSE {"hw"}
    ELSE {h.epp}

\* pp_probe and pp_showcaps; libieee1284 knows what the port can do.  EPP 1.7 is not
\* among the modes.
Caps(h, p) ==
    LET epp == IF ppBuild = "lib" THEN {h.epp} \ {"phony", "none"} ELSE ProbedEpp(h, p)
    IN IF ~h.spp THEN {}
       ELSE {"SPP"} \cup (IF h.ps2 THEN {"BIDI"} ELSE {})
            \cup (IF h.ecp /\ ppBuild \in {"lib", "iopl"} THEN {"ECP"} ELSE {})
            \cup (IF epp \cap {"hw", "sw"} # {} THEN {"EPP"} ELSE {})

ProbedRegs == [dir |-> "out", low |-> "probe", ecr |-> "probe"]

SavedRegs_Late(regs) == ProbedRegs

\* What pp_open saves: before it probes.  Without ECP registers nothing is saved - and
\* the zero of the static port is brought back.
SavedRegs(regs) ==
    IF ppBuild = "iopl" THEN regs ELSE [dir |-> "out", low |-> "zero", ecr |-> "orig"]

PpBecomes(p, s) == ppPort' = [ppPort EXCEPT ![p] = s]

Opened_Unmarked(s, p) ==
    [s EXCEPT !.claimed = FALSE, !.caps = Caps(ppHardware[p], p),
              !.saved = IF ppBuild = "lib" THEN @ ELSE SavedRegs(s.regs),
              !.regs = IF ppBuild = "lib" THEN @ ELSE ProbedRegs]

PpOpened(s, p) ==
    [s EXCEPT !.in_use = TRUE, !.claimed = FALSE, !.caps = Caps(ppHardware[p], p),
              !.saved = IF ppBuild = "lib" THEN @ ELSE SavedRegs(s.regs),
              !.regs = IF ppBuild = "lib" THEN @ ELSE ProbedRegs]

\* sanei_pp_open: no such port, no permission - claimed is reset all the same -, or it
\* succeeds.
PpOpen(p) ==
    /\ ppInit /\ ~ppPort[p].in_use
    /\ \/ PpBecomes(p, [ppPort[p] EXCEPT !.claimed = FALSE]) /\ UNCHANGED ppHeld
       \/ PpBecomes(p, PpOpened(ppPort[p], p)) /\ ppHeld' = ppHeld \cup {p}
    /\ UNCHANGED <<ppFixed, ppStuck>>

\* A port in use is not opened; one that is not is not closed.
PpOpenBusy(p) == ppInit /\ ppPort[p].in_use /\ UNCHANGED ppVars

PpReleased_StillOurs(s) == [s EXCEPT !.claimed = FALSE]

\* sanei_pp_release
PpReleased(s) == [s EXCEPT !.claimed = FALSE, !.claim = IF @ = "us" THEN "free" ELSE @]

\* sanei_pp_close: the registers are brought back and the port is released before it is
\* known whether it can be closed.
PpClose(p) ==
    /\ p \in ppHeld /\ ppPort[p].in_use
    /\ LET r == [ppPort[p] EXCEPT !.regs = IF ppBuild = "lib" THEN @ ELSE ppPort[p].saved]
           s == IF r.claimed THEN PpReleased(r) ELSE r
       IN \/ PpBecomes(p, [s EXCEPT !.in_use = FALSE]) /\ UNCHANGED ppStuck
          \/ PpBecomes(p, s) /\ ppStuck' = ppStuck \cup {p}
    /\ ppHeld' = ppHeld \ {p}
    /\ UNCHANGED ppFixed

\* sanei_pp_claim: with direct I/O it is only noted.
PpClaim(p) ==
    /\ p \in ppHeld
    /\ \/ ppBuild # "lib" /\ PpBecomes(p, [ppPort[p] EXCEPT !.claimed = TRUE])
       \/ /\ ppBuild = "lib" /\ ppPort[p].claim = "free"
          /\ PpBecomes(p, [ppPort[p] EXCEPT !.claimed = TRUE, !.claim = "us"])
       \/ ppBuild = "lib" /\ UNCHANGED ppPort
    /\ UNCHANGED <<ppFixed, ppHeld, ppStuck>>

PpRelease(p) ==
    /\ p \in ppHeld /\ PpBecomes(p, PpReleased(ppPort[p]))
    /\ UNCHANGED <<ppFixed, ppHeld, ppStuck>>

\* pp_set_scpmode, pp_set_bidimode, pp_set_eppmode (which keeps the direction and clears
\* the other bits) and pp_set_ecpmode.
InMode(regs, mode) ==
    LET r == IF ppBuild = "iopl" THEN [regs EXCEPT !.ecr = mode] ELSE regs
    IN CASE mode = "SPP" -> [r EXCEPT !.dir = "out"]
         [] mode = "BIDI" -> [r EXCEPT !.dir = "in"]
         [] mode = "EPP" -> [r EXCEPT !.low = "zero"]
         [] mode = "ECP" -> r

\* sanei_pp_setmode: only a mode the port has; libieee1284 negotiates it.
PpSetMode(p, mode) ==
    /\ p \in ppHeld
    /\ IF ppBuild # "lib" /\ mode \in ppPort[p].caps
       THEN PpBecomes(p, [ppPort[p] EXCEPT !.regs = InMode(@, mode)])
       ELSE UNCHANGED ppPort
    /\ UNCHANGED <<ppFixed, ppHeld, ppStuck>>

\* sanei_pp_set_datadir, and sanei_pp_outb_ctrl that sets any bits.
PpSetDataDir(p) ==
    /\ p \in ppHeld /\ ppBuild # "lib"
    /\ \E dir \in {"in", "out"}, low \in {"probe", "zero", "app"} :
         /\ low \in {ppPort[p].regs.low, "app"}
         /\ PpBecomes(p, [ppPort[p] EXCEPT !.regs.dir = dir, !.regs.low = low])
    /\ UNCHANGED <<ppFixed, ppHeld, ppStuck>>

\* Another process claims or releases a port.
PpOther(p) ==
    /\ ppBuild = "lib" /\ ppPort[p].claim # "us"
    /\ PpBecomes(p, [ppPort[p] EXCEPT !.claim = IF @ = "free" THEN "other" ELSE "free"])
    /\ UNCHANGED <<ppFixed, ppHeld, ppStuck>>

PpNext ==
    \/ PpInitialise
    \/ \E p \in PpPorts :
         \/ PpOpen(p) \/ PpOpenBusy(p) \/ PpClose(p) \/ PpClaim(p) \/ PpRelease(p)
         \/ PpSetDataDir(p) \/ PpOther(p)
         \/ \E mode \in Modes : PpSetMode(p, mode)

PpSpec == PpInit0 /\ [][PpNext]_ppVars

-----------------------------------------------------------------------------
(* Properties *)

\* The ports; one that an application holds is in use, so that pp_open gives it to
\* nobody else.
PpTypeOK ==
    /\ \A p \in PpPorts : ppPort[p].caps \subseteq Modes /\ (p \in ppHeld => ppPort[p].in_use)
    /\ ppHeld \subseteq PpPorts /\ ppStuck \subseteq PpPorts /\ ppInit \in BOOLEAN

\* A port that is not in use has the control registers it had before it was opened,
\* whatever modes it was set to (pp_open saves and pp_close brings back ctrl and
\* ecp_ctrl), where they can be saved.
CtrlBroughtBack ==
    ppBuild = "iopl" => \A p \in PpPorts : ~ppPort[p].in_use => ppPort[p].regs = OrigRegs

\* A port is never claimed from the others without being in use and marked as claimed:
\* closing it lets the others have it, even when closing fails.
ClaimIsMarked ==
    \A p \in PpPorts :
        ppPort[p].claim = "us" => ppPort[p].claimed /\ p \in ppHeld

\* sanei_pp_getmodes offers no mode the port does not have: a phony EPP port is found
\* out where the ECP registers can be read.
OffersWhatWorks ==
    \A p \in PpPorts :
        /\ "ECP" \in ppPort[p].caps => ppHardware[p].ecp
        /\ "EPP" \in ppPort[p].caps /\ ppBuild # "ioperm" => ppHardware[p].epp \in {"hw", "sw"}

\* The same of the ports of sanei_pp.c, and what they are said to be able to do.
PpSafe == PpTypeOK /\ CtrlBroughtBack /\ ClaimIsMarked /\ OffersWhatWorks
=============================================================================
