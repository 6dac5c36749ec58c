--------------------------------- MODULE Pa4s2 ---------------------------------
(***************************************************************************)
(* Parallel-port scanners with an ASIC of the 1013 family                  *)
(* (sanei_pa4s2.c): a port is opened, enabled while it is accessed - the   *)
(* state of its registers is saved and brought back - and closed.  The     *)
(* build has libieee1284, direct I/O or neither of them.                   *)
(*                                                                         *)
(* A register only tells whose value it holds.  The scanner answers right  *)
(* in some of the modes; a value that is read although the call before it  *)
(* has failed is not initialised.                                          *)
(***************************************************************************)
EXTENDS Integers, FiniteSets

CONSTANTS
    PaPorts,        \* the ports
    PaBuilds,       \* of "lib", "direct" and "none"
    PaScanners      \* per port: the modes in which the scanner answers right

ASSUME Pa4s2Assumption ==
    /\ PaBuilds \subseteq {"lib", "direct", "none"}
    /\ PaScanners \subseteq [PaPorts -> SUBSET (0 .. 2)]

Nib == 0        \* PA4S2_MODE_NIB, UNI, EPP
Uni == 1
Epp == 2
ModeMax == 7    \* the largest u_int

VARIABLES
    paBuild, paScanner, \* fixed at first
    paPort,         \* PortRec, claim (who has claimed the port), regs and prelock
    paOptions,      \* sanei_pa4s2_interface_options
    held,           \* ports an application has opened and not closed
    paStatus,       \* of the last call
    unsure,         \* ports that were probed with values that were not read
    stuck           \* ports that could not be closed

paVars == <<paBuild, paScanner, paPort, paOptions, held, paStatus, unsure, stuck>>

NewPort == [in_use |-> FALSE, enabled |-> FALSE, mode |-> Nib, claim |-> "free",
            regs |-> "orig", prelock |-> "orig"]

PaInit ==
    /\ paBuild \in PaBuilds /\ paScanner \in PaScanners
    /\ paPort = [p \in PaPorts |-> NewPort]
    /\ paOptions = [try_uni |-> FALSE, no_epp |-> FALSE]
    /\ held = {} /\ paStatus = "good" /\ unsure = {} /\ stuck = {}

-----------------------------------------------------------------------------
(* One port; a record s is its state.                                      *)

EnableSet_Again(s) ==
    IF ~s.in_use THEN {s}
    ELSE {s, [s EXCEPT !.enabled = TRUE, !.claim = "us", !.prelock = s.regs, !.regs = "ours"]}

\* sanei_pa4s2_enable(fd, TRUE): the port may be claimed by somebody else, or the
\* permission be refused - then it is no longer in use.  The registers are saved and
\* the scanner is addressed (pa4s2_enable).
EnableSet(s) ==
    IF ~s.in_use \/ s.enabled THEN {s}
    ELSE (IF paBuild = "lib" THEN {s} ELSE {[s EXCEPT !.in_use = FALSE]})
         \cup IF s.claim = "other" THEN {}
              ELSE {[s EXCEPT !.enabled = TRUE, !.prelock = s.regs, !.regs = "ours",
                              !.claim = IF paBuild = "lib" THEN "us" ELSE @]}

Disable_KeepsClaim(s) == [s EXCEPT !.regs = s.prelock]

\* pa4s2_disable.
Disable(s) == [s EXCEPT !.regs = s.prelock, !.claim = IF @ = "us" THEN "free" ELSE @]

\* sanei_pa4s2_enable(fd, FALSE)
Disabled(s) == IF s.in_use /\ s.enabled THEN [Disable(s) EXCEPT !.enabled = FALSE] ELSE s

\* pa4s2_close: a port that is disabled here still counts as enabled until it is
\* opened again; it stays in use when it cannot be closed.
CloseSet(s) ==
    LET d == IF s.enabled THEN Disable(s) ELSE s
    IN {d, [d EXCEPT !.in_use = FALSE]}

\* readbegin, readbyte, readend, writebyte: what they need.
Accessible(s) == s.in_use /\ s.enabled /\ s.mode \in {Nib, Uni, Epp}

\* Whether what was read is the ASIC's id: the value of an access that fails was
\* never assigned.
ReadsId(s, p) == IF Accessible(s) THEN {s.mode \in paScanner[p]} ELSE BOOLEAN

\* One round of sanei_pa4s2_open to find the best mode, r.s being the port: a mode is
\* left out, or the id is read in it once more.  r.more says whether the loop goes on,
\* r.sure whether all the values judged had been read.
Round(r, p) ==
    IF r.s.mode > Epp \/ (r.s.mode = Epp /\ paOptions.no_epp) THEN {[r EXCEPT !.more = FALSE]}
    ELSE IF r.s.mode = Uni /\ ~paOptions.try_uni THEN {[r EXCEPT !.s.mode = @ + 1]}
    ELSE UNION {{[s |-> [Disabled(e) EXCEPT !.mode = IF right THEN @ + 1 ELSE @],
                  more |-> right, sure |-> r.sure /\ Accessible(e)]
                   : right \in ReadsId(e, p)} : e \in EnableSet(r.s)}

Less_Signed(mode) == mode - 1

Less(mode) == IF mode = 0 THEN ModeMax ELSE mode - 1

BestMode_Once(m) == Less(m)

\* The mode below the one the loop has ended at; not the one the options leave out.
BestMode(m) == IF Less(m) = Uni /\ ~paOptions.try_uni THEN Less(Less(m)) ELSE Less(m)

\* One more round, unless the loop is over.
Rounds(R, p) == UNION {IF r.more THEN Round(r, p) ELSE {r} : r \in R}

\* The rounds for the modes, and the one that ends the loop.
PaProbed(s, p, sure) ==
    LET first == {[s |-> s, more |-> TRUE, sure |-> sure]}
        last == Rounds(Rounds(Rounds(Rounds(first, p), p), p), p)
    IN {[s |-> [r.s EXCEPT !.mode = BestMode(r.s.mode)], more |-> r.more, sure |-> r.sure] : r \in last}

-----------------------------------------------------------------------------
Becomes(p, s) == paPort' = [paPort EXCEPT ![p] = s]

\* A build without support, a descriptor out of range, or a port that is not open.
PaRefused(p, status) ==
    /\ paBuild = "none" \/ ~paPort[p].in_use
    /\ paStatus' = status
    /\ UNCHANGED <<paBuild, paScanner, paPort, paOptions, held, unsure, stuck>>

\* pa4s2_open fails: no support, no such port, it is in use, or it cannot be opened.
PaOpenFails(p) ==
    /\ paStatus' \in IF paBuild = "none" THEN {"inval", "unsupported"}
                     ELSE IF paPort[p].in_use THEN {"busy"} ELSE {"inval", "access_denied", "io_error"}
    /\ UNCHANGED <<paBuild, paScanner, paPort, paOptions, held, unsure, stuck>>

Opened(p) == [paPort[p] EXCEPT !.in_use = TRUE, !.enabled = FALSE, !.mode = Nib]
CanOpen(p) == paBuild # "none" /\ ~paPort[p].in_use

\* sanei_pa4s2_open: whether the first read has found an ASIC decides, even when the
\* port could not be enabled for it.
PaOpen(p) ==
    /\ CanOpen(p)
    /\ \E e \in EnableSet(Opened(p)) : \E known \in ReadsId(e, p) :
         IF known
         THEN /\ \E r \in PaProbed(Disabled(e), p, Accessible(e)) :
                   Becomes(p, r.s) /\ unsure' = IF r.sure THEN unsure \ {p} ELSE unsure \cup {p}
              /\ paStatus' = "good" /\ held' = held \cup {p}
              /\ UNCHANGED stuck
         ELSE /\ \E s \in IF e.in_use THEN CloseSet(Disabled(e)) ELSE {e} :
                   Becomes(p, s) /\ stuck' = IF s.in_use THEN stuck \cup {p} ELSE stuck
              /\ paStatus' = "inval" /\ UNCHANGED <<held, unsure>>
    /\ UNCHANGED <<paBuild, paScanner, paOptions>>

\* sanei_pa4s2_scsi_pp_open: a scanner that is not ready, or a port that cannot be
\* enabled, leaves the port in use although the call has failed.
PaScsiOpen(p) ==
    /\ CanOpen(p)
    /\ \E e \in EnableSet(Opened(p)) :
         /\ Becomes(p, Disabled(e))
         /\ paStatus' \in IF e.enabled THEN {"good", "busy"} ELSE {"io_error"}
    /\ held' = IF paStatus' = "good" THEN held \cup {p} ELSE held
    /\ unsure' = unsure \cup {p}
    /\ UNCHANGED <<paBuild, paScanner, paOptions, stuck>>

PaClose(p) ==
    /\ p \in held /\ paPort[p].in_use
    /\ \E s \in CloseSet(paPort[p]) :
         Becomes(p, s) /\ stuck' = IF s.in_use THEN stuck \cup {p} ELSE stuck
    /\ held' = held \ {p} /\ paStatus' = "good"
    /\ UNCHANGED <<paBuild, paScanner, paOptions, unsure>>

PaEnable(p, enable) ==
    /\ p \in held /\ paPort[p].in_use
    /\ \E s \in IF enable THEN EnableSet(paPort[p]) ELSE {Disabled(paPort[p])} :
         Becomes(p, s) /\ paStatus' = IF s.enabled = enable THEN "good" ELSE "io_error"
    /\ UNCHANGED <<paBuild, paScanner, paOptions, held, unsure, stuck>>

\* readbegin, readbyte, readend, writebyte; with any mode of the port,
\* scsi_pp_get_status and scsi_pp_reg_select.
PaAccess(p) ==
    /\ p \in held /\ paPort[p].in_use
    /\ paStatus' \in {IF Accessible(paPort[p]) THEN "good" ELSE "inval",
                      IF paPort[p].enabled THEN "good" ELSE "inval"}
    /\ UNCHANGED <<paBuild, paScanner, paPort, paOptions, held, unsure, stuck>>

\* sanei_pa4s2_options: any value is taken.
PaSetOptions ==
    /\ paBuild # "none"
    /\ paOptions' \in [try_uni : BOOLEAN, no_epp : BOOLEAN] /\ paStatus' = "good"
    /\ UNCHANGED <<paBuild, paScanner, paPort, held, unsure, stuck>>

\* Another process, which brings back what it has changed.
OtherClaims(p) ==
    /\ paBuild = "lib" /\ paPort[p].claim = "free"
    /\ Becomes(p, [paPort[p] EXCEPT !.claim = "other", !.regs = "theirs"])
    /\ UNCHANGED <<paBuild, paScanner, paOptions, held, paStatus, unsure, stuck>>

OtherReleases(p) ==
    /\ paPort[p].claim = "other"
    /\ Becomes(p, [paPort[p] EXCEPT !.claim = "free", !.regs = "orig"])
    /\ UNCHANGED <<paBuild, paScanner, paOptions, held, paStatus, unsure, stuck>>

PaNext == \/ \E p \in PaPorts :
               \/ PaOpenFails(p) \/ PaOpen(p) \/ PaScsiOpen(p) \/ PaClose(p) \/ PaAccess(p)
               \/ \E enable \in BOOLEAN : PaEnable(p, enable)
               \/ \E status \in {"inval", "unsupported"} : PaRefused(p, status)
               \/ OtherClaims(p) \/ OtherReleases(p)
          \/ PaSetOptions

PaSpec == PaInit /\ [][PaNext]_paVars

-----------------------------------------------------------------------------
(* Properties *)

\* A port that is accessed in one of the modes.
PortRec(modes) ==
    [in_use : BOOLEAN, enabled : BOOLEAN, mode : modes, claim : {"free", "us", "other"},
     regs : {"orig", "ours", "theirs"}, prelock : {"orig", "ours", "theirs"}]

\* The ports, the mode they are accessed in - a port whose id was never read may end
\* at the largest number, one below the first mode - and the last status.
PaTypeOK ==
    /\ paPort \in [PaPorts -> PortRec({Nib, Uni, Epp, ModeMax})]
    /\ held \subseteq PaPorts /\ unsure \subseteq PaPorts /\ stuck \subseteq PaPorts
    /\ paStatus \in {"good", "inval", "unsupported", "busy", "access_denied", "io_error"}

\* A port is claimed exactly while it is enabled: nobody else uses it between
\* sanei_pa4s2_enable(TRUE) and (FALSE), and a port that is disabled, or was closed while
\* enabled, is free for others - through every failing call, but for a port that could
\* not be closed.
EnabledHoldsClaim ==
    paBuild = "lib" =>
        \A p \in PaPorts \ stuck :
            (paPort[p].claim = "us") <=> (paPort[p].in_use /\ paPort[p].enabled)

\* Whoever comes after finds the registers as they were before the port was enabled,
\* whatever was called in between and however often (the lock of pa4s2_enable is saved
\* once and brought back by pa4s2_disable).
PortRestored ==
    \A p \in PaPorts : paPort[p].regs = "ours" => paPort[p].in_use /\ paPort[p].enabled

\* The modes an application has allowed.
Allowed == {Nib} \cup (IF paOptions.try_uni THEN {Uni} ELSE {}) \cup (IF paOptions.no_epp THEN {} ELSE {Epp})

\* sanei_pa4s2_open ends in a mode the options allow and the scanner answers right in,
\* and the next one it was allowed to try is one that fails - unless it has judged
\* values that were not read.
ModeChosen ==
    [][\A p \in PaPorts :
         p \in held' \ held /\ p \notin unsure' =>
             LET mode == paPort'[p].mode
             IN /\ mode \in Allowed \cap paScanner[p]
                /\ \A m \in Allowed :
                     m > mode => \E k \in Allowed : mode < k /\ k <= m /\ k \notin paScanner[p]]_paVars

\* A port that is enabled is claimed, and the next user finds it as it was.
PaSafe == PaTypeOK /\ EnabledHoldsClaim /\ PortRestored
=============================================================================
