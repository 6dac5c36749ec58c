--------------------------------- MODULE Pio ---------------------------------
(***************************************************************************)
(* The simple parallel port (sanei/sanei_pio.c): two ports that one user   *)
(* each may open, and bytes handed over with the strobe, busy and          *)
(* acknowledge lines.  A line that does not come within ten seconds ends   *)
(* the process.  The peripheral is external: it takes or offers a byte at  *)
(* each strobe that it is ready for, is busy, and shows that it is ready   *)
(* again in the direction that the host has chosen.                        *)
(***************************************************************************)
EXTENDS Naturals, Sequences

CONSTANTS
    PioPorts,       \* the table: the ports at 0x378 and 0x278
    PioUsers,       \* backends of the process
    PioBytes,       \* data
    PioLen          \* bound: bytes of a call

ASSUME PioAssumption == PioBytes # {}

VARIABLES
    privileged,     \* pio_open's first_time: "unknown", "root" or "refused"
    inUse,          \* port[n].in_use
    holds,          \* the <<user, port>> of the descriptors given out
    pioStep,        \* where the process is: "idle", a step of a call or "exited"
    pioPort,        \* the port of the call
    ctrl,           \* lines that its control register raises
    shown,          \* lines that the peripheral shows in the status register
    onPort,         \* the data register
    want,           \* write: the bytes to go; read: how many
    buf,            \* bytes handed over so far, as the host counts them
    taken           \* bytes handed over, as the peripheral counts them

pioVars == <<privileged, inUse, holds, pioStep, pioPort, ctrl, shown, onPort, want, buf, taken>>
wires == <<ctrl, shown, onPort>>

Ready == {"BUSY", "NACKNLG"}        \* both bits set: ready to take a byte
Offers == {"BUSY"}                  \* only BUSY set: a byte to be had
AnyByte == CHOOSE b \in PioBytes : TRUE

PioInit ==
    /\ privileged = "unknown" /\ inUse = [p \in PioPorts |-> FALSE] /\ holds = {}
    /\ pioStep = "idle" /\ pioPort \in PioPorts /\ want = <<>> /\ buf = <<>> /\ taken = <<>>
    /\ ctrl = {} /\ shown = Ready /\ onPort = AnyByte

-----------------------------------------------------------------------------
(* Descriptors.                                                            *)

\* The first call asks for root's rights and fails without; no later one asks.
FirstTime ==
    /\ pioStep = "idle" /\ privileged = "unknown"
    /\ privileged' \in {"root", "refused"}
    /\ UNCHANGED <<inUse, holds, pioStep, pioPort, wires, want, buf, taken>>

PioOpen_AnyPort(u, p) ==
    /\ pioStep = "idle" /\ privileged # "unknown"
    /\ inUse' = [inUse EXCEPT ![p] = TRUE]
    /\ \/ holds' = holds \cup {<<u, p>>} /\ ctrl' = {"IE"}
       \/ UNCHANGED <<holds, ctrl>>
    /\ UNCHANGED <<privileged, pioStep, pioPort, shown, onPort, want, buf, taken>>

\* The port is marked before ioperm is asked for it, and stays so when that fails.
PioOpen(u, p) ==
    /\ pioStep = "idle" /\ privileged # "unknown" /\ ~inUse[p]
    /\ inUse' = [inUse EXCEPT ![p] = TRUE]
    /\ \/ holds' = holds \cup {<<u, p>>} /\ ctrl' = {"IE"}     \* pio_reset
       \/ UNCHANGED <<holds, ctrl>>
    /\ UNCHANGED <<privileged, pioStep, pioPort, shown, onPort, want, buf, taken>>

PioClose(u, p) ==
    /\ pioStep = "idle" /\ <<u, p>> \in holds /\ inUse[p]
    /\ inUse' = [inUse EXCEPT ![p] = FALSE] /\ holds' = holds \ {<<u, p>>}
    /\ UNCHANGED <<privileged, pioStep, pioPort, wires, want, buf, taken>>

PioCall(u, p) ==
    /\ pioStep = "idle" /\ <<u, p>> \in holds /\ inUse[p]
    /\ pioPort' = p /\ buf' = <<>> /\ taken' = <<>>
    /\ pioStep' \in {"write", "read"}
    /\ \E n \in 0 .. PioLen : want' \in [1 .. n -> PioBytes]
    /\ UNCHANGED <<privileged, inUse, holds, wires>>

-----------------------------------------------------------------------------
(* pio_write and pio_read.                                                 *)

\* pio_wait has seen the lines that step s waits for: pioStep moves on.
Waited(s, lines, next) ==
    /\ pioStep = s /\ pioStep' = next
    /\ IF lines = Offers THEN shown = Offers ELSE lines \subseteq shown

Keeps == UNCHANGED <<privileged, inUse, holds, pioPort, want>>

WriteBegins ==
    \/ Waited("write", {"BUSY"}, "ack") /\ ctrl' = {"DIR", "IE"} /\ Keeps /\ UNCHANGED <<shown, onPort, buf, taken>>
    \/ Waited("ack", {"NACKNLG"}, "out") /\ ctrl' = {"DIR"} /\ Keeps /\ UNCHANGED <<shown, onPort, buf, taken>>

\* The byte and the strobe; a peripheral that is ready takes it and is busy.
OutByte ==
    /\ Waited("out", Ready, "pulse") /\ Len(buf) < Len(want)
    /\ onPort' = want[Len(buf) + 1] /\ ctrl' = {"DIR", "NSTROBE"}
    /\ taken' = IF shown = Ready THEN Append(taken, onPort') ELSE taken
    /\ shown' = {} /\ Keeps /\ UNCHANGED buf

OutPulse ==
    /\ pioStep = "pulse" /\ pioStep' = "out" /\ ctrl' = {"DIR"}
    /\ buf' = Append(buf, want[Len(buf) + 1])
    /\ Keeps /\ UNCHANGED <<shown, onPort, taken>>

WriteEnds ==
    /\ Waited("out", Ready, "idle") /\ Len(buf) = Len(want) /\ ctrl' = {"DIR", "IE"}
    /\ Keeps /\ UNCHANGED <<shown, onPort, buf, taken>>

ReadBegins ==
    /\ Waited("read", {"BUSY"}, "in") /\ ctrl' = {"IE"}
    /\ Keeps /\ UNCHANGED <<shown, onPort, buf, taken>>

\* Asks for a byte; a peripheral that has one is busy until it stands there.
AskByte ==
    /\ Waited("in", Offers, "asked") /\ Len(buf) < Len(want) /\ ctrl' = {"IE", "NSTROBE"}
    /\ shown' = {} /\ Keeps /\ UNCHANGED <<onPort, buf, taken>>

AskPulse ==
    /\ pioStep = "asked" /\ pioStep' = "get" /\ ctrl' = {"IE"}
    /\ Keeps /\ UNCHANGED <<shown, onPort, buf, taken>>

GetByte_NoWait ==
    /\ pioStep = "get" /\ pioStep' = "in" /\ buf' = Append(buf, onPort)
    /\ Keeps /\ UNCHANGED <<ctrl, shown, onPort, taken>>

GetByte ==
    /\ Waited("get", Offers, "in") /\ buf' = Append(buf, onPort)
    /\ Keeps /\ UNCHANGED <<ctrl, shown, onPort, taken>>

ReadEnds ==
    /\ Waited("in", {"BUSY"}, "idle") /\ Len(buf) = Len(want) /\ ctrl' = {"IE"}
    /\ Keeps /\ UNCHANGED <<shown, onPort, buf, taken>>

\* pio_wait has had enough: exit(-1), from the middle of whatever it was.
PioTimeOut ==
    /\ pioStep \in {"write", "ack", "out", "read", "in", "get"} /\ shown = {}
    /\ pioStep' = "exited"
    /\ UNCHANGED <<privileged, inUse, holds, pioPort, wires, want, buf, taken>>

\* The peripheral is done with the last strobe, or follows a change of direction.
PeripheralReady ==
    /\ pioStep \notin {"idle", "exited"}
    /\ IF "DIR" \in ctrl THEN shown' = Ready /\ UNCHANGED <<onPort, taken>>
       ELSE /\ shown' = Offers
            /\ IF shown = {} THEN \E b \in PioBytes : onPort' = b /\ taken' = Append(taken, b)
               ELSE UNCHANGED <<onPort, taken>>
    /\ shown' # shown
    /\ UNCHANGED <<privileged, inUse, holds, pioStep, pioPort, ctrl, want, buf>>

-----------------------------------------------------------------------------
PioNext ==
    \/ FirstTime \/ \E u \in PioUsers, p \in PioPorts : PioOpen(u, p) \/ PioClose(u, p) \/ PioCall(u, p)
    \/ WriteBegins \/ OutByte \/ OutPulse \/ WriteEnds
    \/ ReadBegins \/ AskByte \/ AskPulse \/ GetByte \/ ReadEnds
    \/ PioTimeOut \/ PeripheralReady

PioSpec == PioInit /\ [][PioNext]_pioVars

-----------------------------------------------------------------------------
(* Properties.                                                             *)

\* A port has one user, whatever opens failed or were refused on the way: two
\* would mix their strobes on one set of lines (pio_open, 455-472).
OneUserEach ==
    \A u, v \in PioUsers, p \in PioPorts : <<u, p>> \in holds /\ <<v, p>> \in holds => u = v /\ inUse[p]

\* No strobe is lost and none is counted twice: between two bytes the host and
\* the peripheral agree on what has been handed over, in either direction
\* (pio_write 301-353, pio_read 355-397).
BytesHandedOver == pioStep \in {"out", "in", "idle"} => buf = taken

\* A port of sanei_pio.c has one user, and each byte is handed over once.
PioSafe == OneUserEach /\ BytesHandedOver
=============================================================================
