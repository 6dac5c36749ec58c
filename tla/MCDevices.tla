------------------------------ MODULE MCDevices ------------------------------
(***************************************************************************)
(* The ways to a scanner - USB, SCSI, the parallel ports, the LM983x chip  *)
(* - side by side in one run: a behaviour is one of one part, and the      *)
(* variables of the others stay as they began.                             *)
(***************************************************************************)
EXTENDS Devices, TLC

\* Two kinds of scanners: one with two bulk-in endpoints in its first setting, one
\* with the interrupt endpoint in a second interface.
MCEndpoint(t, a) == [type |-> t, addr |-> a]
MCDescriptorsOf ==
    [k \in Kinds |->
       IF k = "k1" THEN << << <<MCEndpoint("bulk_in", 1), MCEndpoint("bulk_out", 2), MCEndpoint("bulk_in", 3)>> >> >>
       ELSE << << <<MCEndpoint("bulk_in", 4)>> >>, << <<MCEndpoint("int_in", 5)>> >> >>]

\* The scanner at one place may be exchanged for one of the other kind.
MCPluggable == {<<"a1", "k1">>, <<"a1", "k2">>, <<"a2", "k1">>}

MCSymmetry == Permutations(Backends)

\* Every port of Pa4s2 with any set of the modes that its scanner answers in.
MCPaScanners == [PaPorts -> SUBSET (0 .. 2)]

\* EPP that only looks like one is seen on ports with the ECP registers.
MCPpHardware ==
    {h \in [spp : BOOLEAN, ecp : BOOLEAN, ps2 : BOOLEAN, epp : {"hw", "sw", "1.7", "phony", "none"}] :
       h.epp = "phony" => h.ecp}

MCNoHardware == [spp |-> FALSE, ecp |-> FALSE, ps2 |-> FALSE, epp |-> "none"]

-----------------------------------------------------------------------------
VARIABLE part

busVars == <<usbVars, queueVars, nameVars>>
portVars == <<paVars, ppVars, pioVars, lmVars>>
mcVars == <<part, busVars, portVars>>

MCInit ==
    /\ part \in {"usb", "queue", "names", "pa4s2", "pp", "pio", "lm983x"}
    /\ UsbInit
    /\ QueueInit /\ (part = "queue" \/ sg = "old")
    /\ IF part = "names" THEN NameInit
       ELSE node = <<>> /\ devfsNodes = {} /\ base = 0 /\ devfs = -1 /\ listed = <<>> /\ attached = {}
    /\ PaInit /\ (part = "pa4s2" \/ (paBuild = "none" /\ \A p \in PaPorts : paScanner[p] = {}))
    /\ PpInit0 /\ (part = "pp" \/ (ppBuild = "none" /\ \A p \in PpPorts : ppHardware[p] = MCNoHardware))
    /\ PioInit /\ (part = "pio" \/ pioPort = CHOOSE p \in PioPorts : TRUE)
    /\ LmInit

BusRest == UNCHANGED <<part, portVars>>
PortRest == UNCHANGED <<part, busVars>>

UsbPart == part = "usb" /\ UsbNext /\ BusRest /\ UNCHANGED <<queueVars, nameVars>>
QueuePart == part = "queue" /\ QueueNext /\ BusRest /\ UNCHANGED <<usbVars, nameVars>>
NamesPart == part = "names" /\ NameNext /\ BusRest /\ UNCHANGED <<usbVars, queueVars>>
Pa4s2Part == part = "pa4s2" /\ PaNext /\ PortRest /\ UNCHANGED <<ppVars, pioVars, lmVars>>
PpPart == part = "pp" /\ PpNext /\ PortRest /\ UNCHANGED <<paVars, pioVars, lmVars>>
PioPart == part = "pio" /\ PioNext /\ PortRest /\ UNCHANGED <<paVars, ppVars, lmVars>>
LmPart == part = "lm983x" /\ LmNext /\ PortRest /\ UNCHANGED <<paVars, ppVars, pioVars>>

MCNext == UsbPart \/ QueuePart \/ NamesPart \/ Pa4s2Part \/ PpPart \/ PioPart \/ LmPart

MCSpec == MCInit /\ [][MCNext]_mcVars
=============================================================================
