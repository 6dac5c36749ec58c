-------------------------------- MODULE Devices --------------------------------
(***************************************************************************)
(* The ways to a scanner: USB, SCSI, the parallel ports by the three files *)
(* that drive them, and the LM983x chip.  They do not call each other; the *)
(* driver of a device uses one of them.                                    *)
(***************************************************************************)
EXTENDS SaneiUsb, Scsi, Pa4s2, Pp, Pio, Lm983x

\* What the three files say of a parallel port: one of sanei_pa4s2.c is claimed while it
\* is enabled, unless closing it failed, and restored when it is disabled; one of
\* sanei_pp.c has its claim marked, its control registers back where the build can read
\* them (iopl) and no mode offered that it does not have (EPP with ioperm excepted); one
\* of sanei_pio.c has one user and loses no strobe.
PortsSafe == PaSafe /\ PpSafe /\ PioSafe

\* What one call may not do: take a USB slot whose device was just seen, leave
\* sanei_pa4s2_open in a mode the scanner does not answer in, say that the chip was
\* reset when the bit never was set.
DeviceSteps == SeenSlotsStay /\ ModeChosen /\ ResetHasBeen
=============================================================================
