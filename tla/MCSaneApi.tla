------------------------------ MODULE MCSaneApi ------------------------------
(***************************************************************************)
(* SaneApi for TLC: device names, and what the constructor makes of them.  *)
(***************************************************************************)
EXTENDS SaneApi, TLC

MCRealNames == {"usb:1", "net:1"}
MCNames == {"usb.1", "net.1", Empty}
MCSaneName == [r \in MCRealNames |-> IF r = "usb:1" THEN "usb.1" ELSE "net.1"]

\* The objects behind the devices are only compared.
ImplSymmetry == Permutations(Impls)
=============================================================================
