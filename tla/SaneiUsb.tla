------------------------------ MODULE SaneiUsb --------------------------------
(***************************************************************************)
(* The table of USB devices of sanei_usb.c: sanei_usb_init looks for       *)
(* devices and fills it, sanei_usb_open takes a slot of it by name, and    *)
(* every other call names the slot by its index dn.  Two builds are        *)
(* modelled, with libusb 0.1 and with libusb 1.0, and besides the          *)
(* devices of the kernel's scanner driver; OS/2's usbcalls are left out.   *)
(*                                                                         *)
(* The world around it: devices are plugged in and out, a probe or a call  *)
(* of the library fails, an endpoint stalls until it is told to clear its  *)
(* halt.                                                                   *)
(***************************************************************************)
EXTENDS Naturals, Sequences, SequencesExt, FiniteSetsExt

CONSTANTS
    Addrs,          \* names a device can have: its place on the bus, or in /dev
    KernelAddrs,    \* those of the kernel's scanner driver
    Kinds,          \* vendor and product ids
    Pluggable,      \* <<address, kind>>: what can be plugged in where
    EpTypes,        \* direction and type of an endpoint
    Descriptors,    \* per kind: its configurations, each a sequence of interfaces,
                    \* each a sequence of endpoints [type, addr]
    Backends,       \* who calls
    MaxDevices,     \* MAX_DEVICES
    SetTypes,       \* bound: the types of endpoint that backends set themselves
    MaxHalted       \* bound: endpoints that are halted at a time

ASSUME SaneiUsbAssumption ==
    /\ "gone" \notin Kinds /\ IsFiniteSet(Addrs) /\ Pluggable \subseteq Addrs \X Kinds /\ KernelAddrs \subseteq Addrs /\ SetTypes \subseteq EpTypes /\ MaxDevices \in Nat \ {0} /\ MaxHalted \in Nat
    /\ \A k \in Kinds : Len(Descriptors[k]) > 0

Gone == "gone"      \* no device at a place
NoDn == [dn |-> 0, name |-> "none", id |-> "none"]

VARIABLES
    bus,            \* what is plugged in where
    devices,        \* the table
    user,           \* per backend: the dn it has, and what it opened
    robbed,         \* backends whose slot was taken or closed behind their back
    claimed,        \* slots whose interface is claimed
    halted,         \* <<dn, type>>: the endpoint is halted
    failed          \* <<dn, type>>: a transfer failed and left the endpoint halted

usbVars == <<bus, devices, user, robbed, claimed, halted, failed>>

UsbInit ==
    /\ bus = [a \in Addrs |-> Gone] /\ devices = <<>>
    /\ user = [b \in Backends |-> NoDn] /\ robbed = {}
    /\ claimed = {} /\ halted = {} /\ failed = {}

Dns == DOMAIN devices

NoEndpoints == [t \in EpTypes |-> 0]

SetAddr == 99

\* A slot as store_device leaves a new one; missing counts to 2, nothing tells
\* more apart.  live: the handle of the library is open.
Slot(a, k) == [devname |-> a, id |-> k, missing |-> 0, open |-> FALSE,
               live |-> FALSE, ep |-> NoEndpoints]

-----------------------------------------------------------------------------
(* The world.                                                              *)

Plug(a, k) == /\ <<a, k>> \in Pluggable /\ bus[a] = Gone /\ bus' = [bus EXCEPT ![a] = k]
              /\ UNCHANGED <<devices, user, robbed, claimed, halted, failed>>

Unplug(a) == /\ bus[a] # Gone /\ bus' = [bus EXCEPT ![a] = Gone]
             /\ UNCHANGED <<devices, user, robbed, claimed, halted, failed>>

\* An endpoint that a backend uses stalls; of the kernel's devices nothing is seen of that.
Stall(dn, t) ==
    /\ dn \in Dns /\ devices[dn].open /\ devices[dn].devname \notin KernelAddrs
    /\ devices[dn].ep[t] # 0 /\ Cardinality(halted) < MaxHalted
    /\ halted' = halted \cup {<<dn, t>>} /\ failed' = failed \ {<<dn, t>>}
    /\ UNCHANGED <<bus, devices, user, robbed, claimed>>

-----------------------------------------------------------------------------
(* sanei_usb_init.                                                         *)

Marked_Never == devices

Marked == [d \in Dns |-> [devices[d] EXCEPT !.missing = IF @ < 2 THEN @ + 1 ELSE @]]

StoreDevice_Eager(table, a) ==
    LET same == {d \in DOMAIN table : table[d].devname = a /\ table[d].id = bus[a]}
        old == {d \in DOMAIN table : table[d].missing >= 1}
    IN IF same # {} THEN [table EXCEPT ![Min(same)].missing = 0]
       ELSE IF old # {} THEN [table EXCEPT ![Max(old)] = Slot(a, bus[a])]
       ELSE IF Len(table) >= MaxDevices THEN table
       ELSE Append(table, Slot(a, bus[a]))

StoreDevice_Twice(table, a) ==
    IF Len(table) >= MaxDevices THEN table ELSE Append(table, Slot(a, bus[a]))

\* store_device: the slot of the same device, or the last one whose device was
\* missing in two scans, or a new one while there is room.
StoreDevice(table, a) ==
    LET same == {d \in DOMAIN table : table[d].devname = a /\ table[d].id = bus[a]}
        old == {d \in DOMAIN table : table[d].missing >= 2}
    IN IF same # {} THEN [table EXCEPT ![Min(same)].missing = 0]
       ELSE IF old # {} THEN [table EXCEPT ![Max(old)] = Slot(a, bus[a])]
       ELSE IF Len(table) >= MaxDevices THEN table
       ELSE Append(table, Slot(a, bus[a]))

\* The table after each device that a scan stores, in the order it finds them.
Scanned(order) ==
    LET table[i \in 0 .. Len(order)] == IF i = 0 THEN Marked ELSE StoreDevice(table[i - 1], order[i])
    IN table[Len(order)]

\* The entries of /dev that open.
KernelFound == {a \in KernelAddrs : bus[a] # Gone}

\* The devices of the busses: those that are configured and have an interface
\* of a suitable class.  libusb 1.0 has to open each of them for that, and the probe
\* of one may fail; libusb 0.1 reads descriptors only and finds them all.
LibusbFound == {a \in Addrs \ KernelAddrs : bus[a] # Gone}

\* All slots are marked, then what is found is stored, kernel devices first; a
\* strdup that fails ends the scan where it is.
SaneiUsbInit ==
    /\ \E lib \in SUBSET LibusbFound :
         \E ks \in SetToSeqs(KernelFound), ls \in SetToSeqs(lib) :
           \E n \in 0 .. Len(ks \o ls) :
             devices' = Scanned(SubSeq(ks \o ls, 1, n))
    /\ LET taken == {d \in Dns : devices[d].open /\ ~devices'[d].open} IN
         /\ halted' = {x \in halted : x[1] \notin taken}
         /\ failed' = {x \in failed : x[1] \notin taken}
         /\ claimed' = claimed \ taken
         /\ robbed' = robbed \cup {b \in Backends : user[b].dn \in taken}
    /\ UNCHANGED <<bus, user>>

-----------------------------------------------------------------------------
(* sanei_usb_open and sanei_usb_close.                                     *)

\* The first slot with that name whose device is there.
Lookup(a) == {d \in Dns : /\ devices[d].devname = a /\ devices[d].missing = 0
                          /\ \A e \in 1 .. d - 1 : devices[e].devname = a => devices[e].missing # 0}

IsLibusb(d) == devices[d].devname \notin KernelAddrs

\* The endpoints of a kind in the order of the loops over its configurations,
\* interfaces and endpoints; of the first configuration only the interface that
\* sanei_usb_init found, here always the first.
EndpointSeq ==
    [k \in Kinds |->
       FlattenSeq([c \in DOMAIN Descriptors[k] |->
                    IF c = 1 THEN Descriptors[k][1][1] ELSE FlattenSeq(Descriptors[k][c])])]

FoundEndpoints_Last(ep, k) ==
    [t \in EpTypes |->
       LET of == {i \in DOMAIN EndpointSeq[k] : EndpointSeq[k][i].type = t} IN
       IF of = {} THEN ep[t] ELSE EndpointSeq[k][Max(of)].addr]

\* An endpoint has one type and an address.
ASSUME EndpointAssumption ==
    \A k \in Kinds : EndpointSeq[k] \in Seq([type : EpTypes, addr : Nat])

\* The first endpoint of each type; one that is known, of an earlier open, is kept.
FoundEndpoints(ep, k) ==
    [t \in EpTypes |->
       LET of == {i \in DOMAIN EndpointSeq[k] : EndpointSeq[k][i].type = t} IN
       IF ep[t] # 0 \/ of = {} THEN ep[t] ELSE EndpointSeq[k][Min(of)].addr]

\* An open that fails closes the handle again or keeps it open: libusb 0.1 when
\* the device has no configuration (1287-1291), libusb 1.0 in four early returns
\* (1515-1546).
OpenFails(b, a) ==
    /\ user[b] = NoDn
    /\ \E d \in Lookup(a) :
         /\ ~devices[d].open
         /\ \E live \in BOOLEAN :
              /\ live => IsLibusb(d)
              /\ devices' = [devices EXCEPT ![d].live = live]
    /\ UNCHANGED <<bus, user, robbed, claimed, halted, failed>>

SaneiUsbOpen_Twice(b, a) ==
    /\ user[b] = NoDn
    /\ \E d \in Lookup(a) :
         /\ bus[a] = devices[d].id
         /\ devices' = [devices EXCEPT ![d].open = TRUE, ![d].live = TRUE,
                          ![d].ep = IF IsLibusb(d) THEN FoundEndpoints(@, devices[d].id) ELSE @]
         /\ user' = [user EXCEPT ![b] = [dn |-> d, name |-> a, id |-> devices[d].id]]
         /\ claimed' = IF IsLibusb(d) THEN claimed \cup {d} ELSE claimed
    /\ UNCHANGED <<bus, robbed, halted, failed>>

\* The handle, the configuration, the claim, the endpoints.
SaneiUsbOpen(b, a) ==
    /\ user[b] = NoDn
    /\ \E d \in Lookup(a) :
         /\ ~devices[d].open /\ bus[a] = devices[d].id
         /\ devices' = [devices EXCEPT ![d].open = TRUE, ![d].live = TRUE,
                          ![d].ep = IF IsLibusb(d) THEN FoundEndpoints(@, devices[d].id) ELSE @]
         /\ user' = [user EXCEPT ![b] = [dn |-> d, name |-> a, id |-> devices[d].id]]
         /\ claimed' = IF IsLibusb(d) THEN claimed \cup {d} ELSE claimed
    /\ UNCHANGED <<bus, robbed, halted, failed>>

SaneiUsbClose_KeepsClaim(b) ==
    /\ user[b] # NoDn
    /\ LET d == user[b].dn IN
         /\ devices' = [devices EXCEPT ![d].open = FALSE, ![d].live = FALSE]
         /\ halted' = {x \in halted : x[1] # d} /\ failed' = {x \in failed : x[1] # d}
    /\ user' = [user EXCEPT ![b] = NoDn]
    /\ UNCHANGED <<bus, robbed, claimed>>

\* sanei_usb_close(dn): nothing for a slot that is not open (any more).
SaneiUsbClose(b) ==
    /\ user[b] # NoDn
    /\ LET d == user[b].dn IN
         IF devices[d].open
         THEN /\ devices' = [devices EXCEPT ![d].open = FALSE, ![d].live = FALSE]
              /\ claimed' = claimed \ {d}
              /\ halted' = {x \in halted : x[1] # d} /\ failed' = {x \in failed : x[1] # d}
         ELSE UNCHANGED <<devices, claimed, halted, failed>>
    /\ user' = [user EXCEPT ![b] = NoDn]
    /\ robbed' = (robbed \cup {c \in Backends : user[c].dn = user[b].dn}) \ {b}
    /\ UNCHANGED <<bus>>

-----------------------------------------------------------------------------
(* Transfers.  Only the range of dn is checked, not that the slot is open. *)

Mine(b) == user[b] # NoDn /\ devices[user[b].dn].open

HasEndpoint(b, t) == t \in EpTypes /\ devices[user[b].dn].ep[t] # 0

\* The transfer fails; clear says whether the halt is cleared then.
FailTransfer(d, t, clear) ==
    /\ failed' = IF <<d, t>> \in halted /\ ~clear THEN failed \cup {<<d, t>>} ELSE failed
    /\ halted' = IF clear THEN halted \ {<<d, t>>} ELSE halted
    /\ UNCHANGED <<bus, devices, user, robbed, claimed>>

\* read_bulk: any error clears the halt.
ReadBulk(b) ==
    /\ Mine(b) /\ IsLibusb(user[b].dn) /\ HasEndpoint(b, "bulk_in")
    /\ FailTransfer(user[b].dn, "bulk_in", TRUE)

WriteBulk_NoClear(b) ==
    /\ Mine(b) /\ IsLibusb(user[b].dn) /\ HasEndpoint(b, "bulk_out")
    /\ FailTransfer(user[b].dn, "bulk_out", FALSE)

\* write_bulk
WriteBulk(b) ==
    /\ Mine(b) /\ IsLibusb(user[b].dn) /\ HasEndpoint(b, "bulk_out")
    /\ FailTransfer(user[b].dn, "bulk_out", TRUE)

\* read_int: only the error that reports a stall does; a timeout does not.
ReadInt(b) ==
    /\ Mine(b) /\ IsLibusb(user[b].dn) /\ HasEndpoint(b, "int_in")
    /\ FailTransfer(user[b].dn, "int_in", <<user[b].dn, "int_in">> \in halted)

\* sanei_usb_clear_halt: in, then out; the second is not tried when the first fails.
ClearHalt(b) ==
    /\ Mine(b) /\ IsLibusb(user[b].dn)
    /\ \E ts \in {{}, {"bulk_in"}, {"bulk_in", "bulk_out"}} :
         halted' = {x \in halted : x[1] # user[b].dn \/ x[2] \notin ts}
    /\ UNCHANGED <<bus, devices, user, robbed, claimed, failed>>

\* sanei_usb_set_endpoint: any address the backend likes, here one no device has.
SetEndpoint(b, t) ==
    /\ Mine(b)
    /\ devices' = [devices EXCEPT ![user[b].dn].ep[t] = SetAddr]
    /\ UNCHANGED <<bus, user, robbed, claimed, halted, failed>>

\* sanei_usb_claim_interface
ClaimInterface(b) ==
    /\ Mine(b) /\ IsLibusb(user[b].dn)
    /\ claimed' \in {claimed, claimed \cup {user[b].dn}}
    /\ UNCHANGED <<bus, devices, user, robbed, halted, failed>>

\* sanei_usb_release_interface
ReleaseInterface(b) ==
    /\ Mine(b) /\ IsLibusb(user[b].dn)
    /\ claimed' \in {claimed, claimed \ {user[b].dn}}
    /\ UNCHANGED <<bus, devices, user, robbed, halted, failed>>

\* sanei_usb_set_configuration: the device drops its halts.
SetConfiguration(b) ==
    /\ Mine(b) /\ IsLibusb(user[b].dn)
    /\ halted' = {x \in halted : x[1] # user[b].dn}
    /\ UNCHANGED <<bus, devices, user, robbed, claimed, failed>>

\* sanei_usb_set_altinterface: so does the interface, which has to be claimed.
SetAltinterface(b) ==
    /\ Mine(b) /\ IsLibusb(user[b].dn) /\ user[b].dn \in claimed
    /\ halted' = {x \in halted : x[1] # user[b].dn}
    /\ UNCHANGED <<bus, devices, user, robbed, claimed, failed>>

-----------------------------------------------------------------------------
(* What is told about the devices.                                         *)

\* sanei_usb_find_devices: the slots it hands to attach for a kind.
FindDevices(k) == {d \in Dns : devices[d].id = k /\ devices[d].missing = 0}

\* sanei_usb_attach_matching_devices: the names that attach gets for a line of a
\* configuration file, "usb" with a kind or the name of a device.
AttachMatching(line) ==
    IF line \in Kinds THEN {devices[d].devname : d \in FindDevices(line)} ELSE {line}

ByName_WithMissing(a) ==
    {devices[d].id : d \in {e \in Dns : /\ devices[e].devname = a
                                       /\ \A f \in 1 .. e - 1 : devices[f].devname # a}}

\* sanei_usb_get_vendor_product_byname: the kind of the first slot with the name
\* whose device is there; none when there is no such slot.
VendorProductByname(a) == {devices[d].id : d \in Lookup(a)}

\* sanei_usb_get_vendor_product: libusb 0.1 asks the device behind the handle, which
\* is the one of the slot, libusb 1.0 takes what the scan has stored.  No state of the
\* slot is looked at but its index.
VendorProduct(dn) == devices[dn].id

-----------------------------------------------------------------------------
UsbNext ==
    \/ \E a \in Addrs : Unplug(a) \/ \E k \in Kinds : Plug(a, k)
    \/ \E d \in 1 .. MaxDevices, t \in EpTypes : Stall(d, t)
    \/ SaneiUsbInit
    \/ \E b \in Backends :
         \/ \E a \in Addrs : OpenFails(b, a) \/ SaneiUsbOpen(b, a)
         \/ SaneiUsbClose(b) \/ ReadBulk(b) \/ WriteBulk(b) \/ ReadInt(b) \/ ClearHalt(b)
         \/ \E t \in SetTypes : SetEndpoint(b, t)
         \/ ClaimInterface(b) \/ ReleaseInterface(b)
         \/ SetConfiguration(b) \/ SetAltinterface(b)

UsbSpec == UsbInit /\ [][UsbNext]_usbVars

-----------------------------------------------------------------------------
(* Properties.                                                             *)

\* No device has two slots: the name finds the slot that is open, and a second
\* open of it is refused (store_device, 326-372).
OneSlotEach ==
    \A d, e \in Dns :
      devices[d].devname = devices[e].devname /\ devices[d].id = devices[e].id => d = e

\* The slot that a backend has open is open, alive, the device it opened and its
\* own - unless it was robbed of it: the device was missing from two scans and
\* its slot went to another one (351-371), or one that was robbed so has closed
\* the slot of the next owner (1992-2032).
SlotIsMine ==
    \A b \in Backends \ robbed :
      user[b] # NoDn =>
        LET s == devices[user[b].dn] IN
        /\ s.open /\ s.live
        /\ s.devname = user[b].name /\ s.id = user[b].id
        /\ \A c \in Backends \ robbed : user[c].dn = user[b].dn => b = c

\* The three ways to a device agree on its kind: what is attached for a kind is, by
\* its name, of that kind, whatever was plugged there before, and a backend that was
\* not robbed is told the kind it opened (943-1106, 1179-1217).
KindsAgree ==
    /\ \A k \in Kinds : \A a \in AttachMatching(k) : VendorProductByname(a) = {k}
    /\ \A b \in Backends \ robbed :
         user[b] # NoDn =>
           /\ VendorProduct(user[b].dn) = user[b].id
           /\ devices[user[b].dn].missing = 0 => VendorProductByname(user[b].name) = {user[b].id}

\* The endpoints of a slot are the first of their type of the device in it, not
\* of the one that had the slot before, unless the backend set others.
EndpointsOfDevice ==
    \A d \in Dns, t \in EpTypes :
      LET s == EndpointSeq[devices[d].id] IN
      \/ devices[d].ep[t] \in {0, SetAddr}
      \/ \E i \in DOMAIN s : /\ s[i] = [type |-> t, addr |-> devices[d].ep[t]]
                            /\ \A j \in 1 .. i - 1 : s[j].type # t

\* A scan does not take a slot whose device was seen in the scan before, open or
\* not: two scans in a row have to miss it (351).
SeenSlotsStay ==
    [][\A d \in Dns : devices[d].missing = 0 =>
         /\ devices'[d].devname = devices[d].devname /\ devices'[d].id = devices[d].id]_usbVars

\* An interface is claimed only in an open slot: closing gives it back, and so
\* does every open that fails (1287-1300, 2019-2027).
ClaimedIsOpen == \A d \in claimed : devices[d].open

\* An endpoint on which a transfer has failed is not halted any more: the next
\* transfer is not lost to the same stall (2250-2261, 2404-2415, 2676-2689).
NotHaltedTwice == failed \cap halted = {}

\* The table of USB devices through plugging, scans, opens, closes and stalls: one
\* slot for a device, a slot for its owner only, with the endpoints of its device.
UsbSafe ==
    /\ OneSlotEach /\ SlotIsMine /\ KindsAgree
    /\ EndpointsOfDevice /\ ClaimedIsOpen /\ NotHaltedTwice
=============================================================================
