------------------------------- MODULE SaneApi -------------------------------
(***************************************************************************)
(* The life of the devices behind the SANE entry points: sane_init and     *)
(* sane_exit (backend/odc.cpp), the list of SaneDevice objects that the    *)
(* handles point to (backend/odc_device.cpp) and the DeviceBaseImpl that   *)
(* each opened one owns.                                                   *)
(*                                                                         *)
(* Objects are told apart by their addresses, which the heap hands out     *)
(* again after a delete.  A call that goes through a NULL pointer ends the *)
(* process.                                                                *)
(***************************************************************************)
EXTENDS Naturals, Sequences

CONSTANTS
    RealNames,      \* device names as the daemon lists them
    Names,          \* device names as the frontend sees them
    Empty,          \* the name ""
    SaneName,       \* what the constructor makes of a real name (':' to '.')
    MaxDevices,     \* bound: devices in one list
    Addresses,      \* heap addresses of SaneDevice objects
    Impls,          \* heap addresses of DeviceBaseImpl objects
    NULL

ASSUME SaneApiAssumption ==
    /\ MaxDevices \in Nat
    /\ Empty \in Names
    /\ SaneName \in [RealNames -> Names]
    /\ NULL \notin Impls /\ NULL \notin Addresses

VARIABLES
    inited,
    devlist,        \* SaneDevice::devlist
    heap,           \* addresses of the live SaneDevice objects
    obj,            \* their fields, by address
    impls,          \* addresses of the live DeviceBaseImpl objects
    handles,        \* handles that the frontend got and has not closed
    crashed,        \* the process went through a NULL pointer
    took            \* the liberties the frontend took so far: to "reopen" a
                    \* device that is open, to "reinit" without sane_exit, to
                    \* use a "stale" handle

vars == <<inited, devlist, heap, obj, impls, handles, crashed, took>>

Liberties == {"reopen", "reinit", "stale"}

Device == [name : Names, opened : BOOLEAN, device_ptr : Impls \cup {NULL}]

\* The constructor: nothing is open yet.
NewDevice(name) == [name |-> name, opened |-> FALSE, device_ptr |-> NULL]

Listed == {devlist[i] : i \in 1 .. Len(devlist)}

Injective(f) == \A x, y \in DOMAIN f : f[x] = f[y] => x = y

Init ==
    /\ inited = FALSE
    /\ devlist = <<>> /\ heap = {}
    /\ obj = [a \in Addresses |-> NewDevice(Empty)]
    /\ impls = {} /\ handles = {}
    /\ crashed = FALSE /\ took = {}

\* A call that is a liberty when C holds.
Takes(liberty, C) == took' = IF C THEN took \cup {liberty} ELSE took

-----------------------------------------------------------------------------
(* sane_init, sane_exit                                                    *)

\* The names that the constructor may leave in s_name.  Its copy loop starts
\* at a counter that nothing initialises; when it starts past the end, s_name
\* keeps what the memory held: nothing, in a fresh object.
NamesFor(real) == {SaneName[real], Empty}

\* initDeviceList when the daemon lists n devices, each once; an answer that
\* does not arrive leaves the list empty as well (n = 0).
FillDeviceList(n) ==
    \E at \in [1 .. n -> Addresses \ heap] :
      LET new == {at[i] : i \in 1 .. n} IN
      \E real \in [new -> RealNames], shown \in [new -> Names] :
        /\ Injective(at) /\ Injective(real)
        /\ \A a \in new : shown[a] \in NamesFor(real[a])
        /\ devlist' = at
        /\ heap' = heap \cup new
        /\ obj' = [a \in Addresses |-> IF a \in new THEN NewDevice(shown[a]) ELSE obj[a]]

\* initDeviceList forgets the old list before it asks the daemon for the new
\* one; when it fails sane_init returns before it touches inited.
SaneInit ==
    /\ \/ inited' = TRUE /\ \E n \in 0 .. MaxDevices : FillDeviceList(n)
       \/ devlist' = <<>> /\ UNCHANGED <<inited, heap, obj>>
    /\ Takes("reinit", inited)
    /\ UNCHANGED <<impls, handles, crashed>>

\* PointerList::clean deletes every device; its destructor closes what is
\* still open, through device_ptr.
Opened == {a \in Listed : obj[a].opened}

\* Mutation of SaneExit: the destructor does not close.
SaneExit_LeavesOpen ==
    /\ inited' = FALSE
    /\ devlist' = <<>> /\ heap' = heap \ Listed
    /\ handles' = {}
    /\ UNCHANGED <<impls, obj, crashed, took>>

SaneExit ==
    /\ IF \E a \in Opened : obj[a].device_ptr = NULL
       THEN crashed' = TRUE /\ UNCHANGED <<inited, devlist, heap, impls, handles>>
       ELSE /\ inited' = FALSE
            /\ devlist' = <<>> /\ heap' = heap \ Listed
            /\ impls' = impls \ {obj[a].device_ptr : a \in Opened}
            /\ handles' = {}
            /\ UNCHANGED crashed
    /\ UNCHANGED <<obj, took>>

-----------------------------------------------------------------------------
(* sane_open, sane_close and the calls on a handle                         *)

\* The device sane_open means by a name: the first of the list for "", else
\* the first of that name.
Target(name) ==
    {devlist[i] : i \in {k \in 1 .. Len(devlist) :
        /\ name \in {Empty, obj[devlist[k]].name}
        /\ \A j \in 1 .. k - 1 : name \notin {Empty, obj[devlist[j]].name}}}

\* Mutations of Open: a failed configure leaves the pointer behind, or the
\* device marked as opened.
Open_KeepsPointer(a) ==
    /\ \E p \in Impls \ impls :
         \/ /\ obj' = [obj EXCEPT ![a].device_ptr = p, ![a].opened = TRUE]
            /\ impls' = impls \cup {p} /\ handles' = handles \cup {a}
         \/ /\ obj' = [obj EXCEPT ![a].device_ptr = p]
            /\ UNCHANGED <<impls, handles>>
    /\ Takes("reopen", obj[a].opened)
    /\ UNCHANGED <<inited, devlist, heap, crashed>>

Open_MarksFirst(a) ==
    /\ \E p \in Impls \ impls :
         \/ /\ obj' = [obj EXCEPT ![a].device_ptr = p, ![a].opened = TRUE]
            /\ impls' = impls \cup {p} /\ handles' = handles \cup {a}
         \/ /\ obj' = [obj EXCEPT ![a].device_ptr = NULL, ![a].opened = TRUE]
            /\ UNCHANGED <<impls, handles>>
    /\ Takes("reopen", obj[a].opened)
    /\ UNCHANGED <<inited, devlist, heap, crashed>>

\* SaneDevice::open puts a new DeviceBaseImpl into device_ptr, whatever that
\* held, and takes it away again when configure fails.
Open(a) ==
    /\ \E p \in Impls \ impls :
         \/ /\ obj' = [obj EXCEPT ![a].device_ptr = p, ![a].opened = TRUE]
            /\ impls' = impls \cup {p} /\ handles' = handles \cup {a}
         \/ /\ obj' = [obj EXCEPT ![a].device_ptr = NULL]
            /\ UNCHANGED <<impls, handles>>
    /\ Takes("reopen", obj[a].opened)
    /\ UNCHANGED <<inited, devlist, heap, crashed>>

\* checkPointer
IsDevice(h) == h \in Listed

\* Mutation of Close: the pointer outlives the object.
Close_KeepsPointer(h) ==
    /\ IsDevice(h)
    /\ IF obj[h].device_ptr = NULL
       THEN crashed' = TRUE /\ UNCHANGED <<obj, impls, handles>>
       ELSE /\ impls' = impls \ {obj[h].device_ptr}
            /\ obj' = [obj EXCEPT ![h].opened = FALSE]
            /\ handles' = handles \ {h}
            /\ UNCHANGED crashed
    /\ Takes("stale", h \notin handles)
    /\ UNCHANGED <<inited, devlist, heap>>

\* Mutation of Close: the device stays opened.
Close_KeepsOpened(h) ==
    /\ IsDevice(h)
    /\ IF obj[h].device_ptr = NULL
       THEN crashed' = TRUE /\ UNCHANGED <<obj, impls, handles>>
       ELSE /\ impls' = impls \ {obj[h].device_ptr}
            /\ obj' = [obj EXCEPT ![h].device_ptr = NULL]
            /\ handles' = handles \ {h}
            /\ UNCHANGED crashed
    /\ Takes("stale", h \notin handles)
    /\ UNCHANGED <<inited, devlist, heap>>

\* SaneDevice::close does not look at opened.
Close(h) ==
    /\ IsDevice(h)
    /\ IF obj[h].device_ptr = NULL
       THEN crashed' = TRUE /\ UNCHANGED <<obj, impls, handles>>
       ELSE /\ impls' = impls \ {obj[h].device_ptr}
            /\ obj' = [obj EXCEPT ![h].device_ptr = NULL, ![h].opened = FALSE]
            /\ handles' = handles \ {h}
            /\ UNCHANGED crashed
    /\ Takes("stale", h \notin handles)
    /\ UNCHANGED <<inited, devlist, heap>>

\* What the entry points of the other eight calls on a handle ask before they
\* hand the call on.
CanCall(h) == inited /\ IsDevice(h)

\* Those calls go through device_ptr when opened says so, and change nothing
\* here.
Operate(h) ==
    /\ CanCall(h) /\ obj[h].opened
    /\ crashed' = (obj[h].device_ptr = NULL)
    /\ Takes("stale", h \notin handles)
    /\ UNCHANGED <<inited, devlist, heap, obj, impls, handles>>

Next ==
    /\ ~crashed
    /\ \/ SaneInit
       \/ SaneExit
       \/ \E name \in Names : \E a \in Target(name) : Open(a)
       \/ \E h \in Addresses : Close(h) \/ Operate(h)

Spec == Init /\ [][Next]_vars

-----------------------------------------------------------------------------
(* Properties                                                              *)

TypeOK ==
    /\ inited \in BOOLEAN /\ crashed \in BOOLEAN
    /\ devlist \in Seq(Addresses) /\ Len(devlist) <= MaxDevices
    /\ heap \subseteq Addresses
    /\ obj \in [Addresses -> Device]
    /\ impls \subseteq Impls
    /\ handles \subseteq Addresses
    /\ took \subseteq Liberties

\* Whatever the frontend does, the list holds live objects, each once; their
\* device_ptr is NULL or a live DeviceBaseImpl that belongs to no other
\* device, and NULL unless the device is opened.
NoDangling ==
    /\ Injective(devlist) /\ Listed \subseteq heap
    /\ \A a \in heap : obj[a].device_ptr # NULL =>
         /\ obj[a].opened
         /\ obj[a].device_ptr \in impls
         /\ \A b \in heap : obj[b].device_ptr = obj[a].device_ptr => b = a

\* Unless the frontend re-opens one, an opened device has a DeviceBaseImpl:
\* the test of opened that guards every call on a handle, and the destructor,
\* is enough.
OpenHasDevice ==
    "reopen" \notin took => \A a \in heap : obj[a].opened => obj[a].device_ptr # NULL

\* Unless the frontend re-opens or re-initialises nothing leaks: every live
\* object is reached from the list, so that sane_exit closes and deletes
\* everything.
NothingLeaks ==
    took \cap {"reopen", "reinit"} = {} =>
        /\ heap \subseteq Listed
        /\ \A p \in impls : \E a \in Listed : obj[a].device_ptr = p

\* Unless the frontend re-initialises, a handle that it holds names an opened
\* device, and every opened device has been handed out.
HandlesOpen == "reinit" \notin took => handles = Opened

\* The inductive invariant.
ApiInv ==
    /\ TypeOK /\ NoDangling /\ OpenHasDevice /\ NothingLeaks /\ HandlesOpen
    /\ ~inited => devlist = <<>>
    /\ crashed => took # {}

\* A frontend that only uses handles it holds never brings the process down.
NoNullCall == crashed => "stale" \in took
=============================================================================
