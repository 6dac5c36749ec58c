---------------------------- MODULE FrontendProofs ----------------------------
(***************************************************************************)
(* Proofs about what a frontend calls, whatever it calls and with any      *)
(* values.                                                                 *)
(*                                                                         *)
(* SaneApi, for every device list and every heap: no object is freed that  *)
(* the list or a device still points to, and as long as the frontend does  *)
(* not take the liberty that each of them names, handles, devices and      *)
(* objects agree and nothing leaks.                                        *)
(*                                                                         *)
(* Options, for every model: the capabilities follow the switches, the     *)
(* scan area stays on the paper, the request and the parameters predicted  *)
(* for it fit, and a frontend is told what changes.                        *)
(***************************************************************************)
EXTENDS SaneApi, Options, TLAPS

-----------------------------------------------------------------------------
(* SaneApi: the list of devices and the handles.                           *)

\* The devices sane_open may mean are in the list.
LEMMA TargetListed == ASSUME NEW name, NEW a \in Target(name) PROVE a \in Listed
BY DEF Target, Listed

\* The elements of the list that FillDeviceList builds are fresh addresses.
LEMMA FillEffect ==
    ASSUME TypeOK, NEW n \in 0 .. MaxDevices, FillDeviceList(n)
    PROVE  /\ devlist' \in Seq(Addresses) /\ Len(devlist') = n
           /\ Listed' \subseteq Addresses \ heap
           /\ Injective(devlist')
           /\ heap' = heap \cup Listed'
           /\ obj' \in [Addresses -> Device]
           /\ \A a \in Listed' : ~obj'[a].opened /\ obj'[a].device_ptr = NULL
           /\ \A a \in Addresses : a \notin Listed' => obj'[a] = obj[a]
<1>1. PICK at \in [1 .. n -> Addresses \ heap] :
        \E real \in [{at[i] : i \in 1 .. n} -> RealNames],
           shown \in [{at[i] : i \in 1 .. n} -> Names] :
             /\ Injective(at)
             /\ devlist' = at
             /\ heap' = heap \cup {at[i] : i \in 1 .. n}
             /\ obj' = [a \in Addresses |-> IF a \in {at[i] : i \in 1 .. n}
                                            THEN NewDevice(shown[a]) ELSE obj[a]]
      BY DEF FillDeviceList
<1> DEFINE new == {at[i] : i \in 1 .. n}
<1>2. n \in Nat /\ at \in Seq(Addresses) /\ Len(at) = n
      BY SaneApiAssumption
<1>3. Listed' = new /\ new \subseteq Addresses \ heap
      BY <1>1, <1>2 DEF Listed
<1>4. PICK shown \in [new -> Names] :
        /\ Injective(at) /\ devlist' = at /\ heap' = heap \cup new
        /\ obj' = [a \in Addresses |-> IF a \in new THEN NewDevice(shown[a]) ELSE obj[a]]
      BY <1>1
<1> HIDE DEF new
<1>5. \A a \in new : NewDevice(shown[a]) \in Device
      BY DEF NewDevice, Device
<1>6. obj' \in [Addresses -> Device]
      BY <1>4, <1>5 DEF TypeOK
<1>7. \A a \in new : ~obj'[a].opened /\ obj'[a].device_ptr = NULL
      BY <1>3, <1>4 DEF NewDevice
<1> QED  BY <1>2, <1>3, <1>4, <1>6, <1>7

\* What sane_exit leaves in place when it does not crash.
LEMMA ExitEffect ==
    ASSUME SaneExit
    PROVE  /\ obj' = obj /\ took' = took
           /\ \/ /\ \E a \in Opened : obj[a].device_ptr = NULL
                 /\ crashed' = TRUE /\ UNCHANGED <<inited, devlist, heap, impls, handles>>
              \/ /\ inited' = FALSE
                 /\ devlist' = <<>> /\ heap' = heap \ Listed
                 /\ impls' = impls \ {obj[a].device_ptr : a \in Opened}
                 /\ handles' = {} /\ crashed' = crashed
BY DEF SaneExit

\* A step adds no unknown liberty.
LEMMA TakesType ==
    ASSUME took \subseteq Liberties, NEW l \in Liberties, NEW C, Takes(l, C)
    PROVE  took' \subseteq Liberties /\ took \subseteq took'
BY DEF Takes

\* Spec keeps every variable in its type.
LEMMA TypeStep == ASSUME TypeOK, [Next]_vars PROVE TypeOK'
<1>0. \A l \in {"reinit", "reopen", "stale"} : l \in Liberties  BY DEF Liberties
<1>1. CASE SaneInit
  <2>0. took' \subseteq Liberties  BY <1>0, <1>1, TakesType DEF SaneInit, TypeOK
  <2>1. CASE \E n \in 0 .. MaxDevices : FillDeviceList(n)
    <3>1. PICK n \in 0 .. MaxDevices : FillDeviceList(n)  BY <2>1
    <3>2. n <= MaxDevices  BY SaneApiAssumption
    <3> QED  BY <1>1, <2>0, <3>1, <3>2, FillEffect DEF TypeOK, SaneInit
  <2>2. CASE devlist' = <<>> /\ UNCHANGED <<inited, heap, obj>>
    BY <1>1, <2>0, <2>2, SaneApiAssumption DEF TypeOK, SaneInit
  <2> QED  BY <1>1, <2>1, <2>2 DEF SaneInit
<1>2. CASE SaneExit
  <2>1. CASE devlist' = <<>> /\ heap' = heap \ Listed
             /\ impls' = impls \ {obj[a].device_ptr : a \in Opened}
             /\ inited' = FALSE /\ handles' = {} /\ UNCHANGED <<obj, crashed, took>>
    <3>1. devlist' \in Seq(Addresses) /\ Len(devlist') <= MaxDevices
          BY <2>1, SaneApiAssumption
    <3>2. heap' \subseteq Addresses /\ impls' \subseteq Impls
          BY <2>1 DEF TypeOK
    <3> QED  BY <2>1, <3>1, <3>2 DEF TypeOK
  <2>2. CASE crashed' = TRUE /\ UNCHANGED <<inited, devlist, heap, obj, impls, handles, took>>
    BY <2>2 DEF TypeOK
  <2> QED  BY <1>2, <2>1, <2>2, ExitEffect
<1>3. ASSUME NEW name \in Names, NEW a \in Target(name), Open(a) PROVE TypeOK'
  <2>1. a \in Addresses  BY TargetListed DEF Listed, TypeOK
  <2>2. took' \subseteq Liberties  BY <1>0, <1>3, TakesType DEF Open, TypeOK
  <2> QED  BY <1>3, <2>1, <2>2 DEF Open, TypeOK, Device
<1>4. ASSUME NEW h, Close(h) PROVE TypeOK'
  <2>1. h \in Addresses  BY <1>4 DEF Close, IsDevice, Listed, TypeOK
  <2>0. took' \subseteq Liberties  BY <1>0, <1>4, TakesType DEF Close, TypeOK
  <2>2. CASE obj[h].device_ptr = NULL
    BY <1>4, <2>0, <2>2 DEF Close, TypeOK
  <2>3. CASE obj[h].device_ptr # NULL
    <3>1. obj' \in [Addresses -> Device]
          BY <1>4, <2>1, <2>3 DEF Close, TypeOK, Device
    <3> QED  BY <1>4, <2>0, <2>3, <3>1 DEF Close, TypeOK
  <2> QED  BY <2>2, <2>3
<1>5. ASSUME NEW h, Operate(h) PROVE TypeOK'
  <2>1. took' \subseteq Liberties  BY <1>0, <1>5, TakesType DEF Operate, TypeOK
  <2> QED  BY <1>5, <2>1 DEF Operate, TypeOK
<1>6. CASE UNCHANGED vars
  BY <1>6 DEF vars, TypeOK
<1> QED  BY <1>1, <1>2, <1>3, <1>4, <1>5, <1>6 DEF Next

LEMMA TypeInit == Init => TypeOK
<1> SUFFICES ASSUME Init PROVE TypeOK
    OBVIOUS
<1>1. devlist \in Seq(Addresses) /\ Len(devlist) <= MaxDevices
      BY SaneApiAssumption DEF Init
<1>2. NewDevice(Empty) \in Device
      BY SaneApiAssumption DEF NewDevice, Device
<1> QED  BY <1>1, <1>2 DEF Init, TypeOK

-----------------------------------------------------------------------------
(* Whatever the frontend does.                                             *)

\* Close frees the object of one listed device and of no other.
LEMMA CloseEffect ==
    ASSUME TypeOK, NEW h, Close(h)
    PROVE  /\ h \in Listed /\ h \in Addresses
           /\ UNCHANGED <<inited, devlist, heap>>
           /\ \/ /\ obj[h].device_ptr = NULL
                 /\ crashed' = TRUE /\ UNCHANGED <<obj, impls, handles>>
              \/ /\ obj[h].device_ptr # NULL
                 /\ impls' = impls \ {obj[h].device_ptr}
                 /\ obj'[h].device_ptr = NULL /\ ~obj'[h].opened
                 /\ \A a \in Addresses \ {h} : obj'[a] = obj[a]
                 /\ handles' = handles \ {h}
                 /\ crashed' = crashed
<1>1. h \in Listed /\ h \in Addresses
      BY DEF Close, IsDevice, Listed, TypeOK
<1>2. CASE obj[h].device_ptr = NULL
  BY <1>1, <1>2 DEF Close
<1>3. CASE obj[h].device_ptr # NULL
  <2>1. obj[h] \in Device  BY <1>1 DEF TypeOK
  <2> QED  BY <1>1, <1>3, <2>1 DEF Close, TypeOK, Device
<1> QED  BY <1>2, <1>3

\* Open gives one listed device a new object, or none.
LEMMA OpenEffect ==
    ASSUME TypeOK, NEW name, NEW a \in Target(name), Open(a)
    PROVE  /\ a \in Listed /\ a \in Addresses
           /\ UNCHANGED <<inited, devlist, heap, crashed>>
           /\ \A b \in Addresses \ {a} : obj'[b] = obj[b]
           /\ \/ /\ obj'[a].device_ptr \in Impls \ impls /\ obj'[a].opened
                 /\ impls' = impls \cup {obj'[a].device_ptr}
                 /\ handles' = handles \cup {a}
              \/ /\ obj'[a].device_ptr = NULL /\ obj'[a].opened = obj[a].opened
                 /\ UNCHANGED <<impls, handles>>
<1>1. a \in Listed /\ a \in Addresses
      BY TargetListed DEF Listed, TypeOK
<1>2. obj[a] \in Device  BY <1>1 DEF TypeOK
<1> QED  BY <1>1, <1>2 DEF Open, TypeOK, Device

LEMMA DanglingStep ==
    ASSUME TypeOK, TypeOK', NoDangling, [Next]_vars
    PROVE  NoDangling'
<1>0. heap \subseteq Addresses /\ NULL \notin Impls
      BY SaneApiAssumption DEF TypeOK
<1>1. ASSUME NEW n \in 0 .. MaxDevices, FillDeviceList(n), UNCHANGED impls
      PROVE NoDangling'
  <2>1. /\ heap' = heap \cup Listed' /\ Injective(devlist')
        /\ \A a \in Listed' : obj'[a].device_ptr = NULL
        /\ \A a \in heap : a \notin Listed' => obj'[a] = obj[a]
        BY <1>0, <1>1, FillEffect
  <2>2. ASSUME NEW a \in heap', obj'[a].device_ptr # NULL
        PROVE  /\ obj'[a].opened /\ obj'[a].device_ptr \in impls'
               /\ \A b \in heap' : obj'[b].device_ptr = obj'[a].device_ptr => b = a
    <3>1. a \in heap /\ obj'[a] = obj[a]  BY <2>1, <2>2
    <3>2. /\ obj[a].opened /\ obj[a].device_ptr \in impls
          /\ \A b \in heap : obj[b].device_ptr = obj[a].device_ptr => b = a
          BY <2>2, <3>1 DEF NoDangling
    <3>3. ASSUME NEW b \in heap', obj'[b].device_ptr = obj'[a].device_ptr PROVE b = a
      BY <2>1, <2>2, <3>1, <3>2, <3>3
    <3> QED  BY <1>1, <3>1, <3>2, <3>3
  <2> QED  BY <2>1, <2>2 DEF NoDangling
<1>2. ASSUME devlist' = <<>>, UNCHANGED <<inited, heap, obj, impls>>
      PROVE NoDangling'
  BY <1>2 DEF NoDangling, Listed, Injective
<1>3. CASE SaneExit
  <2>1. CASE UNCHANGED <<devlist, heap, impls, obj>>
    BY <2>1 DEF NoDangling, Listed, Injective
  <2>2. CASE devlist' = <<>> /\ heap' = heap \ Listed /\ obj' = obj
             /\ impls' = impls \ {obj[a].device_ptr : a \in Opened}
    <3>1. Opened \subseteq heap /\ Opened \cap heap' = {}
          BY <2>2 DEF NoDangling, Opened
    <3>2. ASSUME NEW a \in heap', obj[a].device_ptr # NULL
          PROVE  /\ obj[a].opened /\ obj[a].device_ptr \in impls'
                 /\ \A b \in heap' : obj[b].device_ptr = obj[a].device_ptr => b = a
      BY <2>2, <3>1, <3>2 DEF NoDangling
    <3>3. Injective(devlist') /\ Listed' = {}
          BY <2>2 DEF Listed, Injective
    <3> QED  BY <2>2, <3>2, <3>3 DEF NoDangling
  <2> QED  BY <1>3, <2>1, <2>2, ExitEffect
<1>4. ASSUME NEW name \in Names, NEW a \in Target(name), Open(a) PROVE NoDangling'
  <2>1. a \in heap  BY <1>4, OpenEffect DEF NoDangling
  <2>2. Injective(devlist') /\ Listed' \subseteq heap'
        BY <1>4, OpenEffect DEF NoDangling, Listed, Injective
  <2>3. ASSUME NEW c \in heap', obj'[c].device_ptr # NULL
        PROVE  /\ obj'[c].opened /\ obj'[c].device_ptr \in impls'
               /\ \A b \in heap' : obj'[b].device_ptr = obj'[c].device_ptr => b = c
    <3>1. \A b \in heap \ {a} : obj'[b] = obj[b]  BY <1>0, <1>4, OpenEffect
    <3>2. heap' = heap  BY <1>4, OpenEffect
    <3>3. CASE obj'[a].device_ptr \in Impls \ impls /\ obj'[a].opened
               /\ impls' = impls \cup {obj'[a].device_ptr}
      BY <2>3, <3>1, <3>2, <3>3 DEF NoDangling
    <3>4. CASE obj'[a].device_ptr = NULL /\ UNCHANGED impls
      BY <2>3, <3>1, <3>2, <3>4 DEF NoDangling
    <3> QED  BY <1>4, <3>3, <3>4, OpenEffect
  <2> QED  BY <2>2, <2>3 DEF NoDangling
<1>5. ASSUME NEW h, Close(h) PROVE NoDangling'
  <2>1. h \in heap /\ heap' = heap  BY <1>5, CloseEffect DEF NoDangling
  <2>2. Injective(devlist') /\ Listed' \subseteq heap'
    <3>1. UNCHANGED <<devlist, heap>>  BY <1>5, CloseEffect
    <3> QED  BY <3>1 DEF NoDangling, Listed, Injective
  <2>3. CASE UNCHANGED <<obj, impls>>
    BY <2>1, <2>2, <2>3 DEF NoDangling
  <2>4. CASE obj[h].device_ptr # NULL /\ impls' = impls \ {obj[h].device_ptr}
             /\ obj'[h].device_ptr = NULL
             /\ \A a \in Addresses \ {h} : obj'[a] = obj[a]
    BY <1>0, <2>1, <2>2, <2>4 DEF NoDangling
  <2> QED  BY <1>5, <2>3, <2>4, CloseEffect
<1>6. ASSUME NEW h, Operate(h) PROVE NoDangling'
  BY <1>6 DEF Operate, NoDangling, Listed, Injective
<1>7. CASE UNCHANGED vars
  BY <1>7 DEF vars, NoDangling, Listed, Injective
<1> QED  BY <1>1, <1>2, <1>3, <1>4, <1>5, <1>6, <1>7 DEF Next, SaneInit

\* Whatever the frontend does, no list entry and no device_ptr of a live
\* device names an object that was deleted, and no two devices share one
\* (SaneDevice::open, close and the destructor, PointerList::clean).
THEOREM NothingDangles == Spec => []NoDangling
<1>1. Init => TypeOK /\ NoDangling
  <2> SUFFICES ASSUME Init PROVE TypeOK /\ NoDangling
      OBVIOUS
  <2>1. Injective(devlist) /\ Listed = {} /\ heap = {}
        BY DEF Init, Injective, Listed
  <2> QED  BY <2>1, TypeInit DEF NoDangling
<1>2. TypeOK /\ NoDangling /\ [Next]_vars => TypeOK' /\ NoDangling'
  BY TypeStep, DanglingStep
<1> QED  BY <1>1, <1>2, PTL DEF Spec

-----------------------------------------------------------------------------
(* As long as the frontend does not take certain liberties.                *)

\* What ApiInv adds to the type and to NoDangling.
Orderly ==
    /\ OpenHasDevice /\ NothingLeaks /\ HandlesOpen
    /\ ~inited => devlist = <<>>
    /\ crashed => took # {}

\* Before sane_init and after sane_exit there is nothing.
LEMMA NothingBeforeInit ==
    ASSUME TypeOK, NoDangling, Orderly, ~inited
    PROVE  /\ Listed = {}
           /\ "reinit" \notin took => handles = {}
           /\ took \cap {"reopen", "reinit"} = {} => heap = {} /\ impls = {}
<1>1. Listed = {}  BY DEF Orderly, Listed
<1> QED  BY <1>1 DEF Orderly, NothingLeaks, HandlesOpen, Opened

\* What a liberty leaves of took.
LEMMA TakesEffect ==
    ASSUME NEW l, NEW C, Takes(l, C)
    PROVE  took \subseteq took' /\ (C => l \in took') /\ (~C => took' = took)
BY DEF Takes

LEMMA InitOrderly ==
    ASSUME TypeOK, NoDangling, Orderly, SaneInit
    PROVE  Orderly'
<1>0. heap \subseteq Addresses /\ Listed \subseteq heap
      BY DEF TypeOK, NoDangling
<1>1. /\ took \subseteq took' /\ (inited => "reinit" \in took')
      /\ UNCHANGED <<impls, handles, crashed>>
      BY TakesEffect DEF SaneInit
<1>2. (crashed => took # {})'  BY <1>1 DEF Orderly
<1>3. CASE inited' = TRUE /\ \E n \in 0 .. MaxDevices : FillDeviceList(n)
  <2>1. /\ heap' = heap \cup Listed'
        /\ \A a \in Listed' : ~obj'[a].opened
        /\ \A a \in heap : a \notin Listed' => obj'[a] = obj[a]
        BY <1>0, <1>3, FillEffect
  <2>2. OpenHasDevice'
        BY <1>1, <2>1 DEF Orderly, OpenHasDevice
  <2>3. ASSUME took' \cap {"reopen", "reinit"} = {}
        PROVE  heap' \subseteq Listed' /\ impls' = {}
    <3>1. heap = {} /\ impls = {}  BY <1>1, <2>3, NothingBeforeInit
    <3> QED  BY <1>1, <2>1, <3>1
  <2>4. NothingLeaks'  BY <2>3 DEF NothingLeaks
  <2>5. ASSUME "reinit" \notin took' PROVE handles' = Opened'
    <3>1. handles = {}  BY <1>1, <2>5, NothingBeforeInit
    <3> QED  BY <1>1, <2>1, <3>1 DEF Opened
  <2>6. HandlesOpen'  BY <2>5 DEF HandlesOpen
  <2> QED  BY <1>2, <1>3, <2>2, <2>4, <2>6 DEF Orderly
<1>4. CASE devlist' = <<>> /\ UNCHANGED <<inited, heap, obj>>
  <2>1. Listed' = {}  BY <1>4 DEF Listed
  <2>2. OpenHasDevice'
        BY <1>1, <1>4 DEF Orderly, OpenHasDevice
  <2>3. ASSUME took' \cap {"reopen", "reinit"} = {}
        PROVE  heap' = {} /\ impls' = {}
    BY <1>1, <1>4, <2>3, NothingBeforeInit
  <2>4. NothingLeaks'  BY <2>3 DEF NothingLeaks
  <2>5. ASSUME "reinit" \notin took' PROVE handles' = Opened'
    <3>1. handles = {}  BY <1>1, <2>5, NothingBeforeInit
    <3> QED  BY <1>1, <2>1, <3>1 DEF Opened
  <2>6. HandlesOpen'  BY <2>5 DEF HandlesOpen
  <2> QED  BY <1>2, <1>4, <2>2, <2>4, <2>6 DEF Orderly
<1> QED  BY <1>3, <1>4 DEF SaneInit

LEMMA ExitOrderly ==
    ASSUME TypeOK, NoDangling, Orderly, SaneExit
    PROVE  Orderly'
<1>0. NULL \notin Impls /\ Listed \subseteq heap
      BY SaneApiAssumption DEF NoDangling
<1>1. obj' = obj /\ took' = took  BY ExitEffect
<1>2. CASE /\ \E a \in Opened : obj[a].device_ptr = NULL
           /\ crashed' = TRUE /\ UNCHANGED <<inited, devlist, heap, impls, handles>>
  <2>1. "reopen" \in took'
        BY <1>0, <1>1, <1>2 DEF Opened, Orderly, OpenHasDevice
  <2>2. Listed' = Listed  BY <1>2 DEF Listed
  <2> QED
    BY <1>1, <1>2, <2>1, <2>2 DEF Orderly, OpenHasDevice, NothingLeaks, HandlesOpen, Opened
<1>3. CASE /\ inited' = FALSE
           /\ devlist' = <<>> /\ heap' = heap \ Listed
           /\ impls' = impls \ {obj[a].device_ptr : a \in Opened}
           /\ handles' = {} /\ crashed' = crashed
  <2>1. Listed' = {}  BY <1>3 DEF Listed
  <2>2. OpenHasDevice'  BY <1>1, <1>3 DEF Orderly, OpenHasDevice
  <2>3. ASSUME took' \cap {"reopen", "reinit"} = {}
        PROVE  heap' = {} /\ impls' = {}
    <3>1. heap \subseteq Listed /\ \A p \in impls : \E a \in Listed : obj[a].device_ptr = p
          BY <1>1, <2>3 DEF Orderly, NothingLeaks
    <3>2. ASSUME NEW p \in impls PROVE p \in {obj[a].device_ptr : a \in Opened}
      <4>1. PICK a \in Listed : obj[a].device_ptr = p  BY <3>1
      <4>2. p # NULL  BY <1>0 DEF TypeOK
      <4>3. a \in Opened  BY <1>0, <4>1, <4>2 DEF Opened, NoDangling
      <4> QED  BY <4>1, <4>3
    <3> QED  BY <1>3, <3>1, <3>2
  <2>4. NothingLeaks'  BY <2>3 DEF NothingLeaks
  <2>5. HandlesOpen'  BY <1>3, <2>1 DEF HandlesOpen, Opened
  <2> QED  BY <1>1, <1>3, <2>2, <2>4, <2>5 DEF Orderly
<1> QED  BY <1>2, <1>3, ExitEffect

LEMMA OpenOrderly ==
    ASSUME TypeOK, NoDangling, Orderly, NEW name \in Names, NEW a \in Target(name), Open(a)
    PROVE  Orderly'
<1>0. NULL \notin Impls /\ heap \subseteq Addresses /\ Listed \subseteq heap /\ impls \subseteq Impls
      BY SaneApiAssumption DEF TypeOK, NoDangling
<1>1. /\ UNCHANGED <<inited, devlist, heap, crashed>>
      /\ a \in Listed /\ a \in heap
      /\ \A b \in heap \ {a} : obj'[b] = obj[b]
      BY <1>0, OpenEffect
<1>2. took \subseteq took' /\ (obj[a].opened => "reopen" \in took')
      BY TakesEffect DEF Open
<1>3. Listed' = Listed  BY <1>1 DEF Listed
<1>4. (~inited => devlist = <<>>)' /\ (crashed => took # {})'
      BY <1>1, <1>2 DEF Orderly
<1>5. obj[a].device_ptr # NULL => obj[a].opened
      BY <1>1 DEF NoDangling
<1>6. CASE /\ obj'[a].device_ptr \in Impls \ impls /\ obj'[a].opened
           /\ impls' = impls \cup {obj'[a].device_ptr}
           /\ handles' = handles \cup {a}
  <2>1. OpenHasDevice'
        BY <1>0, <1>1, <1>2, <1>6 DEF Orderly, OpenHasDevice
  <2>2. ASSUME took' \cap {"reopen", "reinit"} = {}
        PROVE  heap' \subseteq Listed' /\ \A p \in impls' : \E b \in Listed' : obj'[b].device_ptr = p
    <3>1. heap \subseteq Listed /\ \A p \in impls : \E b \in Listed : obj[b].device_ptr = p
          BY <1>2, <2>2 DEF Orderly, NothingLeaks
    <3>2. obj[a].device_ptr = NULL  BY <1>2, <1>5, <2>2
    <3>3. ASSUME NEW p \in impls' PROVE \E b \in Listed' : obj'[b].device_ptr = p
      <4>1. CASE p = obj'[a].device_ptr  BY <1>1, <1>3, <4>1
      <4>2. CASE p \in impls
        <5>1. PICK b \in Listed : obj[b].device_ptr = p  BY <3>1, <4>2
        <5>2. b # a  BY <1>0, <3>2, <4>2, <5>1
        <5> QED  BY <1>0, <1>1, <1>3, <5>1, <5>2
      <4> QED  BY <1>6, <4>1, <4>2
    <3> QED  BY <1>1, <1>3, <3>1, <3>3
  <2>3. NothingLeaks'  BY <2>2 DEF NothingLeaks
  <2>4. Opened' = Opened \cup {a}
        BY <1>0, <1>1, <1>3, <1>6 DEF Opened
  <2>5. HandlesOpen'  BY <1>2, <1>6, <2>4 DEF Orderly, HandlesOpen
  <2> QED  BY <1>4, <2>1, <2>3, <2>5 DEF Orderly
<1>7. CASE /\ obj'[a].device_ptr = NULL /\ obj'[a].opened = obj[a].opened
           /\ UNCHANGED <<impls, handles>>
  <2>1. OpenHasDevice'
        BY <1>0, <1>1, <1>2, <1>7 DEF Orderly, OpenHasDevice
  <2>2. ASSUME took' \cap {"reopen", "reinit"} = {}
        PROVE  heap' \subseteq Listed' /\ \A p \in impls' : \E b \in Listed' : obj'[b].device_ptr = p
    <3>1. heap \subseteq Listed /\ \A p \in impls : \E b \in Listed : obj[b].device_ptr = p
          BY <1>2, <2>2 DEF Orderly, NothingLeaks
    <3>2. obj[a].device_ptr = NULL  BY <1>2, <1>5, <2>2
    <3>3. ASSUME NEW p \in impls' PROVE \E b \in Listed' : obj'[b].device_ptr = p
      <4>1. PICK b \in Listed : obj[b].device_ptr = p  BY <1>7, <3>1
      <4>2. b # a  BY <1>0, <1>7, <3>2, <4>1
      <4> QED  BY <1>0, <1>1, <1>3, <4>1, <4>2
    <3> QED  BY <1>1, <1>3, <3>1, <3>3
  <2>3. NothingLeaks'  BY <2>2 DEF NothingLeaks
  <2>4. Opened' = Opened
        BY <1>0, <1>1, <1>3, <1>7 DEF Opened
  <2>5. HandlesOpen'  BY <1>2, <1>7, <2>4 DEF Orderly, HandlesOpen
  <2> QED  BY <1>4, <2>1, <2>3, <2>5 DEF Orderly
<1> QED  BY <1>6, <1>7, OpenEffect

LEMMA CloseOrderly ==
    ASSUME TypeOK, NoDangling, Orderly, NEW h, Close(h)
    PROVE  Orderly'
<1>0. NULL \notin Impls /\ heap \subseteq Addresses /\ Listed \subseteq heap /\ impls \subseteq Impls
      BY SaneApiAssumption DEF TypeOK, NoDangling
<1>1. h \in Listed /\ UNCHANGED <<inited, devlist, heap>>
      BY CloseEffect
<1>2. took \subseteq took' /\ (h \notin handles => "stale" \in took')
      BY TakesEffect DEF Close
<1>3. Listed' = Listed  BY <1>1 DEF Listed
<1>4. (~inited => devlist = <<>>)'
      BY <1>1 DEF Orderly
<1>5. CASE /\ obj[h].device_ptr = NULL
           /\ crashed' = TRUE /\ UNCHANGED <<obj, impls, handles>>
  <2>1. ASSUME took' = {} PROVE FALSE
    <3>1. took = {} /\ h \in handles  BY <1>2, <2>1
    <3>2. h \in Opened  BY <3>1 DEF Orderly, HandlesOpen
    <3> QED  BY <1>0, <1>1, <1>5, <3>1, <3>2 DEF Orderly, OpenHasDevice, Opened
  <2>2. OpenHasDevice'  BY <1>1, <1>2, <1>5 DEF Orderly, OpenHasDevice
  <2>3. NothingLeaks'  BY <1>1, <1>2, <1>3, <1>5 DEF Orderly, NothingLeaks
  <2>4. Opened' = Opened  BY <1>3, <1>5 DEF Opened
  <2>5. HandlesOpen'  BY <1>2, <1>5, <2>4 DEF Orderly, HandlesOpen
  <2> QED  BY <1>4, <2>1, <2>2, <2>3, <2>5 DEF Orderly
<1>6. CASE /\ obj[h].device_ptr # NULL
           /\ impls' = impls \ {obj[h].device_ptr}
           /\ obj'[h].device_ptr = NULL /\ ~obj'[h].opened
           /\ \A b \in heap \ {h} : obj'[b] = obj[b]
           /\ handles' = handles \ {h} /\ crashed' = crashed
  <2>1. OpenHasDevice'
        BY <1>1, <1>2, <1>6 DEF Orderly, OpenHasDevice
  <2>2. ASSUME took' \cap {"reopen", "reinit"} = {}
        PROVE  heap' \subseteq Listed' /\ \A p \in impls' : \E b \in Listed' : obj'[b].device_ptr = p
    <3>1. heap \subseteq Listed /\ \A p \in impls : \E b \in Listed : obj[b].device_ptr = p
          BY <1>2, <2>2 DEF Orderly, NothingLeaks
    <3>2. ASSUME NEW p \in impls' PROVE \E b \in Listed' : obj'[b].device_ptr = p
      <4>1. PICK b \in Listed : obj[b].device_ptr = p  BY <1>6, <3>1
      <4>2. b # h  BY <1>6, <3>2, <4>1
      <4> QED  BY <1>0, <1>1, <1>3, <1>6, <4>1, <4>2
    <3> QED  BY <1>1, <1>3, <3>1, <3>2
  <2>3. NothingLeaks'  BY <2>2 DEF NothingLeaks
  <2>4. Opened' = Opened \ {h}
        BY <1>0, <1>1, <1>3, <1>6 DEF Opened
  <2>5. HandlesOpen'  BY <1>2, <1>6, <2>4 DEF Orderly, HandlesOpen
  <2>6. (crashed => took # {})'  BY <1>2, <1>6 DEF Orderly
  <2> QED  BY <1>4, <2>1, <2>3, <2>5, <2>6 DEF Orderly
<1> QED  BY <1>0, <1>5, <1>6, CloseEffect

LEMMA OperateOrderly ==
    ASSUME NoDangling, Orderly, NEW h, Operate(h)
    PROVE  Orderly'
<1>1. h \in Listed /\ h \in heap /\ obj[h].opened
      BY DEF Operate, CanCall, IsDevice, NoDangling
<1>2. took \subseteq took'
      BY TakesEffect DEF Operate
<1>3. UNCHANGED <<inited, devlist, heap, obj, impls, handles>>
      BY DEF Operate
<1>4. Listed' = Listed  BY <1>3 DEF Listed
<1>5. (crashed => took # {})'
      BY <1>1, <1>2 DEF Operate, Orderly, OpenHasDevice
<1>6. OpenHasDevice'  BY <1>2, <1>3 DEF Orderly, OpenHasDevice
<1>7. NothingLeaks'  BY <1>2, <1>3, <1>4 DEF Orderly, NothingLeaks
<1>8. HandlesOpen'  BY <1>2, <1>3, <1>4 DEF Orderly, HandlesOpen, Opened
<1> QED  BY <1>3, <1>5, <1>6, <1>7, <1>8 DEF Orderly

LEMMA OrderlyStep ==
    ASSUME TypeOK, NoDangling, Orderly, [Next]_vars
    PROVE  Orderly'
<1>1. CASE UNCHANGED vars
  <2>1. Listed' = Listed  BY <1>1 DEF Listed, vars
  <2> QED
    BY <1>1, <2>1 DEF vars, Orderly, OpenHasDevice, NothingLeaks, HandlesOpen, Opened
<1> QED
  BY <1>1, InitOrderly, ExitOrderly, OpenOrderly, CloseOrderly, OperateOrderly DEF Next

\* The inductive invariant: unless the frontend took the liberty that the part
\* names, an opened device has its DeviceBaseImpl, nothing leaks, the
\* frontend's handles are the opened devices, and no call of sane_close,
\* sane_exit or of a device goes through a NULL pointer.
THEOREM DevicesInOrder == Spec => []ApiInv
<1>1. Init => TypeOK /\ NoDangling /\ Orderly
  <2> SUFFICES ASSUME Init PROVE TypeOK /\ NoDangling /\ Orderly
      OBVIOUS
  <2>1. Injective(devlist) /\ Listed = {} /\ heap = {}
        BY DEF Init, Injective, Listed
  <2>2. NoDangling  BY <2>1 DEF NoDangling
  <2>3. Orderly
        BY <2>1 DEF Init, Orderly, OpenHasDevice, NothingLeaks, HandlesOpen, Opened
  <2> QED  BY <2>2, <2>3, TypeInit
<1>2. TypeOK /\ NoDangling /\ Orderly /\ [Next]_vars
      => (TypeOK /\ NoDangling /\ Orderly)'
  BY TypeStep, DanglingStep, OrderlyStep
<1>3. TypeOK /\ NoDangling /\ Orderly => ApiInv
  BY DEF Orderly, ApiInv
<1> QED  BY <1>1, <1>2, <1>3, PTL DEF Spec

-----------------------------------------------------------------------------
(* Options of a device.                                                    *)


\* The part of OptionsTypeOK that the capabilities rest on.
SwitchTypes ==
    /\ DOMAIN val = Options
    /\ val["duplex"] \in BOOLEAN /\ val["edge"] \in BOOLEAN

CapsInv == SwitchTypes /\ CapsFollow

\* The names of the options are told apart.
LEMMA OptionNames ==
    /\ Options = {"source", "mode", "resolution", "duplex", "binding", "bgelm",
                  "edge", "edgerange", "tl_x", "tl_y", "br_x", "br_y"}
    /\ Switches \subseteq Options /\ Corners \subseteq Options
PROOF
  <1>1. Len(OptionList) = 12
    BY DEF OptionList
  <1> QED
    BY <1>1 DEF Options, OptionList, Switches, Corners

\* The object as it is constructed.
LEMMA CapsInit == OptionsInit => CapsInv
PROOF
  BY OptionNames DEF OptionsInit, CapsInv, SwitchTypes, CapsFollow, FromFeeder

\* Every call keeps the capabilities in step with the values.
LEMMA CapsStep == CapsInv /\ [OptionsNext]_optionVars => CapsInv'
PROOF
  <1> SUFFICES ASSUME CapsInv, [OptionsNext]_optionVars PROVE CapsInv'
    OBVIOUS
  <1> USE OptionNames DEF CapsInv, SwitchTypes
  <1>1. CASE Configure
    BY <1>1 DEF Configure, CapsFollow
  <1>2. ASSUME NEW i \in 1 .. Len(OptionList), GetOptionDescriptor(i) PROVE CapsInv'
    BY <1>2 DEF GetOptionDescriptor, CapsFollow
  <1>3. ASSUME NEW o \in Options, SetAuto(o) PROVE CapsInv'
    BY <1>3 DEF SetAuto, CapsFollow, Switches
  <1>4. ASSUME NEW o \in Options, NEW v \in Offers[o], SetValue(o, v) PROVE CapsInv'
    <2>1. v \in Value(o)
      BY OptionsAssumption
    <2>2. CASE o = "source"
      BY <1>4, <2>2 DEF SetValue, Switch, SwitchSource, CapsFollow
    <2>3. CASE o = "duplex"
      <3>1. v \in BOOLEAN
        BY <2>1, <2>3 DEF Value, Switches, Choices, Quantities, Corners
      <3> QED
        BY <1>4, <2>3, <3>1 DEF SetValue, Switch, SwitchDuplex, Select, CapsFollow
    <2>4. CASE o = "edge"
      <3>1. v \in BOOLEAN
        BY <2>1, <2>4 DEF Value, Switches, Choices, Quantities, Corners
      <3> QED
        BY <1>4, <2>4, <3>1 DEF SetValue, Switch, SwitchEdge, Select, CapsFollow
    <2>5. CASE o \notin {"source", "duplex", "edge"}
      BY <1>4, <2>5 DEF SetValue, Switch, CapsFollow
    <2> QED
      BY <2>2, <2>3, <2>4, <2>5
  <1>5. CASE UNCHANGED optionVars
    BY <1>5 DEF optionVars, CapsFollow
  <1> QED
    BY <1>1, <1>2, <1>3, <1>4, <1>5 DEF OptionsNext

\* For every model and every order of calls, an option can be set exactly when
\* the options it depends on say so.
THEOREM CapabilitiesFollow == OptionsSpec => []CapsFollow
PROOF
  <1>1. CapsInv => CapsFollow
    BY DEF CapsInv
  <1> QED
    BY CapsInit, CapsStep, <1>1, PTL DEF OptionsSpec

-----------------------------------------------------------------------------
(* The scan area                                                           *)

\* Where the corners are, for a frontend that respects the constraints.
CornersOnPaper ==
    /\ val["tl_x"] \in 0 .. geometry.width /\ val["br_x"] \in 0 .. geometry.width
    /\ val["tl_y"] \in 0 .. geometry.height /\ val["br_y"] \in 0 .. geometry.height

AreaInv ==
    /\ DOMAIN val = Options
    /\ geometry.width \in Nat /\ geometry.height \in Nat
    /\ opened /\ "value" \notin liberties => CornersOnPaper

\* A value that the constraint of a corner allows is on the paper.
LEMMA CornerValues ==
  ASSUME NEW c \in Corners
  PROVE  Allowed(c) = 0 .. (IF c \in {"tl_x", "br_x"} THEN geometry.width
                            ELSE geometry.height)
PROOF
  BY DEF Corners, Allowed, Lowest, Highest, Switches, Choices, Quantities

\* Nothing is open yet.
LEMMA AreaInit == OptionsInit => AreaInv
PROOF
  BY OptionNames DEF OptionsInit, AreaInv, DefaultModel

\* configure sets the corners with the geometry, and every later value of a
\* corner was allowed or is counted as a liberty.
LEMMA AreaStep == AreaInv /\ [OptionsNext]_optionVars => AreaInv'
PROOF
  <1> SUFFICES ASSUME AreaInv, [OptionsNext]_optionVars PROVE AreaInv'
    OBVIOUS
  <1> USE OptionNames DEF AreaInv
  <1>1. CASE Configure
    <2>1. geometry' \in Model
      BY <1>1, OptionsAssumption DEF Configure, DefaultModel, Model
    <2>2. geometry'.width \in Nat /\ geometry'.height \in Nat
      BY <2>1 DEF Model
    <2>3. /\ DOMAIN val' = Options
          /\ val'["tl_x"] = 0 /\ val'["br_x"] = geometry'.width
          /\ val'["tl_y"] = 0 /\ val'["br_y"] = geometry'.height
      BY <1>1 DEF Configure
    <2> QED
      BY <2>2, <2>3 DEF CornersOnPaper
  <1>2. ASSUME NEW i \in 1 .. Len(OptionList), GetOptionDescriptor(i) PROVE AreaInv'
    BY <1>2 DEF GetOptionDescriptor, CornersOnPaper
  <1>3. ASSUME NEW o \in Options, SetAuto(o) PROVE AreaInv'
    BY <1>3 DEF SetAuto, CornersOnPaper, Switches
  <1>4. ASSUME NEW o \in Options, NEW v \in Offers[o], SetValue(o, v) PROVE AreaInv'
    <2>1. /\ val' = [val EXCEPT ![o] = v] /\ DOMAIN val' = Options
          /\ opened' = opened /\ geometry' = geometry /\ liberties \subseteq liberties'
          /\ v \notin Allowed(o) => "value" \in liberties'
      BY <1>4 DEF SetValue
    <2>2. CASE o \in Corners
      BY <2>1, <2>2, CornerValues DEF CornersOnPaper, Corners
    <2>3. CASE o \notin Corners
      BY <2>1, <2>3 DEF CornersOnPaper, Corners
    <2> QED
      BY <2>2, <2>3
  <1>5. CASE UNCHANGED optionVars
    BY <1>5 DEF optionVars, CornersOnPaper
  <1> QED
    BY <1>1, <1>2, <1>3, <1>4, <1>5 DEF OptionsNext

\* For every model and every value in its ranges, in whatever order the corners
\* are moved, the area of the SCAN request is on the paper.
THEOREM AreaStaysOnPaper == OptionsSpec => []AreaOnPaper
PROOF
  <1>1. AreaInv => AreaOnPaper
    BY DEF AreaInv, CornersOnPaper, AreaOnPaper, Area, Lower, Upper
  <1> QED
    BY AreaInit, AreaStep, <1>1, PTL DEF OptionsSpec

-----------------------------------------------------------------------------
(* The request and the parameters                                          *)

\* The values of an option, one kind at a time.
LEMMA OptionValues ==
    /\ \A o \in Switches : Value(o) = BOOLEAN /\ Allowed(o) = BOOLEAN
    /\ \A o \in Choices : Value(o) = Lists[o] \cup {Other} /\ Allowed(o) = Lists[o]
    /\ \A o \in Quantities : Value(o) = Nat /\ Allowed(o) = Lowest(o) .. Highest(o)
    /\ Options = Switches \cup Choices \cup Quantities
PROOF
  BY OptionNames DEF Value, Allowed, Switches, Choices, Quantities, Corners

\* An object as it is constructed.
LEMMA OptionsTypeInit == OptionsInit => OptionsTypeOK
PROOF
  <1> SUFFICES ASSUME OptionsInit PROVE OptionsTypeOK
    OBVIOUS
  <1> USE OptionNames DEF OptionsInit
  <1>1. DOMAIN val = Options
    OBVIOUS
  <1>2. \A o \in Switches : val[o] \in Value(o)
    <2>1. val["duplex"] = FALSE /\ val["edge"] = FALSE
      OBVIOUS
    <2>2. Value("duplex") = BOOLEAN /\ Value("edge") = BOOLEAN
      BY OptionValues DEF Switches
    <2> QED
      BY <2>1, <2>2 DEF Switches
  <1>3. \A o \in Choices : val[o] \in Value(o)
    BY OptionValues DEF Choices, Lists
  <1>4. \A o \in Quantities : val[o] \in Value(o)
    BY OptionValues DEF Quantities, Corners
  <1>5. geometry \in Model
    BY DEF DefaultModel, Model
  <1>6. \A o \in Options : val[o] \in Value(o)
    BY <1>2, <1>3, <1>4, OptionValues
  <1> QED
    BY <1>1, <1>5, <1>6 DEF OptionsTypeOK

LEMMA OptionsTypeStep == OptionsTypeOK /\ [OptionsNext]_optionVars => OptionsTypeOK'
PROOF
  <1> SUFFICES ASSUME OptionsTypeOK, [OptionsNext]_optionVars PROVE OptionsTypeOK'
    OBVIOUS
  <1> USE OptionNames DEF OptionsTypeOK
  <1>1. CASE Configure
    <2>1. geometry' \in Model
      BY <1>1, OptionsAssumption DEF Configure, DefaultModel, Model
    <2>2. geometry'.width \in Nat /\ geometry'.height \in Nat
      BY <2>1 DEF Model
    <2>3. /\ DOMAIN val' = Options
          /\ val'["tl_x"] = 0 /\ val'["br_x"] = geometry'.width
          /\ val'["tl_y"] = 0 /\ val'["br_y"] = geometry'.height
          /\ \A o \in Options \ Corners : val'[o] = val[o]
      BY <1>1 DEF Configure, Corners
    <2>4. \A o \in Corners : Value(o) = Nat
      BY OptionValues DEF Quantities
    <2>5. \A o \in Corners : val'[o] \in Nat
      BY <2>2, <2>3 DEF Corners
    <2>6. \A o \in Options : val'[o] \in Value(o)
      BY <2>3, <2>4, <2>5
    <2> QED
      BY <1>1, <2>1, <2>3, <2>6 DEF Configure
  <1>2. ASSUME NEW i \in 1 .. Len(OptionList), GetOptionDescriptor(i) PROVE OptionsTypeOK'
    BY <1>2 DEF GetOptionDescriptor, Options
  <1>3. ASSUME NEW o \in Options, SetAuto(o) PROVE OptionsTypeOK'
    <2>1. DOMAIN val' = Options /\ \A p \in Options : val'[p] \in Value(p)
      <3>1. CASE o \in Switches
        <4>1. val' = [val EXCEPT ![o] = TRUE]
          BY <1>3, <3>1 DEF SetAuto
        <4>2. DOMAIN val = Options /\ \A p \in Options : val[p] \in Value(p)
          OBVIOUS
        <4>3. TRUE \in Value(o)
          BY <3>1, OptionValues
        <4>4. ASSUME NEW p \in Options, p # o PROVE val'[p] = val[p]
          BY <4>1, <4>2, <4>4, Zenon
        <4>5. val'[o] = TRUE /\ DOMAIN val' = Options
          BY <4>1, <4>2
        <4> QED BY <4>2, <4>3, <4>4, <4>5, Zenon
      <3>2. CASE o \notin Switches
        BY <1>3, <3>2 DEF SetAuto
      <3> QED
        BY <3>1, <3>2
    <2> QED
      BY <1>3, <2>1 DEF SetAuto
  <1>4. ASSUME NEW o \in Options, NEW v \in Offers[o], SetValue(o, v) PROVE OptionsTypeOK'
    <2>1. v \in Value(o)
      BY OptionsAssumption
    <2>2. DOMAIN val' = Options /\ \A p \in Options : val'[p] \in Value(p)
      BY <1>4, <2>1 DEF SetValue
    <2>3. settable' \subseteq Options
      BY <1>4 DEF SetValue, Switch, SwitchSource, SwitchDuplex, SwitchEdge, Select
    <2>4. liberties' \subseteq {"hard", "auto", "value"}
      BY <1>4 DEF SetValue
    <2> QED
      BY <1>4, <2>2, <2>3, <2>4 DEF SetValue
  <1>5. CASE UNCHANGED optionVars
    BY <1>5 DEF optionVars
  <1> QED
    BY <1>1, <1>2, <1>3, <1>4, <1>5 DEF OptionsNext

\* The values of a frontend that respects the constraints.  The resolution may still be
\* the one the object is constructed with.
ValuesAllowed ==
    "value" \notin liberties =>
        /\ \A o \in Choices : val[o] \in Lists[o]
        /\ val["edgerange"] \in 5 .. 50
        /\ val["resolution"] = 50 \/ (opened /\ val["resolution"] \in Allowed("resolution"))

RequestInv == OptionsTypeOK /\ ValuesAllowed

LEMMA RequestInit == OptionsInit => RequestInv
PROOF
  <1> SUFFICES ASSUME OptionsInit PROVE RequestInv
    OBVIOUS
  <1>1. OptionsTypeOK
    BY OptionsTypeInit
  <1>2. \A o \in Choices : val[o] \in Lists[o]
    BY DEF OptionsInit, Choices, Lists
  <1>3. val["edgerange"] \in 5 .. 50 /\ val["resolution"] = 50
    BY DEF OptionsInit
  <1> QED
    BY <1>1, <1>2, <1>3 DEF RequestInv, ValuesAllowed

\* configure is the only call that moves a range, and comes before any value is set.
LEMMA RequestStep == RequestInv /\ [OptionsNext]_optionVars => RequestInv'
PROOF
  <1> SUFFICES ASSUME RequestInv, [OptionsNext]_optionVars PROVE RequestInv'
    OBVIOUS
  <1> USE OptionNames DEF RequestInv
  <1>1. OptionsTypeOK'
    BY OptionsTypeStep
  <1>d. DOMAIN val = Options
    BY DEF OptionsTypeOK
  <1>a. /\ Choices \cap Corners = {} /\ Choices \subseteq Options
        /\ Choices \cap Switches = {} /\ "edgerange" \notin Choices \cup Switches \cup Corners
        /\ "resolution" \notin Choices \cup Switches \cup Corners
    BY DEF Choices, Corners, Switches
  <1>2. CASE Configure
    <2>1. /\ liberties' = liberties /\ ~opened
          /\ \A o \in Options \ Corners : val'[o] = val[o]
      BY <1>2, <1>d DEF Configure, Corners
    <2>2. "value" \notin liberties => val["resolution"] = 50
      BY <2>1 DEF ValuesAllowed
    <2> QED
      BY <1>1, <1>a, <2>1, <2>2 DEF ValuesAllowed
  <1>3. ASSUME NEW o \in Options, SetAuto(o) PROVE RequestInv'
    <2>1. /\ liberties \subseteq liberties' /\ opened' = opened /\ geometry' = geometry
          /\ \A p \in Options \ Switches : val'[p] = val[p]
      BY <1>3, <1>d DEF SetAuto
    <2> QED
      BY <1>1, <1>a, <2>1 DEF ValuesAllowed, Allowed, Lowest, Highest
  <1>4. ASSUME NEW o \in Options, NEW v \in Offers[o], SetValue(o, v) PROVE RequestInv'
    <2>1. /\ val' = [val EXCEPT ![o] = v] /\ opened /\ opened' /\ geometry' = geometry
          /\ liberties \subseteq liberties' /\ (v \notin Allowed(o) => "value" \in liberties')
      BY <1>4 DEF SetValue, CanControl
    <2>2. Allowed("resolution")' = Allowed("resolution")
      BY <2>1 DEF Allowed, Lowest, Highest
    <2>3. Allowed("edgerange") = 5 .. 50
      BY DEF Allowed, Lowest, Highest, Switches, Choices, Quantities
    <2>4. \A p \in Choices : Allowed(p) = Lists[p]
      BY OptionValues
    <2>5. "value" \notin liberties' => \A p \in Choices : val'[p] \in Lists[p]
      BY <1>a, <1>d, <2>1, <2>4 DEF ValuesAllowed
    <2>6. "value" \notin liberties' => val'["edgerange"] \in 5 .. 50
      BY <1>a, <1>d, <2>1, <2>3 DEF ValuesAllowed
    <2>7. "value" \notin liberties' => \/ val'["resolution"] = 50
                                       \/ opened' /\ val'["resolution"] \in Allowed("resolution")
      BY <1>a, <1>d, <2>1 DEF ValuesAllowed
    <2> QED
      BY <1>1, <2>2, <2>5, <2>6, <2>7 DEF ValuesAllowed
  <1>5. ASSUME NEW i \in 1 .. Len(OptionList), GetOptionDescriptor(i) PROVE RequestInv'
    BY <1>1, <1>5 DEF GetOptionDescriptor, ValuesAllowed, Allowed, Lowest, Highest
  <1>6. CASE UNCHANGED optionVars
    BY <1>1, <1>6 DEF optionVars, ValuesAllowed, Allowed, Lowest, Highest
  <1> QED
    BY <1>2, <1>3, <1>4, <1>5, <1>6 DEF OptionsNext

LEMMA KnownCodes == RequestInv => RequestKnown
PROOF
  <1> SUFFICES ASSUME RequestInv, opened, "value" \notin liberties
               PROVE  /\ Request.src \in 0 .. 2 /\ Request.mode \in 0 .. 2
                      /\ Request.bgelm \in 0 .. 6
                      /\ Request.edger = EdgeCode
                      /\ Request.resolution \in Allowed("resolution") \cup {50}
    BY DEF RequestKnown
  <1>1. /\ val["source"] \in {"auto", "flatbed", "adf"}
        /\ val["mode"] \in {"color", "gray", "bw"}
        /\ val["bgelm"] \in {"0", "1", "2", "3", "4", "5", "6"}
    BY DEF RequestInv, ValuesAllowed, Choices, Lists
  <1>2. SourceCode \in 0 .. 2 /\ ModeCode \in 0 .. 2
    BY <1>1 DEF SourceCode, ModeCode
  <1>3. LevelCode \in 0 .. 6
    <2>1. \E n \in 0 .. 6 : Levels[n + 1] = val["bgelm"]
      <3>1. /\ Levels[0 + 1] = "0" /\ Levels[1 + 1] = "1" /\ Levels[2 + 1] = "2"
            /\ Levels[3 + 1] = "3" /\ Levels[4 + 1] = "4" /\ Levels[5 + 1] = "5"
            /\ Levels[6 + 1] = "6"
        BY DEF Levels
      <3> QED
        BY <1>1, <3>1
    <2> QED
      BY <2>1 DEF LevelCode
  <1>4. EdgeCode \in 0 .. 50
    BY DEF EdgeCode, RequestInv, ValuesAllowed
  <1>5. /\ Request.src = SourceCode % 8 /\ Request.mode = ModeCode % 16
        /\ Request.bgelm = LevelCode % 8 /\ Request.edger = EdgeCode % 128
        /\ Request.resolution = val["resolution"]
    BY DEF Request
  <1>6. /\ SourceCode % 8 = SourceCode /\ ModeCode % 16 = ModeCode
        /\ LevelCode % 8 = LevelCode /\ EdgeCode % 128 = EdgeCode
    BY <1>2, <1>3, <1>4
  <1>7. val["resolution"] \in Allowed("resolution") \cup {50}
    BY DEF RequestInv, ValuesAllowed
  <1> QED
    BY <1>2, <1>3, <1>5, <1>6, <1>7

\* A line of any width has room for its pixels.
LEMMA LineFits ==
  ASSUME NEW w \in Int, NEW h, NEW mode \in 0 .. 2
  PROVE  LET p == Parameters(mode, w, h) IN
         /\ p.pixels_per_line = w
         /\ p.bytes_per_line * 8 >= w * p.depth * (IF mode = 0 THEN 3 ELSE 1)
PROOF
  <1>1. CASE mode = 0
    BY <1>1 DEF Parameters
  <1>2. CASE mode = 1
    BY <1>2 DEF Parameters
  <1>3. CASE mode = 2
    <2>1. Parameters(mode, w, h).bytes_per_line = (w + 7) \div 8
      BY <1>3 DEF Parameters
    <2>2. Parameters(mode, w, h).depth = 1 /\ Parameters(mode, w, h).pixels_per_line = w
      BY <1>3 DEF Parameters
    <2>3. ((w + 7) \div 8) * 8 >= w
      OBVIOUS
    <2> QED
      BY <1>3, <2>1, <2>2, <2>3
  <1> QED
    BY <1>1, <1>2, <1>3

LEMMA PredictionsFit == OptionsTypeOK => PredictionFits
PROOF
  <1> SUFFICES ASSUME OptionsTypeOK, ModeCode >= 0
               PROVE  /\ GetParameters.pixels_per_line
                            = MM2Pixel(Request.resolution, Request.area.width)
                      /\ GetParameters.bytes_per_line * 8 >=
                            GetParameters.pixels_per_line * GetParameters.depth
                                * (IF Request.mode = 0 THEN 3 ELSE 1)
    BY DEF PredictionFits
  <1> DEFINE w == MM2Pixel(val["resolution"], Area.width)
  <1>1. ModeCode \in 0 .. 2
    BY DEF ModeCode
  <1>2. w \in Int
    <2>1. /\ val["resolution"] \in Nat /\ val["tl_x"] \in Nat /\ val["br_x"] \in Nat
      BY OptionNames, OptionValues DEF OptionsTypeOK, Quantities, Corners
    <2>2. Area.width \in Int
      BY <2>1 DEF Area, Upper, Lower
    <2>3. val["resolution"] * Area.width \in Int
      BY <2>1, <2>2
    <2> QED
      BY <2>3 DEF MM2Pixel
  <1>3. GetParameters = Parameters(ModeCode, w, w)
    BY <1>1 DEF GetParameters
  <1>4. /\ Request.mode = ModeCode % 16 /\ Request.resolution = val["resolution"]
        /\ Request.area = Area
    BY DEF Request
  <1>5. ModeCode % 16 = ModeCode
    BY <1>1
  <1> HIDE DEF w
  <1>6. /\ GetParameters.pixels_per_line = w
        /\ GetParameters.bytes_per_line * 8 >= w * GetParameters.depth * (IF ModeCode = 0 THEN 3 ELSE 1)
    BY <1>1, <1>2, <1>3, LineFits
  <1> QED
    BY <1>4, <1>5, <1>6 DEF w

\* For every model.  As long as the frontend keeps to the constraints, the request holds
\* codes that exist and a resolution in the range of the device, or the 50 that the
\* option starts with, in the range or not.  Whatever it sets, the parameters predicted
\* for a request of a known mode have its pixels per line and room for them.
THEOREM RequestsFit == OptionsSpec => []RequestFits
PROOF
  <1>1. RequestInv => RequestFits
    BY KnownCodes, PredictionsFit DEF RequestInv, RequestFits
  <1> QED
    BY RequestInit, RequestStep, <1>1, PTL DEF OptionsSpec

-----------------------------------------------------------------------------
(* What the frontend is told                                               *)

\* The parameters depend on nothing but the mode, the resolution and the corners.
LEMMA ParametersDependOn ==
  ASSUME \A o \in {"mode", "resolution"} \cup Corners : val'[o] = val[o]
  PROVE  GetParameters' = GetParameters
PROOF
  <1>1. ModeCode' = ModeCode
    BY DEF ModeCode
  <1>2. Area' = Area
    BY DEF Area, Lower, Upper, Corners
  <1> QED
    BY <1>1, <1>2 DEF GetParameters

\* No call changes the capabilities or the parameters behind the frontend's back: the
\* automatic setting, which sets a switch without what hangs on it, included.
THEOREM ChangesAreAnnounced == OptionsSpec => Announced
PROOF
  <1>1. ASSUME OptionsTypeOK, [OptionsNext]_optionVars, settable' # settable
        PROVE  \E o \in Options : \E v \in Offers[o] :
                   SetValue(o, v) /\ "RELOAD_OPTIONS" \in Info(o)
    <2>1. PICK o \in Options : \E v \in Offers[o] : SetValue(o, v)
      BY <1>1 DEF OptionsNext, Configure, GetOptionDescriptor, SetAuto, optionVars
    <2>2. o \in {"source", "duplex", "edge"}
      BY <1>1, <2>1 DEF SetValue, Switch
    <2>3. "RELOAD_OPTIONS" \in Info(o)
      BY <2>2 DEF Info, Switches, Corners
    <2> QED
      BY <2>1, <2>3
  <1>2. ASSUME OptionsTypeOK, [OptionsNext]_optionVars, opened, GetParameters' # GetParameters
        PROVE  \E o \in Options : \E v \in Offers[o] :
                   SetValue(o, v) /\ "RELOAD_PARAMS" \in Info(o)
    <2> USE OptionNames
    <2>1. DOMAIN val = Options
      BY <1>2 DEF OptionsTypeOK
    <2>2. ~ \A o \in {"mode", "resolution"} \cup Corners : val'[o] = val[o]
      BY <1>2, ParametersDependOn
    <2>3. PICK o \in Options : \E v \in Offers[o] : SetValue(o, v)
      <3>1. ASSUME NEW o \in Options, SetAuto(o) PROVE FALSE
        BY <2>1, <2>2, <3>1 DEF SetAuto, Switches, Corners
      <3> QED
        BY <1>2, <2>2, <3>1 DEF OptionsNext, Configure, GetOptionDescriptor, optionVars
    <2>4. o \in {"mode", "resolution"} \cup Corners
      BY <2>1, <2>2, <2>3 DEF SetValue
    <2>5. "RELOAD_PARAMS" \in Info(o)
      BY <2>4 DEF Info, Switches, Corners
    <2> QED
      BY <2>3, <2>5
  <1>3. OptionsSpec => []OptionsTypeOK
    BY OptionsTypeInit, OptionsTypeStep, PTL DEF OptionsSpec
  <1>4. OptionsSpec => ChangesAnnounced
    BY <1>1, <1>3, PTL DEF OptionsSpec, ChangesAnnounced
  <1>5. OptionsSpec => ParamsAnnounced
    BY <1>2, <1>3, PTL DEF OptionsSpec, ParamsAnnounced
  <1> QED
    BY <1>4, <1>5 DEF Announced
=============================================================================
