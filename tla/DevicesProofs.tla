----------------------------- MODULE DevicesProofs -----------------------------
(***************************************************************************)
(* Proofs about the ways to a scanner: the table of USB devices (SaneiUsb),*)
(* the queue of SCSI commands and the device files (Scsi), the parallel    *)
(* ports (Pa4s2, Pp, Pio) and the registers of the LM983x chip (Lm983x),   *)
(* for any devices, kinds, backends, adapters, ports, scanners, hardware,  *)
(* users, bytes, registers and sizes of transfers.                         *)
(***************************************************************************)
EXTENDS Devices, FiniteSetTheorems, FunctionTheorems, TLAPS

-----------------------------------------------------------------------------
(* Loops.  A loop of the code is a function from the number of turns to    *)
(* what is left after them; what follows gives such a function its values, *)
(* and takes an invariant of the loop from one turn to the next.           *)

\* Induction over the numbers, as the induction over the finite sets 1 .. n.
LEMMA NatSetInduction ==
    ASSUME NEW S, 0 \in S, \A n \in Nat : n \in S => n + 1 \in S
    PROVE  Nat \subseteq S
<1> SUFFICES ASSUME Nat \ S # {} PROVE FALSE
    OBVIOUS
<1> DEFINE T == {1 .. n : n \in Nat \ S}
<1>1. T \subseteq FiniteSubsetsOf(Nat) /\ T # {}
  <2>1. ASSUME NEW n \in Nat PROVE (1 .. n) \in FiniteSubsetsOf(Nat)
    <3>1. IsFiniteSet(1 .. n)
          BY FS_Interval
    <3>2. (1 .. n) \subseteq Nat
          OBVIOUS
    <3> QED BY <3>1, <3>2 DEF FiniteSubsetsOf
  <2> QED BY <2>1
<1>2. IsWellFoundedOn(StrictSubsetOrdering(Nat), FiniteSubsetsOf(Nat))
      BY FS_StrictSubsetOrderingWellFounded
<1> HIDE DEF T
<1>3. PICK x \in T : \A y \in T : <<y, x>> \notin StrictSubsetOrdering(Nat)
      BY <1>1, <1>2, WFMin
<1>4. PICK n \in Nat \ S : x = 1 .. n
      BY DEF T
<1>5. n # 0 /\ n - 1 \in Nat \ S
      OBVIOUS
<1>6. (1 .. (n - 1)) \in T
      BY <1>5 DEF T
<1>7. <<1 .. (n - 1), 1 .. n>> \in StrictSubsetOrdering(Nat)
  <2>1. n \in 1 .. n /\ n \notin 1 .. (n - 1)
        BY <1>5
  <2>2. (1 .. (n - 1)) \subseteq 1 .. n
        OBVIOUS
  <2> QED BY <2>1, <2>2, <1>5 DEF StrictSubsetOrdering
<1> QED BY <1>3, <1>4, <1>6, <1>7

LEMMA UpTo ==
    ASSUME NEW n \in Nat, NEW S, 0 \in S, \A i \in 0 .. n - 1 : i \in S => i + 1 \in S
    PROVE  0 .. n \subseteq S
<1> DEFINE T == {i \in Nat : i <= n => i \in S}
<1>1. 0 \in T /\ \A i \in Nat : i \in T => i + 1 \in T
      OBVIOUS
<1> HIDE DEF T
<1>2. Nat \subseteq T
      BY <1>1, NatSetInduction
<1> QED BY <1>2 DEF T

Follows(g, n, D, a, F) == g \in [0 .. n -> D] /\ g[0] = a /\ \A i \in 1 .. n : g[i] = F[i][g[i - 1]]

\* A function that is defined by its value at 0 and from each place to the next.
LEMMA StepByStep ==
    ASSUME NEW n \in Nat, NEW D, NEW a \in D, NEW F \in [1 .. n -> [D -> D]]
    PROVE  \E g : Follows(g, n, D, a, F)
<1> DEFINE Up(k, g) == g \in [0 .. k -> D] /\ g[0] = a /\ \A i \in 1 .. k : g[i] = F[i][g[i - 1]]
           S == {k \in 0 .. n : \E g \in [0 .. k -> D] : Up(k, g)}
<1>1. 0 \in S
  <2>1. [i \in 0 .. 0 |-> a] \in [0 .. 0 -> D] /\ Up(0, [i \in 0 .. 0 |-> a])
        OBVIOUS
  <2> HIDE DEF Up
  <2>2. \E g \in [0 .. 0 -> D] : Up(0, g)
        BY <2>1
  <2> QED BY <2>2
<1>2. ASSUME NEW k \in 0 .. n - 1, k \in S PROVE k + 1 \in S
  <2>1. PICK g \in [0 .. k -> D] : Up(k, g)
        BY <1>2
  <2> DEFINE v == F[k + 1][g[k]]
             h == [i \in 0 .. k + 1 |-> IF i = k + 1 THEN v ELSE g[i]]
  <2>2. v \in D
    <3>1. F[k + 1] \in [D -> D] /\ g[k] \in D
          OBVIOUS
    <3> QED BY <3>1
  <2> HIDE DEF v
  <2>3. h \in [0 .. k + 1 -> D] /\ h[0] = a
        BY <2>1, <2>2
  <2>4. ASSUME NEW i \in 1 .. k + 1 PROVE h[i] = F[i][h[i - 1]]
    <3>1. CASE i = k + 1
      <4>1. h[i] = v /\ h[i - 1] = g[k]
            BY <3>1
      <4> QED BY <4>1, <3>1 DEF v
    <3>2. CASE i # k + 1
      <4>1. h[i] = g[i] /\ h[i - 1] = g[i - 1] /\ i \in 1 .. k
            BY <3>2
      <4> QED BY <4>1, <2>1
    <3> QED BY <3>1, <3>2
  <2> HIDE DEF h
  <2>5. Up(k + 1, h)
        BY <2>3, <2>4
  <2> HIDE DEF Up
  <2> QED BY <2>3, <2>5
<1> HIDE DEF S
<1>3. n \in S
  <2>1. \A i \in 0 .. n - 1 : i \in S => i + 1 \in S
        BY <1>2
  <2>2. 0 .. n \subseteq S
        BY <1>1, <2>1, UpTo
  <2> QED BY <2>2
<1>4. PICK g \in [0 .. n -> D] : Up(n, g)
      BY <1>3 DEF S
<1> QED BY <1>4 DEF Follows

\* The largest and the smallest of some numbers.
LEMMA SomeLargest ==
    ASSUME NEW n \in Nat, NEW S \in SUBSET (0 .. n), S # {}
    PROVE  \E x \in S : \A y \in S : x >= y
<1> SUFFICES ASSUME \A x \in S : \E y \in S : y > x PROVE FALSE
    OBVIOUS
<1> DEFINE T == {k \in Nat : \E x \in S : x >= k}
<1>1. 0 \in T /\ \A k \in Nat : k \in T => k + 1 \in T
  <2>1. 0 \in T
    <3>1. PICK x \in S : x \in 0 .. n
          OBVIOUS
    <3> QED BY <3>1
  <2>2. ASSUME NEW k \in Nat, k \in T PROVE k + 1 \in T
    <3>1. PICK x \in S : x >= k
          BY <2>2
    <3>2. PICK y \in S : y > x
          OBVIOUS
    <3>3. x \in Nat /\ y \in Nat
          OBVIOUS
    <3> QED BY <3>1, <3>2, <3>3
  <2> QED BY <2>1, <2>2
<1> HIDE DEF T
<1>2. n + 1 \in T
      BY <1>1, NatSetInduction
<1> QED BY <1>2 DEF T

LEMMA SomeSmallest ==
    ASSUME NEW S \in SUBSET Nat, S # {}
    PROVE  \E x \in S : \A y \in S : x <= y
<1> SUFFICES ASSUME \A x \in S : \E y \in S : y < x PROVE FALSE
    OBVIOUS
<1> DEFINE T == {k \in Nat : \A x \in S : x >= k}
<1>1. 0 \in T /\ \A k \in Nat : k \in T => k + 1 \in T
  <2>1. 0 \in T
        OBVIOUS
  <2>2. ASSUME NEW k \in Nat, k \in T PROVE k + 1 \in T
    <3>1. ASSUME NEW x \in S, x = k PROVE FALSE
          BY <2>2, <3>1
    <3> QED BY <2>2, <3>1
  <2> QED BY <2>1, <2>2
<1> HIDE DEF T
<1>2. \A k \in Nat : k \in T
      BY <1>1, NatSetInduction
<1>3. \A x \in S : x + 1 \in T
      BY <1>2
<1>4. PICK x \in S : TRUE
      OBVIOUS
<1>5. x >= x + 1 /\ x \in Nat
      BY <1>3 DEF T
<1> QED BY <1>5

-----------------------------------------------------------------------------
(* sanei_usb.c.                                                            *)

SlotRec == [devname : Addrs, id : Kinds, missing : 0 .. 2, open : BOOLEAN, live : BOOLEAN,
            ep : [EpTypes -> Nat]]

\* An endpoint of a slot is none, one the backend has set, or the first of its type.
EpKept(s) ==
    \A t \in EpTypes :
      \/ s.ep[t] \in {0, SetAddr}
      \/ \E i \in DOMAIN EndpointSeq[s.id] :
            /\ EndpointSeq[s.id][i] = [type |-> t, addr |-> s.ep[t]]
            /\ \A j \in 1 .. i - 1 : EndpointSeq[s.id][j].type # t

\* A table with one slot for each device, of which one for each name is there.
Table(T) ==
    /\ T \in Seq(SlotRec)
    /\ \A d \in DOMAIN T : EpKept(T[d])
    /\ \A d, e \in DOMAIN T : T[d].devname = T[e].devname /\ T[d].id = T[e].id => d = e

Present(T) == \A d, e \in DOMAIN T : T[d].devname = T[e].devname /\ T[d].missing = 0 /\ T[e].missing = 0 => d = e

\* In the middle of a scan: a slot that was seen in the scan before is the one of its
\* device, and one that is still open was open.
MidScan(T) ==
    /\ Table(T) /\ Len(devices) <= Len(T)
    /\ \A d \in DOMAIN T : T[d].missing = 0 => T[d].id = bus[T[d].devname]
    /\ \A d \in Dns :
         /\ devices[d].missing = 0 =>
              T[d].missing <= 1 /\ T[d].devname = devices[d].devname /\ T[d].id = devices[d].id
         /\ T[d].open => /\ devices[d].open /\ T[d].live = devices[d].live
                         /\ T[d].devname = devices[d].devname /\ T[d].id = devices[d].id

UsbInv ==
    /\ bus \in [Addrs -> Kinds \cup {Gone}]
    /\ Table(devices) /\ Present(devices)
    /\ user \in [Backends -> [dn : Nat, name : Addrs \cup {"none"}, id : Kinds \cup {"none"}]]
    /\ \A b \in Backends : user[b] # NoDn => user[b].dn \in Dns
    /\ SlotIsMine
    /\ claimed \subseteq Dns /\ ClaimedIsOpen /\ NotHaltedTwice

LEMMA MinOf == ASSUME NEW S \in SUBSET Nat, S # {} PROVE Min(S) \in S /\ \A y \in S : Min(S) <= y
BY SomeSmallest DEF Min

LEMMA MaxOf == ASSUME NEW n \in Nat, NEW S \in SUBSET (0 .. n), S # {} PROVE Max(S) \in S
BY SomeLargest DEF Max

LEMMA NewSlot == ASSUME NEW a \in Addrs, NEW k \in Kinds
                 PROVE  Slot(a, k) \in SlotRec /\ EpKept(Slot(a, k))
<1>1. Slot(a, k) \in SlotRec
      BY DEF Slot, SlotRec, NoEndpoints
<1>2. \A t \in EpTypes : Slot(a, k).ep[t] = 0
      BY DEF Slot, NoEndpoints
<1> QED BY <1>1, <1>2 DEF EpKept

LEMMA MissingRange == ASSUME NEW x \in SlotRec PROVE x.missing \in 0 .. 2
<1> DEFINE N == 0 .. 2
<1>1. x \in [devname : Addrs, id : Kinds, missing : N, open : BOOLEAN, live : BOOLEAN, ep : [EpTypes -> Nat]]
      BY DEF SlotRec
<1> HIDE DEF N
<1>2. x.missing \in N
      BY <1>1
<1> QED BY <1>2 DEF N

LEMMA MissingSet ==
    ASSUME NEW x \in SlotRec, NEW n \in 0 .. 2
    PROVE  /\ [x EXCEPT !.missing = n] \in SlotRec
           /\ [x EXCEPT !.missing = n].devname = x.devname /\ [x EXCEPT !.missing = n].id = x.id
           /\ [x EXCEPT !.missing = n].open = x.open /\ [x EXCEPT !.missing = n].live = x.live
           /\ [x EXCEPT !.missing = n].ep = x.ep /\ [x EXCEPT !.missing = n].missing = n
<1> DEFINE N == 0 .. 2
<1>1. x \in [devname : Addrs, id : Kinds, missing : N, open : BOOLEAN, live : BOOLEAN, ep : [EpTypes -> Nat]]
      BY DEF SlotRec
<1>2. n \in N
      OBVIOUS
<1> HIDE DEF N
<1>3. [x EXCEPT !.missing = n] \in
          [devname : Addrs, id : Kinds, missing : N, open : BOOLEAN, live : BOOLEAN, ep : [EpTypes -> Nat]]
      BY <1>1, <1>2
<1> QED BY <1>1, <1>3 DEF SlotRec, N

\* store_device (sanei_usb.c:321-374) keeps the table.
LEMMA StoreKeeps ==
    ASSUME NEW T, MidScan(T), NEW a \in Addrs, bus[a] \in Kinds, devices \in Seq(SlotRec)
    PROVE  MidScan(StoreDevice(T, a))
<1> DEFINE same == {d \in DOMAIN T : T[d].devname = a /\ T[d].id = bus[a]}
           old == {d \in DOMAIN T : T[d].missing >= 2}
           new == Slot(a, bus[a])
           R == StoreDevice(T, a)
<1> SUFFICES MidScan(R)
    OBVIOUS
<1>1. T \in Seq(SlotRec) /\ DOMAIN T = 1 .. Len(T) /\ Len(T) \in Nat
      BY DEF MidScan, Table
<1>t. \A d \in DOMAIN T : T[d] \in SlotRec
      BY <1>1
<1>u. \A d \in Dns : d \in DOMAIN T
      BY <1>1 DEF MidScan, Dns
<1>2. new \in SlotRec /\ EpKept(new) /\ new.devname = a /\ new.id = bus[a] /\ new.missing = 0 /\ new.open = FALSE
      BY NewSlot DEF Slot
<1> HIDE DEF new
<1>3. CASE same # {}
  <2> DEFINE m == Min(same)
             s == [T[m] EXCEPT !.missing = 0]
  <2>1. m \in DOMAIN T /\ T[m].devname = a /\ T[m].id = bus[a]
    <3>1. same \in SUBSET Nat
          BY <1>1
    <3> QED BY <3>1, <1>3, MinOf
  <2>2. R = [T EXCEPT ![m] = s]
        BY <1>3 DEF StoreDevice
  <2> HIDE DEF m, R
  <2>3. /\ s \in SlotRec /\ s.devname = T[m].devname /\ s.id = T[m].id /\ s.open = T[m].open
        /\ s.live = T[m].live /\ s.ep = T[m].ep /\ s.missing = 0
    <3>1. T[m] \in SlotRec
          BY <2>1, <1>t
    <3> QED BY <3>1, MissingSet, 0 \in 0 .. 2
  <2> HIDE DEF s
  <2>4. /\ R \in Seq(SlotRec) /\ DOMAIN R = DOMAIN T /\ Len(R) = Len(T) /\ R[m] = s
        /\ \A d \in DOMAIN T : d # m => R[d] = T[d]
        BY <1>1, <2>1, <2>2, <2>3
  <2>5. \A d \in DOMAIN T : /\ R[d].devname = T[d].devname /\ R[d].id = T[d].id /\ R[d].open = T[d].open
                            /\ R[d].live = T[d].live /\ R[d].ep = T[d].ep
                            /\ R[d].missing = IF d = m THEN 0 ELSE T[d].missing
        BY <2>3, <2>4
  <2>6. Table(R)
    <3>1. ASSUME NEW d \in DOMAIN R PROVE EpKept(R[d])
      <4>1. EpKept(T[d]) /\ R[d].ep = T[d].ep /\ R[d].id = T[d].id
            BY <2>4, <2>5 DEF MidScan, Table
      <4> QED BY <4>1 DEF EpKept
    <3>2. \A d, e \in DOMAIN R : R[d].devname = R[e].devname /\ R[d].id = R[e].id => d = e
          BY <2>4, <2>5 DEF MidScan, Table
    <3> QED BY <2>4, <3>1, <3>2 DEF Table
  <2>7. \A d \in DOMAIN R : R[d].missing = 0 => R[d].id = bus[R[d].devname]
        BY <2>1, <2>4, <2>5 DEF MidScan
  <2>8. ASSUME NEW d \in Dns
        PROVE  /\ devices[d].missing = 0 =>
                    R[d].missing <= 1 /\ R[d].devname = devices[d].devname /\ R[d].id = devices[d].id
               /\ R[d].open => /\ devices[d].open /\ R[d].live = devices[d].live
                               /\ R[d].devname = devices[d].devname /\ R[d].id = devices[d].id
    <3>1. d \in DOMAIN T
          BY <1>u
    <3>2. /\ R[d].devname = T[d].devname /\ R[d].id = T[d].id /\ R[d].open = T[d].open
          /\ R[d].live = T[d].live /\ (R[d].missing = 0 \/ R[d].missing = T[d].missing)
          BY <2>5, <3>1
    <3> QED BY <3>1, <3>2 DEF MidScan
  <2> QED BY <2>4, <2>6, <2>7, <2>8 DEF MidScan
<1>4. CASE same = {} /\ old # {}
  <2> DEFINE m == Max(old)
  <2>1. m \in DOMAIN T /\ T[m].missing >= 2
    <3>1. old \in SUBSET (0 .. Len(T))
          BY <1>1
    <3> QED BY <3>1, <1>1, <1>4, MaxOf
  <2>2. R = [T EXCEPT ![m] = new]
        BY <1>4 DEF StoreDevice, new
  <2> HIDE DEF m, R
  <2>3. /\ R \in Seq(SlotRec) /\ DOMAIN R = DOMAIN T /\ Len(R) = Len(T) /\ R[m] = new
        /\ \A d \in DOMAIN T : d # m => R[d] = T[d]
        BY <1>1, <1>2, <2>1, <2>2
  <2>4. Table(R)
    <3>1. \A d \in DOMAIN R : EpKept(R[d])
          BY <1>2, <2>3 DEF MidScan, Table
    <3>2. \A d \in DOMAIN T : ~(T[d].devname = a /\ T[d].id = bus[a])
          BY <1>4
    <3>3. ASSUME NEW d \in DOMAIN R, NEW e \in DOMAIN R, R[d].devname = R[e].devname, R[d].id = R[e].id, d # e
          PROVE  FALSE
      <4>1. CASE d # m /\ e # m
            BY <4>1, <3>3, <2>3 DEF MidScan, Table
      <4>2. CASE d = m \/ e = m
            BY <4>2, <3>2, <3>3, <2>3, <1>2
      <4> QED BY <4>1, <4>2
    <3> QED BY <2>3, <3>1, <3>3 DEF Table
  <2>5. \A d \in DOMAIN R : R[d].missing = 0 => R[d].id = bus[R[d].devname]
        BY <1>2, <2>1, <2>3 DEF MidScan
  <2>6. T[m].missing \in 0 .. 2
        BY <1>t, <2>1 DEF SlotRec
  <2>7. ASSUME NEW d \in Dns
        PROVE  /\ devices[d].missing = 0 =>
                    R[d].missing <= 1 /\ R[d].devname = devices[d].devname /\ R[d].id = devices[d].id
               /\ R[d].open => /\ devices[d].open /\ R[d].live = devices[d].live
                               /\ R[d].devname = devices[d].devname /\ R[d].id = devices[d].id
    <3>1. d \in DOMAIN T
          BY <1>u
    <3>2. CASE d = m
          BY <3>2, <1>2, <2>1, <2>3, <2>6 DEF MidScan
    <3>3. CASE d # m
          BY <3>1, <3>3, <2>3 DEF MidScan
    <3> QED BY <3>2, <3>3
  <2>8. Len(devices) <= Len(R)
        BY <2>3 DEF MidScan
  <2> QED BY <2>4, <2>5, <2>7, <2>8 DEF MidScan
<1>5. CASE same = {} /\ old = {} /\ Len(T) >= MaxDevices
      BY <1>5 DEF StoreDevice
<1>6. CASE same = {} /\ old = {} /\ ~(Len(T) >= MaxDevices)
  <2>1. R = Append(T, new)
        BY <1>6 DEF StoreDevice, new
  <2> HIDE DEF R
  <2>2. /\ R \in Seq(SlotRec) /\ DOMAIN R = 1 .. Len(T) + 1 /\ Len(R) = Len(T) + 1 /\ R[Len(T) + 1] = new
        /\ \A d \in DOMAIN T : R[d] = T[d]
        BY <1>1, <1>2, <2>1
  <2>3. \A d \in DOMAIN R : d \in DOMAIN T \/ d = Len(T) + 1
        BY <1>1, <2>2
  <2>4. Table(R)
        BY <1>2, <1>6, <2>2, <2>3 DEF MidScan, Table
  <2>5. \A d \in DOMAIN R : R[d].missing = 0 => R[d].id = bus[R[d].devname]
        BY <1>2, <2>2, <2>3 DEF MidScan
  <2>6. \A d \in Dns : R[d] = T[d]
        BY <1>u, <2>2
  <2>7. Len(devices) \in Nat /\ Len(devices) <= Len(R)
        BY <1>1, <2>2 DEF MidScan
  <2>8. ASSUME NEW d \in Dns
        PROVE  /\ devices[d].missing = 0 =>
                    R[d].missing <= 1 /\ R[d].devname = devices[d].devname /\ R[d].id = devices[d].id
               /\ R[d].open => /\ devices[d].open /\ R[d].live = devices[d].live
                               /\ R[d].devname = devices[d].devname /\ R[d].id = devices[d].id
        BY <2>6 DEF MidScan
  <2> QED BY <2>4, <2>5, <2>7, <2>8 DEF MidScan
<1> QED BY <1>3, <1>4, <1>5, <1>6

\* A scan keeps the table.
LEMMA ScanKeeps ==
    ASSUME UsbInv, NEW order \in Seq(Addrs), \A i \in DOMAIN order : bus[order[i]] \in Kinds
    PROVE  MidScan(Scanned(order))
<1> DEFINE n == Len(order)
           D == {T \in Seq(SlotRec) : MidScan(T)}
           F == [i \in 1 .. n |-> [T \in D |-> StoreDevice(T, order[i])]]
           Is(f) == f = [i \in 0 .. n |-> IF i = 0 THEN Marked ELSE StoreDevice(f[i - 1], order[i])]
           table == CHOOSE f : Is(f)
<1>0. n \in Nat /\ devices \in Seq(SlotRec) /\ DOMAIN order = 1 .. n
      BY DEF UsbInv, Table
<1>1. Marked \in D
  <2>1. /\ Marked \in Seq(SlotRec) /\ DOMAIN Marked = Dns /\ Len(Marked) = Len(devices)
        /\ \A d \in Dns : /\ Marked[d].devname = devices[d].devname /\ Marked[d].id = devices[d].id
                           /\ Marked[d].open = devices[d].open /\ Marked[d].live = devices[d].live
                           /\ Marked[d].ep = devices[d].ep
                           /\ Marked[d].missing = IF devices[d].missing < 2 THEN devices[d].missing + 1 ELSE 2
    <3> DEFINE up(d) == IF devices[d].missing < 2 THEN devices[d].missing + 1 ELSE devices[d].missing
    <3>1. ASSUME NEW d \in Dns PROVE devices[d] \in SlotRec /\ devices[d].missing \in 0 .. 2
          BY <1>0, MissingRange DEF Dns
    <3>2. ASSUME NEW d \in Dns
          PROVE  up(d) \in 0 .. 2 /\ up(d) = IF devices[d].missing < 2 THEN devices[d].missing + 1 ELSE 2
          BY <3>1
    <3>3. Marked = [d \in Dns |-> [devices[d] EXCEPT !.missing = up(d)]]
          BY DEF Marked
    <3> HIDE DEF up
    <3>4. \A d \in Dns : Marked[d] \in SlotRec
          BY <3>1, <3>2, <3>3, MissingSet
    <3>5. DOMAIN Marked = Dns /\ Dns = 1 .. Len(devices) /\ Len(devices) \in Nat
          BY <1>0, <3>3 DEF Dns
    <3>6. Marked \in [1 .. Len(devices) -> SlotRec]
      <4>1. Marked = [d \in 1 .. Len(devices) |-> Marked[d]]
            BY <3>3, <3>5
      <4> QED BY <3>4, <3>5, <4>1
    <3>7. Marked \in Seq(SlotRec) /\ Len(Marked) = Len(devices)
          BY <3>5, <3>6
    <3>8. ASSUME NEW d \in Dns
          PROVE  /\ Marked[d].devname = devices[d].devname /\ Marked[d].id = devices[d].id
                 /\ Marked[d].open = devices[d].open /\ Marked[d].live = devices[d].live
                 /\ Marked[d].ep = devices[d].ep /\ Marked[d].missing = up(d)
      <4>1. Marked[d] = [devices[d] EXCEPT !.missing = up(d)]
            BY <3>3
      <4> QED BY <3>1, <3>2, <4>1, MissingSet
    <3> QED BY <3>2, <3>5, <3>7, <3>8
  <2>2. Table(Marked)
    <3>1. ASSUME NEW d \in DOMAIN Marked PROVE EpKept(Marked[d])
      <4>1. EpKept(devices[d]) /\ Marked[d].ep = devices[d].ep /\ Marked[d].id = devices[d].id
            BY <2>1 DEF UsbInv, Table, Dns
      <4> QED BY <4>1 DEF EpKept
    <3>2. \A d, e \in DOMAIN Marked : Marked[d].devname = Marked[e].devname /\ Marked[d].id = Marked[e].id => d = e
          BY <2>1 DEF UsbInv, Table, Dns
    <3> QED BY <2>1, <3>1, <3>2 DEF Table
  <2>3. \A d \in Dns : Marked[d].missing # 0 /\ (devices[d].missing = 0 => Marked[d].missing <= 1)
    <3>1. ASSUME NEW d \in Dns PROVE devices[d].missing \in 0 .. 2
          BY <1>0, MissingRange DEF Dns
    <3> QED BY <2>1, <3>1
  <2>4. MidScan(Marked)
        BY <1>0, <2>1, <2>2, <2>3 DEF MidScan
  <2> QED BY <2>1, <2>4
<1>2. ASSUME NEW T \in D, NEW i \in 1 .. n PROVE StoreDevice(T, order[i]) \in D
  <2>1. order[i] \in Addrs /\ bus[order[i]] \in Kinds
        BY <1>0
  <2>2. MidScan(StoreDevice(T, order[i]))
        BY <1>0, <2>1, StoreKeeps
  <2> QED BY <2>2 DEF MidScan, Table
<1>3. F \in [1 .. n -> [D -> D]]
      BY <1>2
<1> HIDE DEF D
<1>4. PICK g : Follows(g, n, D, Marked, F)
  <2> HIDE DEF F, n
  <2>1. n \in Nat /\ Marked \in D /\ F \in [1 .. n -> [D -> D]]
        BY <1>0, <1>1, <1>3
  <2> QED BY <2>1, StepByStep
<1>5. Is(g)
  <2>1. DOMAIN g = 0 .. n /\ g = [i \in 0 .. n |-> g[i]]
        BY <1>4 DEF Follows
  <2>2. \A i \in 0 .. n : g[i] = IF i = 0 THEN Marked ELSE StoreDevice(g[i - 1], order[i])
    <3>1. ASSUME NEW i \in 0 .. n, i # 0 PROVE g[i] = StoreDevice(g[i - 1], order[i])
      <4>1. i \in 1 .. n /\ g[i - 1] \in D
            BY <3>1, <1>0, <1>4 DEF Follows
      <4> QED BY <1>4, <3>1, <4>1 DEF Follows
    <3>2. g[0] = Marked
          BY <1>4 DEF Follows
    <3> QED BY <3>1, <3>2
  <2> QED BY <2>1, <2>2
<1>6. Is(table)
  <2> HIDE DEF Is
  <2> QED BY <1>5
<1>7. Scanned(order) = table[n]
      BY DEF Scanned
<1> HIDE DEF table, n
<1>8. n \in Nat /\ table[0] = Marked /\ \A i \in 1 .. n : table[i] = StoreDevice(table[i - 1], order[i])
      BY <1>0, <1>6
<1> DEFINE S == {i \in 0 .. n : table[i] \in D}
<1>9. 0 \in S
      BY <1>1, <1>8
<1>10. ASSUME NEW i \in 0 .. n - 1, i \in S PROVE i + 1 \in S
  <2>1. i + 1 \in 1 .. n /\ table[i + 1] = StoreDevice(table[i], order[i + 1])
        BY <1>8
  <2>2. table[i] \in D
        BY <1>10
  <2> QED BY <1>2, <2>1, <2>2
<1> HIDE DEF S
<1>11. n \in S
  <2>1. 0 .. n \subseteq S
        BY <1>8, <1>9, <1>10, UpTo
  <2> QED BY <1>8, <2>1
<1> QED BY <1>7, <1>11 DEF S, D

\* What a scan finds: devices that are plugged in.
LEMMA ScanFinds ==
    ASSUME UsbInv, NEW lib \in SUBSET LibusbFound, NEW ks \in SetToSeqs(KernelFound), NEW ls \in SetToSeqs(lib),
           NEW n \in 0 .. Len(ks \o ls)
    PROVE  LET order == SubSeq(ks \o ls, 1, n)
           IN order \in Seq(Addrs) /\ \A i \in DOMAIN order : bus[order[i]] \in Kinds
<1> DEFINE Found == {a \in Addrs : bus[a] # Gone}
           order == SubSeq(ks \o ls, 1, n)
<1>1. KernelFound \subseteq Found /\ lib \subseteq Found
      BY SaneiUsbAssumption DEF KernelFound, LibusbFound
<1>2. \A a \in Found : a \in Addrs /\ bus[a] \in Kinds
      BY DEF UsbInv
<1>3. Found \subseteq Addrs
      OBVIOUS
<1> HIDE DEF Found
<1>4. ASSUME NEW S, S \subseteq Found, NEW s \in SetToSeqs(S) PROVE s \in Seq(Found)
  <2>1. IsFiniteSet(Addrs)
        BY SaneiUsbAssumption
  <2>2. Cardinality(S) \in Nat
    <3>1. S \in SUBSET Addrs
          BY <1>3, <1>4
    <3> QED BY <2>1, <3>1, FS_Subset, FS_CardinalityType
  <2>3. s \in [1 .. Cardinality(S) -> S]
        BY <1>4 DEF SetToSeqs
  <2>4. s \in Seq(S)
        BY <2>2, <2>3
  <2> QED BY <2>4, <1>4
<1>5. ks \o ls \in Seq(Found)
  <2>1. ks \in Seq(Found) /\ ls \in Seq(Found)
        BY <1>1, <1>4
  <2> QED BY <2>1
<1>6. order \in Seq(Found)
  <2> DEFINE all == ks \o ls
  <2>1. all \in Seq(Found) /\ n \in 0 .. Len(all)
        BY <1>5
  <2> HIDE DEF all
  <2>2. SubSeq(all, 1, n) \in Seq(Found)
        BY <2>1
  <2> QED BY <2>2 DEF all
<1> HIDE DEF order
<1>7. order \in Seq(Addrs)
      BY <1>3, <1>6
<1>8. \A i \in DOMAIN order : order[i] \in Found
      BY <1>6
<1> QED BY <1>2, <1>7, <1>8 DEF order

\* A slot of which the device and the age stay.
LEMMA SlotChanged ==
    ASSUME UsbInv, NEW d \in Dns, NEW s \in SlotRec, EpKept(s),
           s.devname = devices[d].devname, s.id = devices[d].id, s.missing = devices[d].missing
    PROVE  LET T == [devices EXCEPT ![d] = s]
           IN /\ Table(T) /\ Present(T) /\ DOMAIN T = Dns
              /\ T[d] = s /\ \A e \in Dns : e # d => T[e] = devices[e]
<1> DEFINE T == [devices EXCEPT ![d] = s]
<1>1. devices \in Seq(SlotRec)
      BY DEF UsbInv, Table
<1>2. T \in Seq(SlotRec) /\ DOMAIN T = Dns /\ T[d] = s /\ \A e \in Dns : e # d => T[e] = devices[e]
      BY <1>1 DEF Dns
<1> HIDE DEF T
<1>3. \A e \in Dns : T[e].devname = devices[e].devname /\ T[e].id = devices[e].id /\ T[e].missing = devices[e].missing
      BY <1>2
<1>4. \A e \in Dns : EpKept(T[e])
      BY <1>2 DEF UsbInv, Table, Dns
<1>5. Table(T) /\ Present(T)
      BY <1>2, <1>3, <1>4 DEF UsbInv, Table, Present, Dns
<1> QED BY <1>2, <1>5 DEF T

LEMMA UsbInitInv == UsbInit => UsbInv
<1> SUFFICES ASSUME UsbInit PROVE UsbInv
    OBVIOUS
<1>1. Table(devices) /\ Present(devices)
      BY DEF UsbInit, Table, Present
<1>2. user \in [Backends -> [dn : Nat, name : Addrs \cup {"none"}, id : Kinds \cup {"none"}]]
      BY DEF UsbInit, NoDn
<1> QED BY <1>1, <1>2 DEF UsbInit, UsbInv, SlotIsMine, ClaimedIsOpen, NotHaltedTwice, Gone

LEMMA FoundKept ==
    ASSUME NEW k \in Kinds, NEW s \in SlotRec, EpKept(s), s.id = k
    PROVE  /\ FoundEndpoints(s.ep, k) \in [EpTypes -> Nat]
           /\ \A t \in EpTypes :
                LET a == FoundEndpoints(s.ep, k)[t] IN
                \/ a \in {0, SetAddr}
                \/ \E i \in DOMAIN EndpointSeq[k] :
                      /\ EndpointSeq[k][i] = [type |-> t, addr |-> a]
                      /\ \A j \in 1 .. i - 1 : EndpointSeq[k][j].type # t
<1> DEFINE Q == EndpointSeq[k]
           E == [type : EpTypes, addr : Nat]
<1>1. Q \in Seq(E)
      BY EndpointAssumption
<1>2. s.ep \in [EpTypes -> Nat]
      BY DEF SlotRec
<1> HIDE DEF Q, E
<1>e. \A i \in DOMAIN Q : Q[i] \in E
      BY <1>1
<1> SUFFICES ASSUME NEW t \in EpTypes
             PROVE  /\ FoundEndpoints(s.ep, k)[t] \in Nat
                    /\ \/ FoundEndpoints(s.ep, k)[t] \in {0, SetAddr}
                       \/ \E i \in DOMAIN Q : /\ Q[i] = [type |-> t, addr |-> FoundEndpoints(s.ep, k)[t]]
                                             /\ \A j \in 1 .. i - 1 : Q[j].type # t
  <2>1. \A t \in EpTypes : FoundEndpoints(s.ep, k)[t] \in Nat => TRUE
        OBVIOUS
  <2> QED BY DEF FoundEndpoints, Q
<1> DEFINE of == {i \in DOMAIN Q : Q[i].type = t}
           a == FoundEndpoints(s.ep, k)[t]
<1>3. a = IF s.ep[t] # 0 \/ of = {} THEN s.ep[t] ELSE Q[Min(of)].addr
      BY DEF FoundEndpoints, Q
<1>4. CASE s.ep[t] # 0 \/ of = {}
      BY <1>2, <1>3, <1>4 DEF EpKept, Q
<1>5. CASE ~(s.ep[t] # 0 \/ of = {})
  <2>1. of \in SUBSET Nat
        BY <1>1
  <2>2. Min(of) \in of /\ \A y \in of : Min(of) <= y
        BY <1>5, <2>1, MinOf
  <2> DEFINE m == Min(of)
  <2> HIDE DEF m
  <2>3. m \in DOMAIN Q /\ Q[m].type = t /\ a = Q[m].addr /\ m \in 1 .. Len(Q)
        BY <1>1, <1>3, <1>5, <2>2 DEF m
  <2>4. Q[m] \in E
        BY <1>e, <2>3
  <2>5. Q[m] = [type |-> t, addr |-> a] /\ a \in Nat
        BY <2>3, <2>4 DEF E
  <2>6. ASSUME NEW j \in 1 .. m - 1 PROVE Q[j].type # t
    <3>1. j \in DOMAIN Q /\ ~(m <= j)
          BY <1>1, <2>3
    <3>2. j \notin of
          BY <2>2, <3>1 DEF m
    <3> QED BY <3>1, <3>2
  <2> HIDE DEF a
  <2> QED BY <2>3, <2>5, <2>6 DEF a
<1> QED BY <1>4, <1>5

UserRec == [dn : Nat, name : Addrs \cup {"none"}, id : Kinds \cup {"none"}]

LEMMA InvFacts ==
    ASSUME UsbInv
    PROVE  /\ devices \in Seq(SlotRec) /\ Dns = 1 .. Len(devices) /\ Len(devices) \in Nat
           /\ \A d \in Dns : devices[d] \in SlotRec /\ EpKept(devices[d])
           /\ user \in [Backends -> UserRec]
           /\ \A b \in Backends : user[b] # NoDn => user[b].dn \in Dns /\ user[b].dn # 0
           /\ \A d \in Dns : d # 0
<1>1. devices \in Seq(SlotRec)
      BY DEF UsbInv, Table
<1>2. Dns = 1 .. Len(devices) /\ Len(devices) \in Nat /\ \A d \in Dns : devices[d] \in SlotRec
      BY <1>1 DEF Dns
<1>3. \A d \in Dns : EpKept(devices[d])
      BY DEF UsbInv, Table, Dns
<1>4. user \in [Backends -> UserRec]
      BY DEF UsbInv, UserRec
<1> QED BY <1>1, <1>2, <1>3, <1>4 DEF UsbInv

\* No call that keeps the table and its users, and gives up claims at most.
LEMMA SameTable ==
    ASSUME UsbInv, devices' = devices, user' = user, robbed' = robbed,
           bus' \in [Addrs -> Kinds \cup {Gone}],
           \A d \in claimed' : d \in claimed \/ (d \in Dns /\ devices[d].open), failed' \cap halted' = {}
    PROVE  UsbInv'
<1>1. SlotIsMine'
      BY DEF UsbInv, SlotIsMine
<1>2. Dns' = Dns
      BY DEF Dns
<1>3. (Table(devices) /\ Present(devices))'
  <2>1. Table(devices') /\ Present(devices')
        BY DEF UsbInv
  <2> QED BY <2>1 DEF Table, Present, EpKept, EndpointSeq
<1>4. claimed' \subseteq Dns' /\ ClaimedIsOpen'
      BY <1>2 DEF UsbInv, ClaimedIsOpen
<1> QED BY <1>1, <1>2, <1>3, <1>4 DEF UsbInv, NotHaltedTwice

LEMMA WorldKeeps ==
    ASSUME UsbInv,
           \/ \E a \in Addrs : Unplug(a) \/ \E k \in Kinds : Plug(a, k)
           \/ \E d \in 1 .. MaxDevices, t \in EpTypes : Stall(d, t)
    PROVE  UsbInv'
<1>1. ASSUME NEW a \in Addrs, Unplug(a) \/ \E k \in Kinds : Plug(a, k) PROVE UsbInv'
  <2>1. bus' \in [Addrs -> Kinds \cup {Gone}]
        BY <1>1 DEF Unplug, Plug, UsbInv
  <2>2. UNCHANGED <<devices, user, robbed, claimed, halted, failed>>
        BY <1>1 DEF Unplug, Plug
  <2>3. failed' \cap halted' = {} /\ \A d \in claimed' : d \in claimed
        BY <2>2 DEF UsbInv, NotHaltedTwice
  <2> QED BY <2>1, <2>2, <2>3, SameTable
<1>2. ASSUME NEW d, NEW t \in EpTypes, Stall(d, t) PROVE UsbInv'
  <2>1. failed' \cap halted' = {}
        BY <1>2 DEF Stall, UsbInv, NotHaltedTwice
  <2>2. UNCHANGED <<bus, devices, user, robbed, claimed>>
        BY <1>2 DEF Stall
  <2>3. bus' \in [Addrs -> Kinds \cup {Gone}] /\ \A e \in claimed' : e \in claimed
        BY <2>2 DEF UsbInv
  <2> QED BY <2>1, <2>2, <2>3, SameTable
<1> QED BY <1>1, <1>2

LEMMA TransferKeeps ==
    ASSUME UsbInv, NEW b \in Backends,
           \/ ReadBulk(b) \/ WriteBulk(b) \/ ReadInt(b) \/ ClearHalt(b)
           \/ ClaimInterface(b) \/ ReleaseInterface(b) \/ SetConfiguration(b) \/ SetAltinterface(b)
    PROVE  UsbInv'
<1>0. bus \in [Addrs -> Kinds \cup {Gone}] /\ failed \cap halted = {}
      BY DEF UsbInv, NotHaltedTwice
<1>1. ASSUME NEW d, NEW t, NEW clear \in BOOLEAN, FailTransfer(d, t, clear), clear \/ <<d, t>> \notin halted
      PROVE  UsbInv'
  <2>1. failed' = failed /\ halted' \subseteq halted
        BY <1>1 DEF FailTransfer
  <2>2. UNCHANGED <<bus, devices, user, robbed, claimed>>
        BY <1>1 DEF FailTransfer
  <2>3. /\ bus' \in [Addrs -> Kinds \cup {Gone}] /\ \A e \in claimed' : e \in claimed
        /\ failed' \cap halted' = {}
        BY <1>0, <2>1, <2>2
  <2> QED BY <2>2, <2>3, SameTable
<1>2. CASE ReadBulk(b) \/ WriteBulk(b)
      BY <1>1, <1>2 DEF ReadBulk, WriteBulk
<1>3. CASE ReadInt(b)
  <2> DEFINE d == user[b].dn
             clear == <<d, "int_in">> \in halted
  <2>1. FailTransfer(d, "int_in", clear) /\ clear \in BOOLEAN
        BY <1>3 DEF ReadInt
  <2> HIDE DEF d
  <2>2. clear \/ <<d, "int_in">> \notin halted
        OBVIOUS
  <2> HIDE DEF clear
  <2> QED BY <1>1, <2>1, <2>2
<1>4. CASE ClearHalt(b) \/ SetConfiguration(b) \/ SetAltinterface(b)
  <2>1. halted' \subseteq halted /\ UNCHANGED <<bus, devices, user, robbed, claimed, failed>>
        BY <1>4 DEF ClearHalt, SetConfiguration, SetAltinterface
  <2>3. /\ bus' \in [Addrs -> Kinds \cup {Gone}] /\ \A e \in claimed' : e \in claimed
        /\ failed' \cap halted' = {}
        BY <1>0, <2>1
  <2> QED BY <2>1, <2>3, SameTable
<1>5. CASE ClaimInterface(b) \/ ReleaseInterface(b)
  <2>1. user[b].dn \in Dns /\ devices[user[b].dn].open
        BY <1>5 DEF ClaimInterface, ReleaseInterface, Mine, UsbInv
  <2>2. claimed' \subseteq claimed \cup {user[b].dn} /\ UNCHANGED <<bus, devices, user, robbed, halted, failed>>
        BY <1>5 DEF ClaimInterface, ReleaseInterface
  <2>3. /\ bus' \in [Addrs -> Kinds \cup {Gone}] /\ failed' \cap halted' = {}
        BY <1>0, <2>2
  <2>4. \A e \in claimed' : e \in claimed \/ (e \in Dns /\ devices[e].open)
        BY <2>1, <2>2
  <2> QED BY <2>2, <2>3, <2>4, SameTable
<1> QED BY <1>2, <1>3, <1>4, <1>5

LEMMA LiveSet ==
    ASSUME NEW x \in SlotRec, NEW live \in BOOLEAN
    PROVE  /\ [x EXCEPT !.live = live] \in SlotRec
           /\ [x EXCEPT !.live = live].devname = x.devname /\ [x EXCEPT !.live = live].id = x.id
           /\ [x EXCEPT !.live = live].missing = x.missing /\ [x EXCEPT !.live = live].open = x.open
           /\ [x EXCEPT !.live = live].ep = x.ep /\ [x EXCEPT !.live = live].live = live
BY DEF SlotRec

LEMMA OpenSet ==
    ASSUME NEW x \in SlotRec, NEW open \in BOOLEAN
    PROVE  /\ [x EXCEPT !.open = open] \in SlotRec
           /\ [x EXCEPT !.open = open].devname = x.devname /\ [x EXCEPT !.open = open].id = x.id
           /\ [x EXCEPT !.open = open].missing = x.missing /\ [x EXCEPT !.open = open].open = open
           /\ [x EXCEPT !.open = open].ep = x.ep /\ [x EXCEPT !.open = open].live = x.live
BY DEF SlotRec

LEMMA EpSet ==
    ASSUME NEW x \in SlotRec, NEW ep \in [EpTypes -> Nat]
    PROVE  /\ [x EXCEPT !.ep = ep] \in SlotRec
           /\ [x EXCEPT !.ep = ep].devname = x.devname /\ [x EXCEPT !.ep = ep].id = x.id
           /\ [x EXCEPT !.ep = ep].missing = x.missing /\ [x EXCEPT !.ep = ep].open = x.open
           /\ [x EXCEPT !.ep = ep].ep = ep /\ [x EXCEPT !.ep = ep].live = x.live
BY DEF SlotRec

\* A slot that is not open has no owner that was not robbed.
LEMMA OpenFailsKeeps == ASSUME UsbInv, NEW b \in Backends, NEW a \in Addrs, OpenFails(b, a) PROVE UsbInv'
<1>1. PICK d \in Lookup(a), live \in BOOLEAN :
        ~devices[d].open /\ devices' = [devices EXCEPT ![d].live = live]
      BY DEF OpenFails
<1>2. UNCHANGED <<bus, user, robbed, claimed, halted, failed>>
      BY DEF OpenFails
<1> DEFINE s == [devices[d] EXCEPT !.live = live]
<1>3. d \in Dns
      BY DEF Lookup
<1>4. devices[d] \in SlotRec /\ EpKept(devices[d])
      BY <1>3, InvFacts
<1>5. /\ s \in SlotRec /\ s.devname = devices[d].devname /\ s.id = devices[d].id
      /\ s.missing = devices[d].missing /\ s.open = devices[d].open /\ s.ep = devices[d].ep
      BY <1>4, LiveSet
<1>6. devices' = [devices EXCEPT ![d] = s]
      BY <1>1
<1> HIDE DEF s
<1>7. EpKept(s)
      BY <1>4, <1>5 DEF EpKept
<1>8. /\ Table(devices') /\ Present(devices') /\ DOMAIN devices' = Dns
      /\ devices'[d] = s /\ \A e \in Dns : e # d => devices'[e] = devices[e]
      BY <1>3, <1>5, <1>6, <1>7, SlotChanged
<1>9. Dns' = Dns
      BY <1>8 DEF Dns
<1>10. \A c \in Backends \ robbed : user[c] # NoDn => user[c].dn # d /\ user[c].dn \in Dns
      BY <1>1 DEF UsbInv, SlotIsMine
<1>11. SlotIsMine'
      BY <1>2, <1>8, <1>10 DEF UsbInv, SlotIsMine
<1>12. claimed' \subseteq Dns' /\ ClaimedIsOpen'
      BY <1>1, <1>2, <1>8, <1>9 DEF UsbInv, ClaimedIsOpen
<1>13. (Table(devices) /\ Present(devices))'
      BY <1>8 DEF Table, Present, EpKept, EndpointSeq
<1> QED BY <1>2, <1>9, <1>11, <1>12, <1>13 DEF UsbInv, NotHaltedTwice

LEMMA OpenKeeps == ASSUME UsbInv, NEW b \in Backends, NEW a \in Addrs, SaneiUsbOpen(b, a) PROVE UsbInv'
<1> DEFINE Ep(d) == IF IsLibusb(d) THEN FoundEndpoints(devices[d].ep, devices[d].id) ELSE devices[d].ep
<1>1. PICK d \in Lookup(a) :
        /\ ~devices[d].open
        /\ devices' = [devices EXCEPT ![d].open = TRUE, ![d].live = TRUE,
                          ![d].ep = IF IsLibusb(d) THEN FoundEndpoints(@, devices[d].id) ELSE @]
        /\ user' = [user EXCEPT ![b] = [dn |-> d, name |-> a, id |-> devices[d].id]]
        /\ claimed' = IF IsLibusb(d) THEN claimed \cup {d} ELSE claimed
      BY DEF SaneiUsbOpen
<1>2. UNCHANGED <<bus, robbed, halted, failed>> /\ user[b] = NoDn
      BY DEF SaneiUsbOpen
<1> DEFINE ep == Ep(d)
           x == devices[d]
           s == [[[x EXCEPT !.open = TRUE] EXCEPT !.live = TRUE] EXCEPT !.ep = ep]
<1>3. d \in Dns /\ d # 0 /\ d \in Nat /\ devices[d].devname = a
      BY InvFacts DEF Lookup
<1>4. devices[d] \in SlotRec /\ EpKept(devices[d]) /\ devices[d].id \in Kinds
      BY <1>3, InvFacts DEF SlotRec
<1>5. /\ ep \in [EpTypes -> Nat]
      /\ \A t \in EpTypes :
                \/ ep[t] \in {0, SetAddr}
                \/ \E i \in DOMAIN EndpointSeq[x.id] :
                      /\ EndpointSeq[x.id][i] = [type |-> t, addr |-> ep[t]]
                      /\ \A j \in 1 .. i - 1 : EndpointSeq[x.id][j].type # t
  <2>1. x.ep \in [EpTypes -> Nat]
        BY <1>4 DEF SlotRec
  <2>2. CASE IsLibusb(d)
        BY <2>2, <1>4, FoundKept
  <2>3. CASE ~IsLibusb(d)
        BY <2>1, <2>3, <1>4 DEF EpKept
  <2> QED BY <2>2, <2>3
<1>6. devices' = [devices EXCEPT ![d] = s]
  <2>1. devices \in [Dns -> SlotRec]
        BY InvFacts
  <2>2. devices' = [[[devices EXCEPT ![d] = [devices[d] EXCEPT !.open = TRUE]]
                       EXCEPT ![d] = [[devices[d] EXCEPT !.open = TRUE] EXCEPT !.live = TRUE]]
                       EXCEPT ![d] = s]
        BY <1>1, <1>3, <1>4, <2>1 DEF SlotRec
  <2> QED BY <2>2
<1> HIDE DEF ep
<1>7. /\ s \in SlotRec /\ s.devname = x.devname /\ s.id = x.id
      /\ s.missing = x.missing /\ s.open = TRUE /\ s.live = TRUE /\ s.ep = ep
  <2> DEFINE y == [x EXCEPT !.open = TRUE]
             z == [y EXCEPT !.live = TRUE]
  <2>1. y \in SlotRec /\ y.devname = x.devname /\ y.id = x.id /\ y.missing = x.missing /\ y.open = TRUE
        BY <1>4, OpenSet
  <2> HIDE DEF y
  <2>2. z \in SlotRec /\ z.devname = x.devname /\ z.id = x.id /\ z.missing = x.missing /\ z.open = TRUE /\ z.live = TRUE
        BY <2>1, LiveSet
  <2>3. s = [z EXCEPT !.ep = ep]
        BY DEF y
  <2> HIDE DEF z, s
  <2> QED BY <1>5, <2>2, <2>3, EpSet
<1> HIDE DEF s
<1>8. EpKept(s)
      BY <1>5, <1>7 DEF EpKept
<1>9. /\ Table(devices') /\ Present(devices') /\ DOMAIN devices' = Dns
      /\ devices'[d] = s /\ \A e \in Dns : e # d => devices'[e] = devices[e]
      BY <1>3, <1>6, <1>7, <1>8, SlotChanged
<1>10. Dns' = Dns
      BY <1>9 DEF Dns
<1>11. \A c \in Backends \ robbed : user[c] # NoDn => user[c].dn # d /\ user[c].dn \in Dns
      BY <1>1 DEF UsbInv, SlotIsMine
<1>12. /\ user' \in [Backends -> UserRec] /\ user'[b] = [dn |-> d, name |-> a, id |-> x.id]
       /\ \A c \in Backends : c # b => user'[c] = user[c]
      BY <1>1, <1>3, <1>4, InvFacts DEF UserRec
<1>13. \A c \in Backends : user'[c] # NoDn => user'[c].dn \in Dns
      BY <1>3, <1>12, InvFacts
<1>14. SlotIsMine'
  <2> SUFFICES ASSUME NEW c \in Backends \ robbed, user'[c] # NoDn
               PROVE  LET z == devices'[user'[c].dn] IN
                      /\ z.open /\ z.live
                      /\ z.devname = user'[c].name /\ z.id = user'[c].id
                      /\ \A e \in Backends \ robbed : user'[e].dn = user'[c].dn => c = e
      BY <1>2 DEF SlotIsMine
  <2>0. \A e \in Backends \ robbed : e # b => user'[e].dn # d
    <3>1. \A e \in Backends \ robbed : user[e] = NoDn => user[e].dn = 0
          BY DEF NoDn
    <3> QED BY <3>1, <1>3, <1>11, <1>12
  <2>1. CASE c = b
    <3>1. user'[c].dn = d /\ user'[c].name = a /\ user'[c].id = x.id
          BY <2>1, <1>12
    <3> QED BY <2>0, <2>1, <3>1, <1>3, <1>7, <1>9
  <2>2. CASE c # b
    <3>1. user'[c] = user[c] /\ user[c].dn # d /\ user[c].dn \in Dns /\ devices'[user[c].dn] = devices[user[c].dn]
          BY <2>2, <1>9, <1>11, <1>12
    <3>2. \A e \in Backends \ robbed : user'[e].dn = user[c].dn => e # b /\ user'[e] = user[e]
      <4>1. user'[b].dn = d
            BY <1>12
      <4> QED BY <4>1, <3>1, <1>12
    <3> QED BY <3>1, <3>2 DEF UsbInv, SlotIsMine
  <2> QED BY <2>1, <2>2
<1>15. claimed' \subseteq Dns' /\ ClaimedIsOpen'
      BY <1>1, <1>3, <1>7, <1>9, <1>10 DEF UsbInv, ClaimedIsOpen
<1>16. (Table(devices) /\ Present(devices))'
      BY <1>9 DEF Table, Present, EpKept, EndpointSeq
<1> QED BY <1>2, <1>10, <1>12, <1>13, <1>14, <1>15, <1>16 DEF UsbInv, NotHaltedTwice, UserRec

\* Closing a slot robs whoever else holds it.
LEMMA CloseKeepsUsb == ASSUME UsbInv, NEW b \in Backends, SaneiUsbClose(b) PROVE UsbInv'
<1> DEFINE d == user[b].dn
           x == devices[d]
           y == [x EXCEPT !.open = FALSE]
           s == [y EXCEPT !.live = FALSE]
<1>1. /\ user[b] # NoDn /\ bus' = bus /\ user' = [user EXCEPT ![b] = NoDn]
      /\ robbed' = (robbed \cup {c \in Backends : user[c].dn = d}) \ {b}
      BY DEF SaneiUsbClose
<1>2. d \in Dns /\ d # 0 /\ x \in SlotRec /\ EpKept(x)
      BY <1>1, InvFacts
<1>3. /\ user' \in [Backends -> UserRec] /\ user'[b] = NoDn /\ user'[b].dn = 0
      /\ \A c \in Backends : c # b => user'[c] = user[c]
      BY <1>1, InvFacts DEF UserRec, NoDn
\* Who is not robbed afterwards was not before, and has another slot.
<1>4. ASSUME NEW c \in Backends \ robbed', user'[c] # NoDn
      PROVE  c \in Backends \ robbed /\ c # b /\ user'[c] = user[c] /\ user[c] # NoDn /\ user[c].dn # d /\ user[c].dn \in Dns
      BY <1>1, <1>3, <1>4, InvFacts
<1>5. SUFFICES ASSUME /\ Table(devices') /\ Present(devices') /\ DOMAIN devices' = Dns
                      /\ \A e \in Dns : e # d => devices'[e] = devices[e],
                      claimed' \subseteq claimed \ {d}, failed' \subseteq failed, halted' \subseteq halted
               PROVE  UsbInv'
  <2>1. CASE ~x.open
    <3>1. UNCHANGED <<devices, claimed, halted, failed>>
          BY <2>1 DEF SaneiUsbClose
    <3>2. d \notin claimed
          BY <2>1 DEF UsbInv, ClaimedIsOpen
    <3>3. DOMAIN devices' = Dns /\ Table(devices') /\ Present(devices')
          BY <3>1 DEF UsbInv, Dns
    <3> QED BY <3>1, <3>2, <3>3, <1>5
  <2>2. CASE x.open
    <3>1. /\ devices' = [devices EXCEPT ![d].open = FALSE, ![d].live = FALSE]
          /\ claimed' = claimed \ {d}
          /\ halted' = {h \in halted : h[1] # d} /\ failed' = {h \in failed : h[1] # d}
          BY <2>2 DEF SaneiUsbClose
    <3>2. devices' = [devices EXCEPT ![d] = s]
      <4>1. devices' = [[devices EXCEPT ![d] = y] EXCEPT ![d] = s]
            BY <3>1, <1>2, InvFacts
      <4> QED BY <4>1
    <3>3. y \in SlotRec /\ y.devname = x.devname /\ y.id = x.id /\ y.missing = x.missing /\ y.ep = x.ep
          BY <1>2, OpenSet
    <3> HIDE DEF y
    <3>4. s \in SlotRec /\ s.devname = x.devname /\ s.id = x.id /\ s.missing = x.missing /\ s.ep = x.ep
          BY <3>3, LiveSet
    <3> HIDE DEF s
    <3>5. EpKept(s)
      <4>1. EpKept(x) /\ s.ep = x.ep /\ s.id = x.id
            BY <1>2, <3>4
      <4> HIDE DEF x
      <4> QED BY <4>1 DEF EpKept
    <3>6. /\ Table(devices') /\ Present(devices') /\ DOMAIN devices' = Dns
          /\ \A e \in Dns : e # d => devices'[e] = devices[e]
          BY <1>2, <3>2, <3>4, <3>5, SlotChanged
    <3>7. claimed' \subseteq claimed \ {d} /\ failed' \subseteq failed /\ halted' \subseteq halted
          BY <3>1
    <3> QED BY <3>6, <3>7, <1>5
  <2> QED BY <2>1, <2>2
<1> HIDE DEF d
<1>6. Dns' = Dns
      BY <1>5 DEF Dns
<1>7. SlotIsMine'
  <2> SUFFICES ASSUME NEW c \in Backends \ robbed', user'[c] # NoDn
               PROVE  LET z == devices'[user'[c].dn] IN
                      /\ z.open /\ z.live
                      /\ z.devname = user'[c].name /\ z.id = user'[c].id
                      /\ \A e \in Backends \ robbed' : user'[e].dn = user'[c].dn => c = e
      BY DEF SlotIsMine
  <2>1. /\ c \in Backends \ robbed /\ user'[c] = user[c] /\ user[c] # NoDn
        /\ devices'[user[c].dn] = devices[user[c].dn] /\ user[c].dn # 0
        BY <1>4, <1>5, InvFacts
  <2>2. ASSUME NEW e \in Backends \ robbed', user'[e].dn = user'[c].dn PROVE c = e
    <3>1. user'[e] # NoDn
          BY <2>1, <2>2 DEF NoDn
    <3>2. e \in Backends \ robbed /\ user'[e] = user[e]
          BY <3>1, <1>4
    <3> QED BY <2>1, <2>2, <3>2 DEF UsbInv, SlotIsMine
  <2> QED BY <2>1, <2>2 DEF UsbInv, SlotIsMine
<1>8. \A c \in Backends : user'[c] # NoDn => user'[c].dn \in Dns
      BY <1>3, InvFacts
<1>9. claimed' \subseteq Dns' /\ ClaimedIsOpen'
      BY <1>5, <1>6 DEF UsbInv, ClaimedIsOpen
<1>10. (Table(devices) /\ Present(devices))'
      BY <1>5 DEF Table, Present, EpKept, EndpointSeq
<1> QED BY <1>1, <1>3, <1>5, <1>6, <1>7, <1>8, <1>9, <1>10 DEF UsbInv, NotHaltedTwice, UserRec

LEMMA SetEndpointKeeps ==
    ASSUME UsbInv, NEW b \in Backends, NEW t \in SetTypes, SetEndpoint(b, t) PROVE UsbInv'
<1> DEFINE d == user[b].dn
           x == devices[d]
           ep == [x.ep EXCEPT ![t] = SetAddr]
           s == [x EXCEPT !.ep = ep]
<1>1. /\ user[b] # NoDn /\ x.open /\ devices' = [devices EXCEPT ![d].ep[t] = SetAddr]
      /\ UNCHANGED <<bus, user, robbed, claimed, halted, failed>>
      BY DEF SetEndpoint, Mine
<1>2. d \in Dns /\ x \in SlotRec /\ EpKept(x) /\ t \in EpTypes
      BY <1>1, InvFacts, SaneiUsbAssumption
<1>3. x.ep \in [EpTypes -> Nat]
      BY <1>2 DEF SlotRec
<1>4. ep \in [EpTypes -> Nat] /\ \A u \in EpTypes : ep[u] = IF u = t THEN SetAddr ELSE x.ep[u]
      BY <1>2, <1>3 DEF SetAddr
<1>5. devices' = [devices EXCEPT ![d] = s]
      BY <1>1
<1> HIDE DEF ep
<1>6. /\ s \in SlotRec /\ s.devname = x.devname /\ s.id = x.id /\ s.missing = x.missing
      /\ s.open = x.open /\ s.live = x.live /\ s.ep = ep
      BY <1>2, <1>4, EpSet
<1> HIDE DEF s
<1>7. EpKept(s)
  <2>1. ASSUME NEW u \in EpTypes, u = t PROVE s.ep[u] \in {0, SetAddr}
        BY <2>1, <1>4, <1>6
  <2>2. ASSUME NEW u \in EpTypes, u # t PROVE s.ep[u] = x.ep[u]
        BY <2>2, <1>4, <1>6
  <2>3. EpKept(x) /\ s.id = x.id
        BY <1>2, <1>6
  <2> HIDE DEF x
  <2>4. ASSUME NEW u \in EpTypes
        PROVE  LET q == EndpointSeq[s.id] IN
               \/ s.ep[u] \in {0, SetAddr}
               \/ \E i \in DOMAIN q : /\ q[i] = [type |-> u, addr |-> s.ep[u]]
                                     /\ \A j \in 1 .. i - 1 : q[j].type # u
    <3>1. CASE u = t
          BY <2>1, <3>1
    <3>2. CASE u # t
      <4>1. s.ep[u] = x.ep[u]
            BY <2>2, <3>2
      <4> QED BY <4>1, <2>3 DEF EpKept
    <3> QED BY <3>1, <3>2
  <2> QED BY <2>4 DEF EpKept
<1>8. /\ Table(devices') /\ Present(devices') /\ DOMAIN devices' = Dns
      /\ devices'[d] = s /\ \A e \in Dns : e # d => devices'[e] = devices[e]
      BY <1>2, <1>5, <1>6, <1>7, SlotChanged
<1> HIDE DEF d
<1>9. Dns' = Dns
      BY <1>8 DEF Dns
<1>10. \A e \in Dns : /\ devices'[e].open = devices[e].open /\ devices'[e].live = devices[e].live
                      /\ devices'[e].devname = devices[e].devname /\ devices'[e].id = devices[e].id
      BY <1>6, <1>8
<1>11. SlotIsMine'
      BY <1>1, <1>10 DEF UsbInv, SlotIsMine
<1>12. claimed' \subseteq Dns' /\ ClaimedIsOpen'
      BY <1>1, <1>9, <1>10 DEF UsbInv, ClaimedIsOpen
<1>13. (Table(devices) /\ Present(devices))'
      BY <1>8 DEF Table, Present, EpKept, EndpointSeq
<1> QED BY <1>1, <1>9, <1>11, <1>12, <1>13 DEF UsbInv, NotHaltedTwice

\* What a scan leaves: the slots that are still open are as they were, the owners of
\* the others were robbed.
LEMMA InitKeeps ==
    ASSUME UsbInv, SaneiUsbInit
    PROVE  /\ UsbInv'
           /\ \A d \in Dns : devices[d].missing = 0 =>
                devices'[d].devname = devices[d].devname /\ devices'[d].id = devices[d].id
<1>1. MidScan(devices')
  <2>1. PICK lib \in SUBSET LibusbFound :
          \E ks \in SetToSeqs(KernelFound), ls \in SetToSeqs(lib) :
            \E n \in 0 .. Len(ks \o ls) : devices' = Scanned(SubSeq(ks \o ls, 1, n))
        BY DEF SaneiUsbInit
  <2>2. PICK ks \in SetToSeqs(KernelFound), ls \in SetToSeqs(lib) :
            \E n \in 0 .. Len(ks \o ls) : devices' = Scanned(SubSeq(ks \o ls, 1, n))
        BY <2>1
  <2>3. PICK n \in 0 .. Len(ks \o ls) : devices' = Scanned(SubSeq(ks \o ls, 1, n))
        BY <2>2
  <2> DEFINE order == SubSeq(ks \o ls, 1, n)
  <2>4. order \in Seq(Addrs) /\ \A i \in DOMAIN order : bus[order[i]] \in Kinds
        BY ScanFinds
  <2>5. devices' = Scanned(order)
        BY <2>3
  <2> HIDE DEF order
  <2> QED BY <2>4, <2>5, ScanKeeps
<1> DEFINE gone == {d \in Dns : devices[d].open /\ ~devices'[d].open}
<1>2. /\ halted' = {x \in halted : x[1] \notin gone}
      /\ failed' = {x \in failed : x[1] \notin gone}
      /\ claimed' = claimed \ gone
      /\ robbed' = robbed \cup {b \in Backends : user[b].dn \in gone}
      /\ UNCHANGED <<bus, user>>
      BY DEF SaneiUsbInit
<1>3. Dns \subseteq Dns'
  <2>1. devices' \in Seq(SlotRec) /\ Len(devices) <= Len(devices')
        BY <1>1 DEF MidScan, Table
  <2> QED BY <2>1, InvFacts DEF Dns
<1>4. Table(devices')
      BY <1>1 DEF MidScan
<1>5. Present(devices')
  <2> SUFFICES ASSUME NEW d \in DOMAIN devices', NEW e \in DOMAIN devices',
                      devices'[d].devname = devices'[e].devname, devices'[d].missing = 0, devices'[e].missing = 0
               PROVE  d = e
      BY DEF Present
  <2>1. devices'[d].id = devices'[e].id
        BY <1>1 DEF MidScan
  <2> QED BY <1>4, <2>1 DEF Table
<1>6. \A d \in Dns : devices'[d].open => /\ devices[d].open /\ devices'[d].live = devices[d].live
                                        /\ devices'[d].devname = devices[d].devname /\ devices'[d].id = devices[d].id
      BY <1>1 DEF MidScan
<1>7. SlotIsMine'
  <2>1. \A b \in Backends \ robbed' : user[b] # NoDn =>
          b \in Backends \ robbed /\ user[b].dn \in Dns /\ devices'[user[b].dn].open
        BY <1>2 DEF UsbInv, SlotIsMine
  <2> SUFFICES ASSUME NEW c \in Backends \ robbed', user[c] # NoDn
               PROVE  LET z == devices'[user[c].dn] IN
                      /\ z.open /\ z.live
                      /\ z.devname = user[c].name /\ z.id = user[c].id
                      /\ \A e \in Backends \ robbed' : user[e].dn = user[c].dn => c = e
      BY <1>2 DEF SlotIsMine
  <2>2. c \in Backends \ robbed /\ user[c].dn \in Dns /\ devices'[user[c].dn].open
        BY <2>1
  <2>3. \A e \in Backends \ robbed' : e \in Backends \ robbed
        BY <1>2
  <2> QED BY <2>2, <2>3, <1>6 DEF UsbInv, SlotIsMine
<1>8. claimed' \subseteq Dns' /\ ClaimedIsOpen'
      BY <1>2, <1>3 DEF UsbInv, ClaimedIsOpen
<1>9. (Table(devices) /\ Present(devices))'
      BY <1>4, <1>5 DEF Table, Present, EpKept, EndpointSeq
<1>10. NotHaltedTwice'
      BY <1>2 DEF UsbInv, NotHaltedTwice
<1>11. UsbInv'
      BY <1>2, <1>3, <1>7, <1>8, <1>9, <1>10 DEF UsbInv
<1>12. \A d \in Dns : devices[d].missing = 0 =>
          devices'[d].devname = devices[d].devname /\ devices'[d].id = devices[d].id
      BY <1>1 DEF MidScan
<1> QED BY <1>11, <1>12

LEMMA UsbNextKeeps == ASSUME UsbInv, UsbNext PROVE UsbInv'
<1>1. ASSUME NEW b \in Backends,
             \/ \E a \in Addrs : OpenFails(b, a) \/ SaneiUsbOpen(b, a)
             \/ SaneiUsbClose(b) \/ ReadBulk(b) \/ WriteBulk(b) \/ ReadInt(b) \/ ClearHalt(b)
             \/ \E t \in SetTypes : SetEndpoint(b, t)
             \/ ClaimInterface(b) \/ ReleaseInterface(b)
             \/ SetConfiguration(b) \/ SetAltinterface(b)
      PROVE  UsbInv'
      BY <1>1, OpenFailsKeeps, OpenKeeps, CloseKeepsUsb, SetEndpointKeeps, TransferKeeps
<1> QED BY <1>1, WorldKeeps, InitKeeps DEF UsbNext

LEMMA UsbAlways == UsbSpec => []UsbInv
<1>1. UsbInv /\ [UsbNext]_usbVars => UsbInv'
  <2> SUFFICES ASSUME UsbInv, UNCHANGED usbVars PROVE UsbInv'
      BY UsbNextKeeps
  <2>1. failed' \cap halted' = {} /\ bus' \in [Addrs -> Kinds \cup {Gone}] /\ \A d \in claimed' : d \in claimed
        BY DEF usbVars, UsbInv, NotHaltedTwice
  <2> QED BY <2>1, SameTable DEF usbVars
<1> QED BY <1>1, UsbInitInv, PTL DEF UsbSpec

LEMMA UsbInvSafe == UsbInv => UsbSafe
<1> SUFFICES ASSUME UsbInv PROVE UsbSafe
    OBVIOUS
<1>1. OneSlotEach /\ EndpointsOfDevice
      BY DEF UsbInv, Table, OneSlotEach, EndpointsOfDevice, EpKept, Dns
<1>2. ASSUME NEW a, NEW d \in Dns, devices[d].devname = a, devices[d].missing = 0
      PROVE  Lookup(a) = {d}
  <2>1. DOMAIN devices = 1 .. Len(devices)
        BY InvFacts DEF UsbInv, Table
  <2>2. \A e \in Dns : devices[e].devname = a /\ devices[e].missing = 0 => e = d
        BY <1>2 DEF UsbInv, Present, Dns
  <2>3. \A e \in 1 .. d - 1 : devices[e].devname = a => devices[e].missing # 0
    <3>1. d \in 1 .. Len(devices) /\ Len(devices) \in Nat
          BY <2>1, <1>2 DEF UsbInv, Table, Dns
    <3>2. \A e \in 1 .. d - 1 : e \in Dns /\ e # d
          BY <2>1, <3>1 DEF Dns
    <3> QED BY <2>2, <3>2
  <2>4. d \in Lookup(a)
        BY <1>2, <2>3 DEF Lookup
  <2>5. \A e \in Lookup(a) : e = d
        BY <2>2 DEF Lookup
  <2> QED BY <2>4, <2>5
<1>3. ASSUME NEW k \in Kinds, NEW a \in AttachMatching(k) PROVE VendorProductByname(a) = {k}
  <2>1. PICK d \in Dns : devices[d].devname = a /\ devices[d].id = k /\ devices[d].missing = 0
        BY <1>3 DEF AttachMatching, FindDevices
  <2>2. Lookup(a) = {d}
        BY <1>2, <2>1
  <2> QED BY <2>1, <2>2 DEF VendorProductByname
<1>4. ASSUME NEW b \in Backends \ robbed, user[b] # NoDn
      PROVE  /\ VendorProduct(user[b].dn) = user[b].id
             /\ devices[user[b].dn].missing = 0 => VendorProductByname(user[b].name) = {user[b].id}
  <2>1. /\ user[b].dn \in Dns /\ devices[user[b].dn].devname = user[b].name
        /\ devices[user[b].dn].id = user[b].id
        BY <1>4 DEF UsbInv, SlotIsMine
  <2>2. ASSUME devices[user[b].dn].missing = 0 PROVE VendorProductByname(user[b].name) = {user[b].id}
    <3>1. Lookup(user[b].name) = {user[b].dn}
          BY <1>2, <2>1, <2>2
    <3> QED BY <2>1, <3>1 DEF VendorProductByname
  <2> QED BY <2>1, <2>2 DEF VendorProduct
<1>5. KindsAgree
      BY <1>3, <1>4 DEF KindsAgree
<1> QED BY <1>1, <1>5 DEF UsbInv, UsbSafe

\* For any devices, kinds, endpoints and backends, and however large the table is: no
\* device has two slots, a slot that its owner was not robbed of is the open device it
\* opened, names and kinds agree, an interface that is claimed is open and a stall is
\* met once (sanei_usb.c).
THEOREM UsbIsSafe == UsbSpec => []UsbSafe
<1> QED BY UsbAlways, UsbInvSafe, PTL

-----------------------------------------------------------------------------
(* sanei_scsi.c: the queue.                                                *)

Said == {"GOOD", "IO_ERROR", "NO_MEM"}
WhatRan == {"no"} \cup Ran

Req == [running : BOOLEAN, done : BOOLEAN, status : Said, ran : WhatRan]

\* What the loop of issue works on, when there are n requests in the queue.
Issuing(n) == [q : [1 .. n -> Req], used : Int, go : BOOLEAN]

InOrder(q) == \A i, j \in DOMAIN q : i < j /\ q[j].running => q[i].running

\* With the old interface a request that is done was given to the driver and has
\* failed; below lo are those that req_wait has just read the answer of.
DoneHasRun(q, lo) ==
    \A i \in DOMAIN q : q[i].done => q[i].running /\ (i >= lo => q[i].status # "GOOD")

\* The loop of issue after i requests of the queue q0.
IssueKept(s, q0, lo, i) ==
    /\ InOrder(s.q)
    /\ s.go => (\A j \in 1 .. i : s.q[j].running) \/ s.used >= handle.max
    /\ sg = "old" =>
         /\ DoneHasRun(s.q, lo)
         /\ \A j \in DOMAIN s.q : q0[j].running =>
              s.q[j].running /\ s.q[j].done = q0[j].done /\ s.q[j].ran = q0[j].ran
         /\ s.used = Cardinality(Outstanding(s.q)) /\ s.used <= handle.max

\* Every field of a request that the code sets by itself.
LEMMA ReqFields ==
    ASSUME NEW x \in Req, NEW b \in BOOLEAN, NEW e \in Said, NEW r \in WhatRan
    PROVE  /\ [x EXCEPT !.running = b, !.ran = r] \in Req
           /\ [x EXCEPT !.running = b] \in Req
           /\ [x EXCEPT !.status = e] \in Req
           /\ [x EXCEPT !.running = b, !.done = TRUE, !.status = e] \in Req
           /\ [x EXCEPT !.done = TRUE] \in Req
           /\ [x EXCEPT !.done = TRUE, !.ran = r] \in Req
BY DEF Req

LEMMA TakenIs ==
    ASSUME NEW n \in Nat, NEW s \in Issuing(n), NEW i \in 1 .. n, NEW arg \in 1 .. n, NEW t \in Taken(s, i, arg)
    PROVE  /\ t \in Issuing(n) /\ t.used = s.used + 1 /\ t.go = TRUE
           /\ \A j \in 1 .. n : j # i => t.q[j].running = s.q[j].running /\ t.q[j].ran = s.q[j].ran
           /\ \A j \in 1 .. n : t.q[j].done = s.q[j].done
           /\ t.q[i].running = TRUE
           /\ \A j \in 1 .. n : t.q[j].status = s.q[j].status \/ (sg = "old" => t.q[j].status # "GOOD")
<1> DEFINE e == IF sg = "old" THEN "IO_ERROR" ELSE "GOOD"
<1>1. PICK r \in WhatRan :
        t = [s EXCEPT !.used = s.used + 1, !.go = TRUE,
                      !.q = [[s.q EXCEPT ![i].running = TRUE, ![i].ran = r] EXCEPT ![arg].status = e]]
      BY DEF Taken, WhatRan
<1>2. e \in Said /\ (sg = "old" => e # "GOOD")
      BY DEF Said
<1> HIDE DEF e
<1> DEFINE x == [s.q[i] EXCEPT !.running = TRUE, !.ran = r]
           q1 == [s.q EXCEPT ![i] = x]
           y == [q1[arg] EXCEPT !.status = e]
           q2 == [q1 EXCEPT ![arg] = y]
<1>3. s.q \in [1 .. n -> Req] /\ s.used \in Int /\ s.q[i] \in Req
      BY DEF Issuing
<1>4. t = [s EXCEPT !.used = s.used + 1, !.go = TRUE, !.q = q2]
      BY <1>1, <1>3
<1>5. x \in Req /\ x.running = TRUE /\ x.done = s.q[i].done /\ x.status = s.q[i].status
      BY <1>3, ReqFields DEF Req
<1> HIDE DEF x
<1>6. q1 \in [1 .. n -> Req] /\ q1[i] = x /\ \A j \in 1 .. n : j # i => q1[j] = s.q[j]
      BY <1>3, <1>5
<1> HIDE DEF q1
<1>7. y \in Req /\ y.status = e /\ y.running = q1[arg].running /\ y.ran = q1[arg].ran /\ y.done = q1[arg].done
  <2>1. q1[arg] \in Req
        BY <1>6
  <2> QED BY <1>2, <2>1, ReqFields DEF Req
<1> HIDE DEF y
<1>8. q2 \in [1 .. n -> Req] /\ q2[arg] = y /\ \A j \in 1 .. n : j # arg => q2[j] = q1[j]
      BY <1>6, <1>7
<1> HIDE DEF q2
<1>9. t.q = q2 /\ t.used = s.used + 1 /\ t.go = TRUE /\ t \in Issuing(n)
  <2> DEFINE u == s.used + 1
  <2>1. u \in Int
        BY <1>3
  <2>2. t = [s EXCEPT !.used = u, !.go = TRUE, !.q = q2]
        BY <1>4
  <2> HIDE DEF u
  <2>3. t.q = q2 /\ t.used = u /\ t.go = TRUE /\ t \in Issuing(n)
        BY <2>1, <2>2, <1>8 DEF Issuing
  <2> QED BY <2>3 DEF u
<1>10. \A j \in 1 .. n : /\ q2[j].running = q1[j].running /\ q2[j].ran = q1[j].ran /\ q2[j].done = q1[j].done
                         /\ q2[j].status = q1[j].status \/ q2[j].status = e
       BY <1>7, <1>8
<1> QED BY <1>2, <1>5, <1>6, <1>9, <1>10

LEMMA LaterIs ==
    ASSUME NEW n \in Nat, NEW s \in Issuing(n), NEW i \in 1 .. n, ~s.q[i].running, NEW t \in TakenLater(s, i)
    PROVE  /\ t \in Issuing(n) /\ t.used = s.used /\ t.go = FALSE
           /\ \A j \in 1 .. n : /\ t.q[j].running = s.q[j].running /\ t.q[j].done = s.q[j].done
                                /\ t.q[j].ran = s.q[j].ran /\ t.q[j].status = s.q[j].status
<1> DEFINE x == [s.q[i] EXCEPT !.running = FALSE]
           q1 == [s.q EXCEPT ![i] = x]
<1>1. s.q \in [1 .. n -> Req] /\ s.used \in Int /\ s.q[i] \in Req
      BY DEF Issuing
<1>2. t = [s EXCEPT !.go = FALSE, !.q = q1]
      BY <1>1 DEF TakenLater
<1>3. x \in Req /\ x.running = s.q[i].running /\ x.done = s.q[i].done /\ x.status = s.q[i].status /\ x.ran = s.q[i].ran
      BY <1>1, ReqFields DEF Req
<1> HIDE DEF x
<1>4. q1 \in [1 .. n -> Req] /\ q1[i] = x /\ \A j \in 1 .. n : j # i => q1[j] = s.q[j]
      BY <1>1, <1>3
<1> HIDE DEF q1
<1>5. t.q = q1 /\ t.used = s.used /\ t.go = FALSE /\ t \in Issuing(n)
      BY <1>1, <1>2, <1>4 DEF Issuing
<1> QED BY <1>3, <1>4, <1>5

LEMMA RefusedIs ==
    ASSUME NEW n \in Nat, NEW s \in Issuing(n), NEW i \in 1 .. n, NEW t \in Refused(s, i)
    PROVE  /\ t \in Issuing(n) /\ t.used = s.used /\ t.go = FALSE
           /\ \A j \in 1 .. n : j # i => t.q[j] = s.q[j]
           /\ t.q[i].running = (sg = "old") /\ t.q[i].done = TRUE /\ t.q[i].status # "GOOD"
<1>1. PICK e \in Said : /\ e # "GOOD"
                        /\ t = [s EXCEPT !.go = FALSE,
                                  !.q[i] = [s.q[i] EXCEPT !.running = sg = "old", !.done = TRUE, !.status = e]]
      BY DEF Refused, Said
<1> DEFINE b == (sg = "old")
           x == [s.q[i] EXCEPT !.running = b, !.done = TRUE, !.status = e]
           q1 == [s.q EXCEPT ![i] = x]
<1>2. s.q \in [1 .. n -> Req] /\ s.used \in Int /\ s.q[i] \in Req
      BY DEF Issuing
<1>3. t = [s EXCEPT !.go = FALSE, !.q = q1]
      BY <1>1, <1>2
<1>b. b \in BOOLEAN
      OBVIOUS
<1> HIDE DEF b
<1>4. x \in Req /\ x.running = b /\ x.done = TRUE /\ x.status = e
      BY <1>1, <1>2, <1>b, ReqFields DEF Req
<1> HIDE DEF x
<1>5. q1 \in [1 .. n -> Req] /\ q1[i] = x /\ \A j \in 1 .. n : j # i => q1[j] = s.q[j]
      BY <1>2, <1>4
<1> HIDE DEF q1
<1>6. t.q = q1 /\ t.used = s.used /\ t.go = FALSE /\ t \in Issuing(n)
      BY <1>2, <1>3, <1>5 DEF Issuing
<1>7. t.q[i].running = b
      BY <1>4, <1>5, <1>6
<1> QED BY <1>1, <1>4, <1>5, <1>6, <1>7 DEF b

\* The first request that does not run.
LEMMA FirstIdleIs ==
    ASSUME NEW n \in Nat, NEW q \in [1 .. n -> Req]
    PROVE  /\ FirstIdle(q) \in 1 .. n + 1
           /\ \A j \in 1 .. n : j < FirstIdle(q) => q[j].running
           /\ FirstIdle(q) <= n => ~q[FirstIdle(q)].running
<1> DEFINE S == {i \in DOMAIN q : ~q[i].running}
<1>1. DOMAIN q = 1 .. n /\ Len(q) = n
      OBVIOUS
<1>2. CASE S = {}
  <2>1. FirstIdle(q) = n + 1
        BY <1>1, <1>2 DEF FirstIdle
  <2> QED BY <1>1, <1>2, <2>1
<1>3. CASE S # {}
  <2>1. S \in SUBSET Nat
        BY <1>1
  <2>2. Min(S) \in S /\ \A y \in S : Min(S) <= y
        BY <1>3, <2>1, MinOf
  <2>3. FirstIdle(q) = Min(S)
        BY <1>3 DEF FirstIdle
  <2> DEFINE m == Min(S)
  <2> HIDE DEF m
  <2>4. m \in 1 .. n /\ ~q[m].running /\ \A y \in 1 .. n : ~q[y].running => m <= y
        BY <1>1, <2>2 DEF m
  <2>5. \A j \in 1 .. n : j < m => q[j].running
        BY <2>4
  <2> QED BY <2>3, <2>4, <2>5 DEF m
<1> QED BY <1>2, <1>3

LEMMA OutFinite ==
    ASSUME NEW n \in Nat, NEW q \in [1 .. n -> Req]
    PROVE  IsFiniteSet(Outstanding(q)) /\ Cardinality(Outstanding(q)) \in Nat
<1>1. IsFiniteSet(1 .. n)
      BY FS_Interval
<1>2. Outstanding(q) \in SUBSET (1 .. n)
      BY DEF Outstanding
<1> QED BY <1>1, <1>2, FS_Subset, FS_CardinalityType

\* One turn of the loop of issue.
LEMMA IssueOneKeeps ==
    ASSUME NEW n \in Nat, NEW s \in Issuing(n), NEW q0, NEW lo \in Nat, NEW i \in 1 .. n, NEW arg \in 1 .. n,
           handle.max \in Int, IssueKept(s, q0, lo, i - 1), NEW t \in IssueOne(s, i, arg)
    PROVE  t \in Issuing(n) /\ IssueKept(t, q0, lo, i)
<1> DEFINE f == FirstIdle(s.q)
<1>1. s.q \in [1 .. n -> Req] /\ DOMAIN s.q = 1 .. n /\ s.used \in Int /\ s.go \in BOOLEAN
      BY DEF Issuing
<1>2. /\ f \in 1 .. n + 1 /\ \A j \in 1 .. n : j < f => s.q[j].running
      /\ f <= n => ~s.q[f].running
      BY <1>1, FirstIdleIs
<1> HIDE DEF f
<1>3. \A j \in 1 .. n : /\ s.q[j].running \in BOOLEAN /\ s.q[j].done \in BOOLEAN
      BY <1>1 DEF Req
<1>4. CASE ~s.go \/ i < f \/ s.used >= handle.max
  <2>1. t = s
        BY <1>4 DEF IssueOne, f
  <2>2. t.go => (\A j \in 1 .. i : t.q[j].running) \/ t.used >= handle.max
        BY <1>2, <1>4, <2>1
  <2> QED BY <2>1, <2>2 DEF IssueKept
<1>5. CASE s.go /\ ~(i < f) /\ ~(s.used >= handle.max)
  <2>1. \A j \in 1 .. i - 1 : s.q[j].running
        BY <1>5 DEF IssueKept
  <2>2. f = i
        BY <1>2, <1>5, <2>1
  <2>3. ~s.q[i].running
        BY <1>2, <2>2
  <2>4. \A j \in 1 .. n : j > i => ~s.q[j].running
        BY <1>1, <2>3 DEF IssueKept, InOrder
  <2>5. t \in Taken(s, i, arg) \/ t \in TakenLater(s, i) \/ t \in Refused(s, i)
        BY <1>5 DEF IssueOne, f
  <2>6. CASE t \in Taken(s, i, arg)
    <3>1. /\ t \in Issuing(n) /\ t.used = s.used + 1 /\ t.go = TRUE
          /\ \A j \in 1 .. n : j # i => t.q[j].running = s.q[j].running /\ t.q[j].ran = s.q[j].ran
          /\ \A j \in 1 .. n : t.q[j].done = s.q[j].done
          /\ t.q[i].running = TRUE
          /\ \A j \in 1 .. n : t.q[j].status = s.q[j].status \/ (sg = "old" => t.q[j].status # "GOOD")
      <4> HIDE DEF Issuing
      <4> QED BY <2>6, TakenIs, ZenonT(60)
    <3>2. t.q \in [1 .. n -> Req] /\ DOMAIN t.q = 1 .. n
          BY <3>1 DEF Issuing
    <3>4. \A j \in 1 .. i : t.q[j].running
          BY <2>1, <3>1
    <3>3. InOrder(t.q)
      <4>1. \A j \in 1 .. n : j > i => ~t.q[j].running
            BY <2>4, <3>1
      <4>2. ASSUME NEW j \in 1 .. n, NEW k \in 1 .. n, j < k, t.q[k].running PROVE j \in 1 .. i
            BY <4>1, <4>2
      <4> QED BY <3>2, <3>4, <4>2 DEF InOrder
    <3>5. ASSUME sg = "old" PROVE t.used = Cardinality(Outstanding(t.q)) /\ t.used <= handle.max
      <4>1. ~s.q[i].done
            BY <1>1, <2>3, <3>5 DEF IssueKept, DoneHasRun
      <4>2. Outstanding(t.q) = Outstanding(s.q) \cup {i}
            BY <1>1, <3>1, <3>2, <4>1 DEF Outstanding
      <4>3. i \notin Outstanding(s.q)
            BY <2>3 DEF Outstanding
      <4>4. Cardinality(Outstanding(t.q)) = Cardinality(Outstanding(s.q)) + 1
            BY <1>1, <4>2, <4>3, OutFinite, FS_AddElement
      <4> QED BY <1>1, <1>5, <3>1, <3>5, <4>4 DEF IssueKept
    <3>6. ASSUME sg = "old" PROVE DoneHasRun(t.q, lo)
          BY <1>1, <3>1, <3>2, <3>6 DEF IssueKept, DoneHasRun
    <3>7. ASSUME sg = "old", NEW j \in DOMAIN t.q, q0[j].running
          PROVE  t.q[j].running /\ t.q[j].done = q0[j].done /\ t.q[j].ran = q0[j].ran
      <4>1. s.q[j].running /\ s.q[j].done = q0[j].done /\ s.q[j].ran = q0[j].ran
            BY <1>1, <3>2, <3>7 DEF IssueKept
      <4>2. j # i
            BY <2>3, <4>1
      <4> QED BY <3>1, <3>2, <4>1, <4>2
    <3> QED BY <3>1, <3>3, <3>4, <3>5, <3>6, <3>7 DEF IssueKept
  <2>7. CASE t \in TakenLater(s, i)
    <3>1. /\ t \in Issuing(n) /\ t.used = s.used /\ t.go = FALSE
          /\ \A j \in 1 .. n : /\ t.q[j].running = s.q[j].running /\ t.q[j].done = s.q[j].done
                               /\ t.q[j].ran = s.q[j].ran /\ t.q[j].status = s.q[j].status
          BY <2>3, <2>7, LaterIs
    <3>2. t.q \in [1 .. n -> Req] /\ DOMAIN t.q = 1 .. n
          BY <3>1 DEF Issuing
    <3>3. Outstanding(t.q) = Outstanding(s.q)
          BY <1>1, <3>1, <3>2 DEF Outstanding
    <3>4. InOrder(t.q)
          BY <1>1, <3>1, <3>2 DEF IssueKept, InOrder
    <3>5. ASSUME sg = "old" PROVE DoneHasRun(t.q, lo)
          BY <1>1, <3>1, <3>2, <3>5 DEF IssueKept, DoneHasRun
    <3> QED BY <1>1, <3>1, <3>2, <3>3, <3>4, <3>5 DEF IssueKept
  <2>8. CASE t \in Refused(s, i)
    <3>1. /\ t \in Issuing(n) /\ t.used = s.used /\ t.go = FALSE
          /\ \A j \in 1 .. n : j # i => t.q[j] = s.q[j]
          /\ t.q[i].running = (sg = "old") /\ t.q[i].done = TRUE /\ t.q[i].status # "GOOD"
          BY <2>8, RefusedIs
    <3>2. t.q \in [1 .. n -> Req] /\ DOMAIN t.q = 1 .. n
          BY <3>1 DEF Issuing
    <3>3. InOrder(t.q)
          BY <1>1, <2>1, <2>4, <3>1, <3>2 DEF InOrder
    <3>4. Outstanding(t.q) = Outstanding(s.q)
      <4>1. \A j \in 1 .. n : (t.q[j].running /\ ~t.q[j].done) <=> (s.q[j].running /\ ~s.q[j].done)
            BY <2>3, <3>1
      <4> QED BY <1>1, <3>2, <4>1 DEF Outstanding
    <3>5. ASSUME sg = "old" PROVE DoneHasRun(t.q, lo)
          BY <1>1, <3>1, <3>2, <3>5 DEF IssueKept, DoneHasRun
    <3>6. ASSUME sg = "old", NEW j \in DOMAIN t.q, q0[j].running
          PROVE  t.q[j].running /\ t.q[j].done = q0[j].done /\ t.q[j].ran = q0[j].ran
      <4>1. s.q[j].running /\ s.q[j].done = q0[j].done /\ s.q[j].ran = q0[j].ran
            BY <1>1, <3>2, <3>6 DEF IssueKept
      <4> QED BY <2>3, <3>1, <3>2, <4>1
    <3> QED BY <1>1, <3>1, <3>3, <3>4, <3>5, <3>6 DEF IssueKept
  <2> QED BY <2>5, <2>6, <2>7, <2>8
<1> QED BY <1>4, <1>5

LEMMA TypeOfOne ==
    ASSUME NEW n \in Nat, NEW s \in Issuing(n), NEW i \in 1 .. n, NEW arg \in 1 .. n, NEW t \in IssueOne(s, i, arg)
    PROVE  t \in Issuing(n)
<1>1. t = s \/ t \in Taken(s, i, arg) \/ t \in Refused(s, i) \/ t \in TakenLater(s, i)
      BY DEF IssueOne
<1>2. CASE t \in TakenLater(s, i)
  <2> DEFINE x == [s.q[i] EXCEPT !.running = FALSE]
             q1 == [s.q EXCEPT ![i] = x]
  <2>1. s.q \in [1 .. n -> Req] /\ s.used \in Int /\ s.q[i] \in Req
        BY DEF Issuing
  <2>2. t = [s EXCEPT !.go = FALSE, !.q = q1]
        BY <1>2, <2>1 DEF TakenLater
  <2>3. x \in Req
        BY <2>1 DEF Req
  <2> HIDE DEF x
  <2>4. q1 \in [1 .. n -> Req]
        BY <2>1, <2>3
  <2> HIDE DEF q1
  <2> QED BY <2>1, <2>2, <2>4 DEF Issuing
<1> QED BY <1>1, <1>2, TakenIs, RefusedIs

\* What issue leaves of the n requests of the queue q.
LEMMA IssueKeeps ==
    ASSUME NEW n \in Nat, NEW q \in [1 .. n -> Req], NEW u \in Int, NEW lo \in Nat, NEW arg \in Nat,
           handle.max \in Int, IssueKept([q |-> q, used |-> u, go |-> TRUE], q, lo, 0),
           NEW t \in Issue(q, u, arg)
    PROVE  t.q \in [1 .. n -> Req] /\ t.used \in Int /\ IssueKept(t, q, lo, 0)
<1> DEFINE s0 == [q |-> q, used |-> u, go |-> TRUE]
           D == SUBSET Issuing(n)
           F == [i \in 1 .. n |-> [A \in D |-> UNION {IssueOne(s, i, arg) : s \in A}]]
           Is(f) == f = [i \in 0 .. n |-> IF i = 0 THEN {s0} ELSE UNION {IssueOne(s, i, arg) : s \in f[i - 1]}]
           after == CHOOSE f : Is(f)
<1>0. DOMAIN q = 1 .. n /\ Len(q) = n
      OBVIOUS
<1>1. s0 \in Issuing(n)
      BY DEF Issuing
<1>2. CASE arg \notin DOMAIN q
  <2>1. t = s0
        BY <1>2 DEF Issue
  <2> QED BY <1>1, <2>1
<1>3. CASE arg \in DOMAIN q
  <2>0. arg \in 1 .. n
        BY <1>0, <1>3
  <2>1. t \in after[n]
        BY <1>0, <1>3 DEF Issue
  <2> HIDE DEF s0
  <2>2. {s0} \in D
        BY <1>1
  <2>3. F \in [1 .. n -> [D -> D]]
    <3>1. ASSUME NEW A \in D, NEW i \in 1 .. n PROVE UNION {IssueOne(s, i, arg) : s \in A} \in D
      <4>1. ASSUME NEW s \in Issuing(n), NEW x \in IssueOne(s, i, arg) PROVE x \in Issuing(n)
            BY <2>0, <4>1, TypeOfOne
      <4> QED BY <4>1
    <3> QED BY <3>1
  <2>4. PICK g : Follows(g, n, D, {s0}, F)
    <3> HIDE DEF F, D
    <3> QED BY <2>2, <2>3, StepByStep
  <2>5. Is(g)
    <3>1. DOMAIN g = 0 .. n /\ g = [i \in 0 .. n |-> g[i]]
          BY <2>4 DEF Follows
    <3>2. \A i \in 0 .. n : g[i] = IF i = 0 THEN {s0} ELSE UNION {IssueOne(s, i, arg) : s \in g[i - 1]}
      <4>1. ASSUME NEW i \in 0 .. n, i # 0 PROVE g[i] = UNION {IssueOne(s, i, arg) : s \in g[i - 1]}
        <5>1. i \in 1 .. n /\ g[i - 1] \in D
              BY <4>1, <2>4 DEF Follows
        <5>2. g[i] = F[i][g[i - 1]]
              BY <5>1, <2>4 DEF Follows
        <5> HIDE DEF D
        <5> QED BY <5>1, <5>2
      <4>2. g[0] = {s0}
            BY <2>4 DEF Follows
      <4> QED BY <4>1, <4>2
    <3> QED BY <3>1, <3>2
  <2>6. Is(after)
    <3> HIDE DEF Is
    <3> QED BY <2>5
  <2> HIDE DEF after
  <2>7. after[0] = {s0} /\ \A i \in 1 .. n : after[i] = UNION {IssueOne(s, i, arg) : s \in after[i - 1]}
    <3> DEFINE G(i) == IF i = 0 THEN {s0} ELSE UNION {IssueOne(s, i, arg) : s \in after[i - 1]}
    <3>1. after = [i \in 0 .. n |-> G(i)]
          BY <2>6
    <3>2. 0 \in 0 .. n /\ \A i \in 1 .. n : i \in 0 .. n /\ i # 0
          OBVIOUS
    <3>3. G(0) = {s0} /\ \A i \in 1 .. n : G(i) = UNION {IssueOne(s, i, arg) : s \in after[i - 1]}
      <4>1. ASSUME NEW i \in 1 .. n PROVE G(i) = UNION {IssueOne(s, i, arg) : s \in after[i - 1]}
        <5>1. i # 0
              OBVIOUS
        <5> QED BY <5>1
      <4> QED BY <4>1
    <3> HIDE DEF G
    <3>4. \A i \in 0 .. n : after[i] = G(i)
          BY <3>1
    <3> QED BY <3>2, <3>3, <3>4
  <2> DEFINE S == {i \in 0 .. n : \A s \in after[i] : s \in Issuing(n) /\ IssueKept(s, q, lo, i)}
  <2>8. 0 \in S
    <3>1. IssueKept(s0, q, lo, 0)
          BY DEF s0
    <3> QED BY <1>1, <2>7, <3>1
  <2>9. ASSUME NEW i \in 0 .. n - 1, i \in S PROVE i + 1 \in S
    <3>1. i + 1 \in 1 .. n /\ (i + 1) - 1 = i
          OBVIOUS
    <3>2. after[i + 1] = UNION {IssueOne(s, i + 1, arg) : s \in after[i]}
          BY <2>7, <3>1
    <3>3. ASSUME NEW x \in after[i + 1] PROVE x \in Issuing(n) /\ IssueKept(x, q, lo, i + 1)
      <4>1. PICK s \in after[i] : x \in IssueOne(s, i + 1, arg)
            BY <3>2
      <4>2. s \in Issuing(n) /\ IssueKept(s, q, lo, i)
            BY <2>9
      <4> QED BY <2>0, <3>1, <4>1, <4>2, IssueOneKeeps
    <3> QED BY <3>1, <3>3
  <2> HIDE DEF S
  <2>10. n \in S
    <3>1. 0 .. n \subseteq S
          BY <2>8, <2>9, UpTo
    <3> QED BY <3>1
  <2>11. t \in Issuing(n) /\ IssueKept(t, q, lo, n)
         BY <2>1, <2>10 DEF S
  <2> QED BY <2>11 DEF Issuing, IssueKept
<1> QED BY <1>2, <1>3

\* The queue between two calls: in order, and with the old interface counted; what is
\* done in it was refused by the driver.
QueueKept(q, u) ==
    /\ q \in Seq(Req) /\ u \in Int /\ InOrder(q)
    /\ sg = "old" => DoneHasRun(q, 1) /\ u = Cardinality(Outstanding(q)) /\ u <= handle.max

QueueInv ==
    /\ sg \in {"old", "sg3"} /\ maxRequest \in Nat /\ firstOpen \in BOOLEAN /\ handle.max \in Nat
    /\ handle.open => QueueKept(queue, used)
    /\ ~handle.open => queue = <<>> /\ used \in Int
    /\ free \in 0 .. MaxFree /\ Len(queue) + free <= MaxFree
    /\ waited.status \in Said \cup {"DEVICE_BUSY"}
    /\ BufferFits /\ OldGoodMeansRan

\* The request at the head leaves the queue.
LEMMA TailKept ==
    ASSUME NEW n \in Nat \ {0}, NEW q \in [1 .. n -> Req], NEW u \in Int, InOrder(q), handle.max \in Nat,
           sg = "old" => /\ DoneHasRun(q, 2) /\ q[1].done
                         /\ u = Cardinality(Outstanding(q)) /\ u <= handle.max
    PROVE  QueueKept(Tail(q), u) /\ Len(Tail(q)) = n - 1
<1> DEFINE p == Tail(q)
<1>1. q \in Seq(Req) /\ Len(q) = n /\ DOMAIN q = 1 .. n
      OBVIOUS
<1>2. p \in Seq(Req) /\ Len(p) = n - 1 /\ DOMAIN p = 1 .. n - 1 /\ \A i \in 1 .. n - 1 : p[i] = q[i + 1]
  <2>1. q # <<>>
        BY <1>1
  <2> QED BY <1>1, <2>1
<1> HIDE DEF p
<1>3. InOrder(p)
  <2>1. ASSUME NEW i \in 1 .. n - 1, NEW j \in 1 .. n - 1, i < j, p[j].running PROVE p[i].running
    <3>1. i + 1 \in 1 .. n /\ j + 1 \in 1 .. n /\ i + 1 < j + 1
          BY <2>1
    <3>2. p[i] = q[i + 1] /\ p[j] = q[j + 1]
          BY <1>2
    <3> QED BY <1>1, <2>1, <3>1, <3>2 DEF InOrder
  <2> QED BY <1>2, <2>1 DEF InOrder
<1>4. ASSUME sg = "old" PROVE DoneHasRun(p, 1)
  <2>1. ASSUME NEW i \in 1 .. n - 1, p[i].done PROVE p[i].running /\ p[i].status # "GOOD"
    <3>1. i + 1 \in 1 .. n /\ i + 1 >= 2 /\ p[i] = q[i + 1]
          BY <1>2
    <3>2. q[i + 1].done => q[i + 1].running /\ q[i + 1].status # "GOOD"
          BY <1>1, <1>4, <3>1 DEF DoneHasRun
    <3> QED BY <2>1, <3>1, <3>2
  <2> QED BY <1>2, <2>1 DEF DoneHasRun
<1>5. ASSUME sg = "old" PROVE Cardinality(Outstanding(p)) = Cardinality(Outstanding(q))
  <2> DEFINE f == [i \in Outstanding(p) |-> i + 1]
  <2>1. /\ Outstanding(p) = {i \in 1 .. n - 1 : p[i].running /\ ~p[i].done}
        /\ Outstanding(q) = {i \in 1 .. n : q[i].running /\ ~q[i].done}
        BY <1>1, <1>2 DEF Outstanding
  <2>2. \A i \in Outstanding(p) : i \in Nat /\ i + 1 \in Outstanding(q)
    <3>1. ASSUME NEW i \in 1 .. n - 1, p[i].running, ~p[i].done PROVE i + 1 \in Outstanding(q)
      <4>1. i + 1 \in 1 .. n /\ p[i] = q[i + 1]
            BY <1>2
      <4> QED BY <2>1, <3>1, <4>1
    <3> QED BY <2>1, <3>1
  <2>3. \A k \in Outstanding(q) : \E i \in Outstanding(p) : k = i + 1
    <3>1. ASSUME NEW k \in 1 .. n, q[k].running, ~q[k].done PROVE \E i \in Outstanding(p) : k = i + 1
      <4>1. k # 1
            BY <1>5, <3>1
      <4>2. k - 1 \in 1 .. n - 1 /\ k = (k - 1) + 1
            BY <4>1
      <4>3. p[k - 1] = q[k]
            BY <1>2, <4>2
      <4>4. k - 1 \in Outstanding(p)
            BY <2>1, <3>1, <4>2, <4>3
      <4> QED BY <4>2, <4>4
    <3> QED BY <2>1, <3>1
  <2>4. f \in Bijection(Outstanding(p), Outstanding(q))
    <3>1. f \in [Outstanding(p) -> Outstanding(q)]
          BY <2>2
    <3>2. \A a, b \in Outstanding(p) : f[a] = f[b] => a = b
          BY <2>2
    <3>3. \A k \in Outstanding(q) : \E i \in Outstanding(p) : f[i] = k
          BY <2>3
    <3> HIDE DEF f
    <3> QED BY <3>1, <3>2, <3>3, Fun_IsBij
  <2>5. ExistsBijection(Outstanding(p), Outstanding(q))
        BY <2>4, Fun_ExistsBij
  <2>6. IsFiniteSet(Outstanding(p))
    <3>1. p \in [1 .. n - 1 -> Req] /\ n - 1 \in Nat
          BY <1>2
    <3> QED BY <3>1, OutFinite
  <2> QED BY <2>5, <2>6, FS_Bijection
<1> QED BY <1>2, <1>3, <1>4, <1>5 DEF QueueKept, p

\* A call of issue between two states of the queue.
LEMMA IssueQueue ==
    ASSUME NEW q, NEW u, QueueKept(q, u), handle.max \in Nat, NEW arg \in Nat, NEW t \in Issue(q, u, arg)
    PROVE  /\ t.q \in [1 .. Len(q) -> Req] /\ Len(q) \in Nat /\ Len(t.q) = Len(q) /\ QueueKept(t.q, t.used)
           /\ sg = "old" => \A j \in DOMAIN q : q[j].running =>
                              t.q[j].running /\ t.q[j].done = q[j].done /\ t.q[j].ran = q[j].ran
<1> DEFINE n == Len(q)
           s0 == [q |-> q, used |-> u, go |-> TRUE]
<1>1. n \in Nat /\ q \in [1 .. n -> Req] /\ u \in Int /\ handle.max \in Int
      BY DEF QueueKept
<1>2. IssueKept(s0, q, 1, 0)
  <2>1. s0.q = q /\ s0.used = u
        OBVIOUS
  <2> HIDE DEF s0
  <2> QED BY <2>1 DEF QueueKept, IssueKept
<1>3. t.q \in [1 .. n -> Req] /\ t.used \in Int /\ IssueKept(t, q, 1, 0)
  <2> HIDE DEF n
  <2> QED BY <1>1, <1>2, IssueKeeps
<1>4. t.q \in Seq(Req) /\ Len(t.q) = n /\ DOMAIN t.q = DOMAIN q
      BY <1>1, <1>3
<1> QED BY <1>1, <1>3, <1>4 DEF IssueKept, QueueKept

LEMMA Kept ==
    ASSUME NEW q, NEW u, QueueKept(q, u), queue' = q, used' = u, sg' = sg, handle' = handle
    PROVE  QueueKept(queue, used)'
BY DEF QueueKept, DoneHasRun, InOrder, Outstanding

LEMMA EnterKeeps == ASSUME QueueInv, ReqEnter PROVE QueueInv'
<1> DEFINE q == Append(queue, Request)
           n == Len(queue)
<1>1. PICK s \in Issue(q, used, n + 1) : queue' = s.q /\ used' = s.used
      BY DEF ReqEnter
<1>2. /\ handle.open /\ QueueKept(queue, used) /\ handle.max \in Nat
      /\ free' = (IF free > 0 THEN free - 1 ELSE free) /\ (free > 0 \/ n < MaxFree)
      /\ UNCHANGED <<sg, maxRequest, firstOpen, handle, waited>>
      BY DEF QueueInv, ReqEnter
<1>3. Request \in Req /\ Request.running = FALSE /\ Request.done = FALSE
      BY DEF Request, Req, Said, WhatRan
<1>4. /\ q \in Seq(Req) /\ n \in Nat /\ Len(q) = n + 1 /\ q[n + 1] = Request
      /\ \A i \in 1 .. n : q[i] = queue[i]
      /\ DOMAIN q = 1 .. n + 1 /\ DOMAIN queue = 1 .. n
      BY <1>2, <1>3 DEF QueueKept
<1> HIDE DEF q, n
<1>5. Outstanding(q) = Outstanding(queue)
  <2>1. \A i \in 1 .. n + 1 : i \in 1 .. n \/ i = n + 1
        BY <1>4
  <2>2. 1 .. n \subseteq 1 .. n + 1
        BY <1>4
  <2>3. \A i \in DOMAIN q : i \in Outstanding(q) <=> i \in Outstanding(queue)
        BY <1>3, <1>4, <2>1 DEF Outstanding
  <2> QED BY <1>4, <2>2, <2>3 DEF Outstanding
<1>6. InOrder(q)
  <2>1. \A i \in 1 .. n + 1 : q[i].running => i \in 1 .. n
        BY <1>3, <1>4
  <2>2. ASSUME NEW i \in 1 .. n + 1, NEW j \in 1 .. n + 1, i < j, q[j].running PROVE q[i].running
    <3>1. j \in 1 .. n /\ i \in 1 .. n
          BY <1>4, <2>1, <2>2
    <3> QED BY <1>2, <1>4, <2>2, <3>1 DEF QueueKept, InOrder
  <2> QED BY <1>4, <2>2 DEF InOrder
<1>7. ASSUME sg = "old" PROVE DoneHasRun(q, 1)
  <2>1. \A i \in 1 .. n + 1 : q[i].done => i \in 1 .. n
        BY <1>3, <1>4
  <2> QED BY <1>2, <1>4, <1>7, <2>1 DEF QueueKept, DoneHasRun
<1>8. QueueKept(q, used)
      BY <1>2, <1>4, <1>5, <1>6, <1>7 DEF QueueKept
<1>9. QueueKept(s.q, s.used) /\ Len(s.q) = n + 1
  <2>1. n + 1 \in Nat
        BY <1>4
  <2> QED BY <1>2, <1>4, <1>8, <2>1, IssueQueue
<1>10. QueueKept(queue, used)'
       BY <1>1, <1>2, <1>9, Kept
<1>11. /\ free' \in 0 .. MaxFree /\ Len(queue') + free' <= MaxFree
       BY <1>1, <1>2, <1>4, <1>9, ScsiAssumption DEF QueueInv, n
<1>12. handle'.open
       BY <1>2
<1> QED BY <1>2, <1>10, <1>11, <1>12 DEF QueueInv, BufferFits, OldGoodMeansRan

\* What is left of req_wait when the next request is issued and its own leaves.
LEMMA LeavesKept ==
    ASSUME QueueInv, handle.open, NEW n \in Nat \ {0}, n = Len(queue), NEW q \in [1 .. n -> Req], NEW u \in Int, InOrder(q),
           NEW st \in Said \cup {"DEVICE_BUSY"},
           sg = "old" => /\ DoneHasRun(q, 2) /\ q[1].done
                         /\ u = Cardinality(Outstanding(q)) /\ u <= handle.max
                         /\ st = "GOOD" => q[1].ran # "no",
           used' = u, Dequeue(q, st)
    PROVE  QueueInv'
<1>1. /\ queue' = Tail(q) /\ free' = free + 1 /\ waited' = [status |-> st, ran |-> q[1].ran]
      /\ UNCHANGED <<sg, maxRequest, firstOpen, handle>>
      BY DEF Dequeue
<1>2. QueueKept(Tail(q), u) /\ Len(Tail(q)) = n - 1
      BY TailKept DEF QueueInv
<1>3. QueueKept(queue, used)'
      BY <1>1, <1>2, Kept
<1>4. free' \in 0 .. MaxFree /\ Len(queue') + free' <= MaxFree
  <2>1. Len(queue') = n - 1 /\ free' = free + 1
        BY <1>1, <1>2
  <2>2. free \in 0 .. MaxFree /\ n + free <= MaxFree /\ MaxFree \in Nat
        BY ScsiAssumption DEF QueueInv
  <2> QED BY <2>1, <2>2
<1>5. OldGoodMeansRan'
      BY <1>1 DEF OldGoodMeansRan
<1>6. BufferFits'
      BY <1>1 DEF QueueInv, BufferFits
<1> QED BY <1>1, <1>3, <1>4, <1>5, <1>6 DEF QueueInv

LEMMA WaitKeeps == ASSUME QueueInv, ReqWait PROVE QueueInv'
<1>1. PICK s \in Issue(queue, used, 1) : WaitDone(s) \/ (IF sg = "old" THEN WaitRead(s) ELSE WaitSgIo(s))
      BY DEF ReqWait
<1>2. handle.open /\ queue # <<>> /\ QueueKept(queue, used) /\ handle.max \in Nat /\ sg \in {"old", "sg3"}
      BY DEF ReqWait, QueueInv
<1> DEFINE n == Len(queue)
<1>3. n \in Nat \ {0}
      BY <1>2 DEF QueueKept
<1>4. s.q \in [1 .. n -> Req] /\ QueueKept(s.q, s.used) /\ Len(s.q) = n
      BY <1>1, <1>2, IssueQueue
<1> HIDE DEF n
<1>5. CASE WaitDone(s)
  <2>1. PICK t \in Issue(s.q, s.used, 2) : used' = t.used /\ Dequeue(t.q, t.q[1].status)
        BY <1>5 DEF WaitDone
  <2>2. /\ t.q \in [1 .. n -> Req] /\ QueueKept(t.q, t.used)
        /\ sg = "old" => \A j \in DOMAIN s.q : s.q[j].running =>
              t.q[j].running /\ t.q[j].done = s.q[j].done /\ t.q[j].ran = s.q[j].ran
        BY <1>2, <1>4, IssueQueue
  <2>3. 1 \in DOMAIN s.q /\ 1 \in DOMAIN t.q /\ s.q[1].done
        BY <1>3, <1>4, <1>5, <2>2 DEF WaitDone
  <2>4. sg = "old" => s.q[1].running /\ t.q[1].done /\ t.q[1].status # "GOOD"
        BY <1>4, <2>2, <2>3 DEF QueueKept, DoneHasRun
  <2>5. t.q[1].status \in Said
        BY <2>2, <2>3 DEF Req
  <2>6. t.used \in Int /\ InOrder(t.q)
        BY <2>2 DEF QueueKept
  <2>7. sg = "old" => DoneHasRun(t.q, 2) /\ t.used = Cardinality(Outstanding(t.q)) /\ t.used <= handle.max
    <3>1. \A i \in DOMAIN t.q : i \in Nat /\ (i >= 2 => i >= 1)
      <4>1. DOMAIN t.q = 1 .. n /\ n \in Nat
            BY <1>3, <2>2
      <4> QED BY <4>1
    <3> QED BY <2>2, <3>1 DEF QueueKept, DoneHasRun
  <2> DEFINE st == t.q[1].status
  <2>8. st \in Said \cup {"DEVICE_BUSY"} /\ Dequeue(t.q, st) /\ (sg = "old" => st # "GOOD")
        BY <2>1, <2>4, <2>5
  <2> HIDE DEF st
  <2> QED BY <1>2, <1>3, <2>1, <2>2, <2>4, <2>6, <2>7, <2>8, LeavesKept DEF n
<1>6. CASE sg = "old" /\ WaitRead(s)
  <2>1. ~s.q[1].done /\ s.q[1].running
        BY <1>6 DEF WaitRead
  <2>2. PICK r \in Ran : \E t \in Issue([s.q EXCEPT ![1].done = TRUE, ![1].ran = r], s.used - 1, 2) :
                           used' = t.used /\ \E st \in StatusOf(r) \cup {"IO_ERROR"} : Dequeue(t.q, st)
        BY <1>6 DEF WaitRead
  <2> DEFINE x == [s.q[1] EXCEPT !.done = TRUE, !.ran = r]
             p == [s.q EXCEPT ![1] = x]
  <2>3. 1 \in 1 .. n /\ s.q[1] \in Req /\ r \in WhatRan /\ r # "no" /\ DOMAIN s.q = 1 .. n
        BY <1>3, <1>4 DEF WhatRan, Ran
  <2>4. p = [s.q EXCEPT ![1].done = TRUE, ![1].ran = r]
        BY <1>4, <2>3
  <2>5. x \in Req /\ x.done = TRUE /\ x.ran = r /\ x.running = TRUE
    <3>1. s.q[1].running \in BOOLEAN
          BY <2>3 DEF Req
    <3> QED BY <2>1, <2>3, <3>1 DEF Req
  <2> HIDE DEF x
  <2>6. p \in [1 .. n -> Req] /\ p[1] = x /\ DOMAIN p = 1 .. n /\ \A j \in 1 .. n : j # 1 => p[j] = s.q[j]
        BY <1>4, <2>3, <2>5
  <2>7. PICK t \in Issue(p, s.used - 1, 2) :
             used' = t.used /\ \E st \in StatusOf(r) \cup {"IO_ERROR"} : Dequeue(t.q, st)
        BY <2>2, <2>4
  <2> HIDE DEF p
  <2>8. PICK st \in StatusOf(r) \cup {"IO_ERROR"} : Dequeue(t.q, st)
        BY <2>7
  <2>9. InOrder(p) /\ DoneHasRun(p, 2)
    <3>1. InOrder(s.q) /\ DoneHasRun(s.q, 1)
          BY <1>4, <1>6 DEF QueueKept
    <3>2. InOrder(p)
          BY <2>1, <2>3, <2>5, <2>6, <3>1 DEF InOrder
    <3>3. DoneHasRun(p, 2)
          BY <2>3, <2>5, <2>6, <3>1 DEF DoneHasRun
    <3> QED BY <3>2, <3>3
  <2>10. s.used - 1 \in Int /\ s.used - 1 = Cardinality(Outstanding(p)) /\ s.used - 1 <= handle.max
    <3>1. Outstanding(p) = Outstanding(s.q) \ {1}
          BY <2>3, <2>5, <2>6 DEF Outstanding
    <3>2. 1 \in Outstanding(s.q)
          BY <2>1, <2>3 DEF Outstanding
    <3>3. Cardinality(Outstanding(p)) = Cardinality(Outstanding(s.q)) - 1 /\ Cardinality(Outstanding(s.q)) \in Nat
      <4>1. IsFiniteSet(Outstanding(s.q)) /\ Cardinality(Outstanding(s.q)) \in Nat
            BY <1>3, <1>4, OutFinite
      <4> QED BY <3>1, <3>2, <4>1, FS_RemoveElement
    <3> QED BY <1>2, <1>4, <1>6, <3>3 DEF QueueKept
  <2>11. t.q \in [1 .. n -> Req] /\ t.used \in Int /\ IssueKept(t, p, 2, 0)
    <3> DEFINE u == s.used - 1
               s0 == [q |-> p, used |-> u, go |-> TRUE]
    <3>1. u \in Int /\ u = Cardinality(Outstanding(p)) /\ u <= handle.max /\ t \in Issue(p, u, 2)
          BY <2>7, <2>10
    <3> HIDE DEF u
    <3>2. s0.q = p /\ s0.used = u
          OBVIOUS
    <3>3. IssueKept(s0, p, 2, 0)
      <4> HIDE DEF s0
      <4> QED BY <2>9, <3>1, <3>2 DEF IssueKept
    <3>4. n \in Nat /\ 2 \in Nat /\ handle.max \in Int
          BY <1>2, <1>3
    <3> QED BY <2>6, <3>1, <3>3, <3>4, IssueKeeps
  <2>12. p[1].running /\ 1 \in DOMAIN t.q
         BY <2>3, <2>5, <2>6, <2>11
  <2>13. t.q[1].done /\ t.q[1].ran # "no"
         BY <1>6, <2>3, <2>5, <2>6, <2>11, <2>12 DEF IssueKept
  <2>14. st \in Said \cup {"DEVICE_BUSY"}
         BY <2>8 DEF StatusOf, Said
  <2>15. InOrder(t.q) /\ DoneHasRun(t.q, 2) /\ t.used = Cardinality(Outstanding(t.q)) /\ t.used <= handle.max
         BY <1>6, <2>11 DEF IssueKept
  <2> QED BY <1>2, <1>3, <2>7, <2>8, <2>11, <2>13, <2>14, <2>15, LeavesKept DEF n
<1>7. CASE sg = "sg3" /\ WaitSgIo(s)
  <2> DEFINE x == [s.q[1] EXCEPT !.done = TRUE]
             p == [s.q EXCEPT ![1] = x]
  <2>1. PICK t \in Issue([s.q EXCEPT ![1].done = TRUE], s.used - 1, 2) :
              used' = t.used /\ \E st \in StatusOf(t.q[1].ran) : Dequeue(t.q, st)
        BY <1>7 DEF WaitSgIo
  <2>2. 1 \in 1 .. n /\ s.q[1] \in Req /\ DOMAIN s.q = 1 .. n
        BY <1>3, <1>4
  <2>3. p = [s.q EXCEPT ![1].done = TRUE]
        BY <1>4, <2>2
  <2>4. x \in Req /\ x.running = s.q[1].running
        BY <2>2 DEF Req
  <2> HIDE DEF x
  <2>5. p \in [1 .. n -> Req] /\ p[1] = x /\ DOMAIN p = 1 .. n /\ \A j \in 1 .. n : j # 1 => p[j] = s.q[j]
        BY <1>4, <2>2, <2>4
  <2>6. t \in Issue(p, s.used - 1, 2)
        BY <2>1, <2>3
  <2> HIDE DEF p
  <2>7. p \in Seq(Req) /\ Len(p) = n /\ s.used - 1 \in Int
    <3>1. p \in Seq(Req) /\ Len(p) = n
          BY <1>3, <2>5
    <3>2. s.used \in Int
          BY <1>4 DEF QueueKept
    <3> QED BY <3>1, <3>2
  <2>8. InOrder(p)
    <3>1. InOrder(s.q)
          BY <1>4 DEF QueueKept
    <3>2. \A j \in 1 .. n : p[j].running = s.q[j].running
          BY <2>4, <2>5
    <3> QED BY <2>2, <2>5, <3>1, <3>2 DEF InOrder
  <2>9. QueueKept(p, s.used - 1)
        BY <1>7, <2>7, <2>8 DEF QueueKept
  <2>10. t.q \in [1 .. n -> Req] /\ QueueKept(t.q, t.used)
         BY <1>2, <2>6, <2>7, <2>9, IssueQueue
  <2>11. PICK st \in StatusOf(t.q[1].ran) : Dequeue(t.q, st)
         BY <2>1
  <2>12. st \in Said \cup {"DEVICE_BUSY"}
         BY <2>11 DEF StatusOf, Said
  <2>13. InOrder(t.q) /\ t.used \in Int
         BY <2>10 DEF QueueKept
  <2> QED BY <1>2, <1>3, <1>7, <2>1, <2>10, <2>11, <2>12, <2>13, LeavesKept DEF n
<1> QED BY <1>1, <1>2, <1>5, <1>6, <1>7

LEMMA Emptied ==
    ASSUME queue' = <<>>, used' \in Int, sg' = "old" => used' = 0, handle'.max \in Nat
    PROVE  QueueKept(queue, used)'
<1>1. queue' \in Seq(Req) /\ DOMAIN queue' = {}
      OBVIOUS
<1>2. InOrder(queue') /\ DoneHasRun(queue', 1) /\ Outstanding(queue') = {}
      BY <1>1 DEF InOrder, DoneHasRun, Outstanding
<1>3. Cardinality(Outstanding(queue')) = 0
      BY <1>2, FS_EmptySet
<1>4. ASSUME sg' = "old" PROVE used' = Cardinality(Outstanding(queue')) /\ used' <= handle'.max
      BY <1>3, <1>4
<1> QED BY <1>1, <1>2, <1>4 DEF QueueKept

LEMMA OpenCloseKeep == ASSUME QueueInv, ScsiOpen \/ ScsiOpenFails \/ ReqFlushAll \/ ScsiClose PROVE QueueInv'
<1>1. /\ Outstanding(<<>>) = {} /\ Cardinality({}) = 0
      /\ InOrder(<<>>) /\ DoneHasRun(<<>>, 1) /\ <<>> \in Seq(Req) /\ Len(<<>>) = 0
      BY FS_EmptySet DEF Outstanding, InOrder, DoneHasRun
<1>2. \A h : h.max \in Nat /\ handle' = h /\ queue' = <<>> /\ used' = 0 => QueueKept(queue, used)'
  <2> SUFFICES ASSUME handle'.max \in Nat, queue' = <<>>, used' = 0 PROVE QueueKept(queue, used)'
      OBVIOUS
  <2> QED BY Emptied
<1>3. WantedSize \in Nat /\ Probed \subseteq Nat /\ Depths \subseteq Nat
      BY ScsiAssumption DEF Probed, Granted, Depths
<1>4. 0 \in 0 .. MaxFree /\ MaxFree \in Nat
      BY ScsiAssumption
<1>5. CASE ScsiOpen
  <2>1. PICK max \in (IF maxRequest = 0 THEN Probed ELSE {maxRequest}), depth \in Depths :
           LET asks == IF firstOpen THEN WantedSize ELSE max IN
           \E got \in Granted(asks) :
             /\ maxRequest' = max /\ firstOpen' = FALSE
             /\ handle' = IF ~firstOpen /\ got # asks THEN Closed
                          ELSE [open |-> TRUE, buf |-> got, max |-> depth, first |-> firstOpen]
        BY <1>5 DEF ScsiOpen
  <2> DEFINE asks == IF firstOpen THEN WantedSize ELSE max
  <2>2. PICK got \in Granted(asks) :
             /\ maxRequest' = max /\ firstOpen' = FALSE
             /\ handle' = IF ~firstOpen /\ got # asks THEN Closed
                          ELSE [open |-> TRUE, buf |-> got, max |-> depth, first |-> firstOpen]
        BY <2>1
  <2>3. max \in Nat /\ depth \in Nat
        BY <1>3, <2>1 DEF QueueInv
  <2>4. queue' = <<>> /\ used' = 0 /\ free' = 0 /\ waited' = NotWaited /\ sg' = sg
        BY <1>5 DEF ScsiOpen
  <2>5. handle'.max \in Nat /\ handle'.open \in BOOLEAN
        BY <2>2, <2>3 DEF Closed
  <2>6. BufferFits'
    <3>1. CASE handle' = Closed
          BY <3>1 DEF BufferFits, Closed
    <3>2. CASE handle' = [open |-> TRUE, buf |-> got, max |-> depth, first |-> firstOpen] /\ (firstOpen \/ got = max)
          BY <2>2, <2>3, <3>2 DEF BufferFits
    <3> QED BY <2>2, <3>1, <3>2
  <2>7. QueueKept(queue, used)'
        BY <1>2, <2>4, <2>5
  <2>8. OldGoodMeansRan' /\ waited'.status \in Said
        BY <2>4 DEF OldGoodMeansRan, NotWaited, Said
  <2>9. Len(queue') + free' <= MaxFree
        BY <1>1, <1>4, <2>4
  <2>10. maxRequest' \in Nat /\ firstOpen' \in BOOLEAN /\ used' \in Int /\ free' \in 0 .. MaxFree
    <3>1. maxRequest' = max /\ firstOpen' = FALSE
          BY <2>2
    <3>2. maxRequest' \in Nat
          BY <2>3, <3>1
    <3>3. firstOpen' \in BOOLEAN
          BY <3>1
    <3>4. used' \in Int
          BY <2>4
    <3>5. free' \in 0 .. MaxFree
          BY <1>4, <2>4
    <3> QED BY <3>2, <3>3, <3>4, <3>5
  <2>11. sg' \in {"old", "sg3"} /\ queue' = <<>>
         BY <2>4 DEF QueueInv
  <2> QED BY <2>5, <2>6, <2>7, <2>8, <2>9, <2>10, <2>11 DEF QueueInv
<1>6. CASE ScsiOpenFails
  <2>1. maxRequest' \in Nat /\ firstOpen' = FALSE /\ ~handle.open
        BY <1>3, <1>6 DEF ScsiOpenFails, QueueInv
  <2> QED BY <1>6, <2>1 DEF ScsiOpenFails, QueueInv, BufferFits, OldGoodMeansRan
<1>7. CASE ReqFlushAll
  <2>1. /\ handle.open /\ QueueKept(queue, used) /\ queue' = <<>> /\ free' = free + Len(queue)
        /\ used' = used - Cardinality(Outstanding(queue)) /\ UNCHANGED <<sg, maxRequest, firstOpen, handle, waited>>
        BY <1>7 DEF ReqFlushAll, QueueInv
  <2> DEFINE n == Len(queue)
  <2>2. n \in Nat /\ queue \in [1 .. n -> Req]
        BY <2>1 DEF QueueKept
  <2>3. Cardinality(Outstanding(queue)) \in Nat
    <3> HIDE DEF n
    <3> QED BY <2>2, OutFinite
  <2>4. used' \in Int /\ (sg = "old" => used' = 0)
        BY <2>1, <2>3 DEF QueueKept
  <2>6. QueueKept(queue, used)'
        BY <2>1, <2>4, Emptied DEF QueueInv
  <2>7. free' \in 0 .. MaxFree /\ Len(queue') + free' <= MaxFree
        BY <1>1, <1>4, <2>1, <2>2 DEF QueueInv
  <2> QED BY <2>1, <2>6, <2>7 DEF QueueInv, BufferFits, OldGoodMeansRan
<1>8. CASE ScsiClose
  <2>1. /\ handle' = Closed /\ queue' = <<>> /\ used' = 0 /\ free' = 0 /\ waited' = NotWaited
        /\ UNCHANGED <<sg, maxRequest, firstOpen>>
        BY <1>8 DEF ScsiClose
  <2>2. handle'.max \in Nat /\ handle'.open = FALSE
        BY <2>1 DEF Closed
  <2>3. BufferFits' /\ OldGoodMeansRan' /\ waited'.status \in Said
        BY <2>1, <2>2 DEF BufferFits, OldGoodMeansRan, NotWaited, Said
  <2>4. Len(queue') + free' <= MaxFree
        BY <1>1, <1>4, <2>1
  <2> QED BY <1>4, <2>1, <2>2, <2>3, <2>4 DEF QueueInv
<1> QED BY <1>5, <1>6, <1>7, <1>8

LEMMA QueueAlways == QueueSpec => []QueueInv
<1>1. QueueInit => QueueInv
  <2> SUFFICES ASSUME QueueInit PROVE QueueInv
      OBVIOUS
  <2>1. Len(<<>>) = 0 /\ MaxFree \in Nat
        BY ScsiAssumption
  <2> QED BY <2>1 DEF QueueInit, QueueInv, Closed, NotWaited, Said, BufferFits, OldGoodMeansRan
<1>2. QueueInv /\ [QueueNext]_queueVars => QueueInv'
  <2> SUFFICES ASSUME QueueInv, UNCHANGED queueVars PROVE QueueInv'
      BY EnterKeeps, WaitKeeps, OpenCloseKeep DEF QueueNext
  <2>1. /\ queue' = queue /\ used' = used /\ sg' = sg /\ handle' = handle /\ free' = free
        /\ maxRequest' = maxRequest /\ firstOpen' = firstOpen /\ waited' = waited
        BY DEF queueVars
  <2>2. handle.open => QueueKept(queue, used)'
        BY <2>1, Kept DEF QueueInv
  <2> QED BY <2>1, <2>2 DEF QueueInv, BufferFits, OldGoodMeansRan
<1> QED BY <1>1, <1>2, PTL DEF QueueSpec

LEMMA QueueInvSafe ==
    QueueInv => ScsiTypeOK /\ RunsInOrder /\ QueueCounted /\ BufferFits /\ OldGoodMeansRan
<1> SUFFICES ASSUME QueueInv PROVE ScsiTypeOK /\ RunsInOrder /\ QueueCounted
    BY DEF QueueInv
<1>1. queue \in Seq(Req) /\ InOrder(queue) /\ used \in Int
  <2>1. CASE handle.open
        BY <2>1 DEF QueueInv, QueueKept
  <2>2. CASE ~handle.open
    <3>1. DOMAIN queue = {} /\ queue \in Seq(Req) /\ used \in Int
      <4>1. queue = <<>> /\ used \in Int
            BY <2>2 DEF QueueInv
      <4>2. DOMAIN queue = {}
            BY <4>1
      <4>3. queue \in Seq(Req)
            BY <4>1
      <4> QED BY <4>1, <4>2, <4>3
    <3> QED BY <3>1 DEF InOrder
  <2> QED BY <2>1, <2>2
<1>2. \A i \in DOMAIN queue : queue[i] \in Req
      BY <1>1
<1>3. RunsInOrder
      BY <1>1 DEF InOrder, RunsInOrder
<1>4. QueueCounted
      BY DEF QueueInv, QueueKept, QueueCounted
<1>5. ScsiTypeOK
  <2>1. \A i \in DOMAIN queue :
         queue[i] \in [running : BOOLEAN, done : BOOLEAN,
                       status : {"GOOD", "IO_ERROR", "NO_MEM"}, ran : {"no"} \cup Ran]
        BY <1>2 DEF Req, Said, WhatRan
  <2> QED BY <1>1, <2>1 DEF ScsiTypeOK, QueueInv, Said
<1> QED BY <1>3, <1>4, <1>5

-----------------------------------------------------------------------------
(* The device files.                                                       *)

Files == Nat \X Nat

\* What lx_chk_devicename works on.
Searching == [base : {0} \cup DevPrefixes, devfs : {-1, 0, 1}, att : SUBSET (ScsiIds \X Files)]

\* AttachedRight, of one call of attach.
Right(a) == IF a[2] = DevfsFile THEN a[1] \in devfsNodes ELSE node[a[2][1]][a[2][2]] = a[1]

\* The files are numbered without gaps under the first prefix.
Gapless == \A n \in DevNums : node[1][n] # "none" => \A j \in DevNums : j < n => node[1][j] # "none"

\* NoneMissed, of one device.
Found(id, att) == \E f \in {<<1, n>> : n \in DevNums} \cup {DevfsFile} : <<id, f>> \in att

NameInv ==
    /\ base \in {0} \cup DevPrefixes /\ devfs \in {-1, 0, 1}
    /\ AttachedRight /\ NoneMissed

LEMMA MkIs ==
    ASSUME NEW s, s.base \in {0} \cup DevPrefixes, NEW n, NEW g, g = MkDevicename(s, n)
    PROVE  /\ g.found = "none" => g.base = s.base
           /\ g.found # "none" => /\ g.base \in DevPrefixes /\ n \in DevNums /\ g.found = node[g.base][n]
                                  /\ g.file = <<g.base, n>> /\ (s.base = 0 \/ g.base = s.base)
           /\ s.base \in {0, 1} /\ n \in DevNums /\ node[1][n] # "none" => g.base = 1 /\ g.found # "none"
<1> DEFINE K == IF s.base = 0 THEN DevPrefixes ELSE {s.base}
           there == {k \in K : n \in DevNums /\ node[k][n] # "none"}
<1>1. K \subseteq DevPrefixes /\ DevPrefixes \subseteq Nat \ {0} /\ 1 \in DevPrefixes
      BY ScsiAssumption
<1>2. CASE there = {}
  <2>1. g = [base |-> s.base, found |-> "none", file |-> <<0, n>>]
        BY <1>2 DEF MkDevicename
  <2>2. s.base \in {0, 1} => 1 \in K
        BY <1>1
  <2>3. ~(s.base \in {0, 1} /\ n \in DevNums /\ node[1][n] # "none")
        BY <1>2, <2>2
  <2> QED BY <2>1, <2>3
<1>3. CASE there # {}
  <2> DEFINE m == Min(there)
  <2>1. g = [base |-> m, found |-> node[m][n], file |-> <<m, n>>]
        BY <1>3 DEF MkDevicename
  <2>2. m \in there /\ \A k \in there : m <= k
    <3>1. there \in SUBSET Nat
          BY <1>1
    <3> QED BY <1>3, <3>1, MinOf
  <2> HIDE DEF m
  <2>3. m \in K /\ n \in DevNums /\ node[m][n] # "none" /\ m \in DevPrefixes
        BY <1>1, <2>2
  <2>4. s.base = 0 \/ m = s.base
        BY <2>3
  <2>5. ASSUME s.base \in {0, 1}, node[1][n] # "none" PROVE m = 1
    <3>1. 1 \in there
          BY <1>1, <2>3, <2>5
    <3>2. m <= 1 /\ m \in Nat \ {0}
          BY <1>1, <2>2, <2>3, <3>1
    <3> QED BY <3>2
  <2>6. g.base = m /\ g.found = node[m][n] /\ g.file = <<m, n>>
        BY <2>1
  <2> QED BY <2>3, <2>4, <2>5, <2>6
<1> QED BY <1>2, <1>3

\* lx_scan_sg gives files of the device, and misses none when there are no gaps.
LEMMA ScanIs ==
    ASSUME NEW b, NEW guess, NEW id \in ScsiIds
    PROVE  /\ \A k \in LxScanSg(b, guess, id) : k \in DevNums /\ node[b][k] = id
           /\ \A m \in DevNums : b = 1 /\ Gapless /\ node[1][m] = id /\ m # guess => m \in LxScanSg(b, guess, id)
<1>1. ASSUME NEW m \in DevNums, b = 1, Gapless, node[1][m] = id, m # guess
      PROVE  \A j \in 0 .. m : Missed(1, j, guess) < ScanMisses
  <2>1. m \in Nat /\ 0 .. m \subseteq DevNums /\ DevNums \subseteq Nat /\ id # "none" /\ ScanMisses \in Nat /\ ScanMisses >= 2
        BY ScsiAssumption
  <2>2. \A j \in DevNums : j < m => node[1][j] # "none"
        BY <1>1, <2>1 DEF Gapless
  <2> SUFFICES ASSUME NEW j \in 0 .. m PROVE Missed(1, j, guess) < ScanMisses
      OBVIOUS
  <2> DEFINE hits == {i \in DevNums : i < j /\ (i = guess \/ node[1][i] # "none")}
  <2>3. CASE j = 0
    <3>1. hits = {}
      <4>1. \A i \in DevNums : ~(i < j)
            BY <2>1, <2>3
      <4> QED BY <4>1
    <3>2. Missed(1, j, guess) = j
          BY <3>1 DEF Missed
    <3> QED BY <2>1, <2>3, <3>2
  <2>4. CASE j # 0
    <3>1. j - 1 \in DevNums /\ j - 1 < m /\ j - 1 < j /\ j \in Nat
          BY <2>1, <2>4
    <3>2. j - 1 \in hits
          BY <2>2, <3>1
    <3>3. hits \in SUBSET (0 .. j)
      <4>1. \A i \in DevNums : i < j => i \in 0 .. j
            BY <2>1, <3>1
      <4> QED BY <4>1
    <3> HIDE DEF hits
    <3>4. PICK x \in hits : \A y \in hits : x >= y
          BY <3>1, <3>2, <3>3, SomeLargest
    <3>5. Max(hits) \in hits /\ \A y \in hits : Max(hits) >= y
          BY <3>4 DEF Max
    <3>6. Max(hits) \in Nat /\ Max(hits) >= j - 1
      <4> DEFINE z == Max(hits)
      <4>1. z \in hits /\ z >= j - 1
            BY <3>2, <3>5
      <4> HIDE DEF z
      <4>2. z \in 0 .. j
            BY <3>3, <4>1
      <4>3. z \in Nat
            BY <4>2
      <4> QED BY <4>1, <4>3 DEF z
    <3>7. Missed(1, j, guess) = j - Max(hits)
          BY <3>2 DEF Missed, hits
    <3> QED BY <2>1, <3>1, <3>6, <3>7
  <2> QED BY <2>3, <2>4
<1> QED BY <1>1 DEF LxScanSg

LEMMA ChkIs ==
    ASSUME NEW s \in Searching, NEW guess, NEW id \in ScsiIds, \A a \in s.att : Right(a),
           NEW t, t = LxChkDevicename(s, guess, id)
    PROVE  /\ t \in Searching /\ s.att \subseteq t.att /\ (s.base = 0 \/ t.base = s.base)
           /\ \A a \in t.att : Right(a)
           /\ t.base \in {0, 1} /\ Gapless /\ (\E n \in DevNums : node[1][n] = id) => Found(id, t.att)
<1> DEFINE load == IF s.devfs = -1 THEN MkDevicename(s, guess).base ELSE s.base
           s0 == [s EXCEPT !.base = load]
           P(m) == \/ m = MkDevicename(s0, guess) /\ m.found # "none"
                   \/ m = MkDevicename(s0, 0) /\ MkDevicename(s0, guess).found = "none" /\ m.found # "none"
                   \/ /\ m = MkDevicename(s0, 1)
                      /\ \A n \in {guess, 0} : MkDevicename(s0, n).found = "none"
           M == {MkDevicename(s0, n) : n \in {guess, 0, 1}}
           g == CHOOSE m \in M : P(m)
           s1 == [s0 EXCEPT !.base = g.base, !.devfs = 0]
           scan == LxScanSg(s1.base, guess, id)
           Old(x) == [x EXCEPT !.att = s.att]
<1>1. s.base \in {0} \cup DevPrefixes /\ s.devfs \in {-1, 0, 1} /\ s.att \subseteq ScsiIds \X Files
      BY DEF Searching
<1>2. load \in {0} \cup DevPrefixes /\ (s.base = 0 \/ load = s.base)
  <2> DEFINE h == MkDevicename(s, guess)
  <2>1. h.base \in {0} \cup DevPrefixes /\ (s.base = 0 \/ h.base = s.base)
    <3> HIDE DEF h
    <3>1. /\ h.found = "none" => h.base = s.base
          /\ h.found # "none" => h.base \in DevPrefixes /\ (s.base = 0 \/ h.base = s.base)
          BY <1>1, MkIs DEF h
    <3> QED BY <1>1, <3>1
  <2> QED BY <1>1, <2>1
<1> HIDE DEF load
<1>3. s0 \in Searching /\ s0.base = load /\ s0.att = s.att /\ s0.devfs = s.devfs
      BY <1>1, <1>2 DEF Searching
<1> HIDE DEF s0
<1>4. g \in M /\ P(g)
  <2>1. \E m \in M : P(m)
    <3>1. CASE MkDevicename(s0, guess).found # "none"
          BY <3>1
    <3>2. CASE MkDevicename(s0, guess).found = "none" /\ MkDevicename(s0, 0).found # "none"
          BY <3>2
    <3>3. CASE MkDevicename(s0, guess).found = "none" /\ MkDevicename(s0, 0).found = "none"
          BY <3>3
    <3> QED BY <3>1, <3>2, <3>3
  <2> HIDE DEF P, M
  <2> QED BY <2>1
<1>5. t = IF s.devfs # 0 /\ id \in devfsNodes
          THEN [s0 EXCEPT !.devfs = 1, !.att = s0.att \cup {<<id, DevfsFile>>}]
          ELSE IF g.found = "none" THEN s1
          ELSE IF g.found = id THEN [s1 EXCEPT !.att = s1.att \cup {<<id, g.file>>}]
          ELSE IF scan = {} THEN s1
          ELSE [s1 EXCEPT !.att = s1.att \cup {<<id, <<s1.base, Min(scan)>>>>}]
      BY DEF LxChkDevicename, s0, load
<1> HIDE DEF g
<1>6. PICK n0 \in {guess, 0, 1} : g = MkDevicename(s0, n0)
      BY <1>4
<1>7. /\ g.found = "none" => g.base = load
      /\ g.found # "none" => /\ g.base \in DevPrefixes /\ n0 \in DevNums /\ g.found = node[g.base][n0]
                             /\ g.file = <<g.base, n0>> /\ (load = 0 \/ g.base = load)
      BY <1>2, <1>3, <1>6, MkIs
<1>8. g.base \in {0} \cup DevPrefixes /\ (s.base = 0 \/ g.base = s.base)
      BY <1>2, <1>7
<1>9. s1 \in Searching /\ s1.base = g.base /\ s1.att = s.att /\ s1.devfs = 0
      BY <1>3, <1>8 DEF Searching
<1> HIDE DEF s1
<1>10. id # "none" /\ DevPrefixes \subseteq Nat \ {0} /\ DevNums \subseteq Nat /\ 1 \in DevPrefixes
       BY ScsiAssumption
\* One more call of attach.
<1>11. ASSUME NEW x \in Searching, x.att = s.att, NEW f \in Files, Right(<<id, f>>),
              NEW y, y = [x EXCEPT !.att = x.att \cup {<<id, f>>}]
       PROVE  y \in Searching /\ s.att \subseteq y.att /\ y.base = x.base /\ (\A a \in y.att : Right(a)) /\ <<id, f>> \in y.att
  <2> DEFINE B == x.att \cup {<<id, f>>}
  <2>1. B \in SUBSET (ScsiIds \X Files)
        BY <1>1, <1>11
  <2>2. y = [x EXCEPT !.att = B] /\ (\A a \in B : Right(a)) /\ <<id, f>> \in B /\ s.att \subseteq B
        BY <1>11
  <2> HIDE DEF B
  <2>3. y \in Searching /\ y.base = x.base /\ y.att = B
        BY <2>1, <2>2 DEF Searching
  <2> QED BY <2>2, <2>3
<1>12. CASE s.devfs # 0 /\ id \in devfsNodes
  <2> DEFINE x == [s0 EXCEPT !.devfs = 1]
  <2>1. x \in Searching /\ x.att = s.att /\ x.base = load
        BY <1>3 DEF Searching
  <2>2. t = [x EXCEPT !.att = x.att \cup {<<id, DevfsFile>>}]
        BY <1>3, <1>5, <1>12 DEF Searching
  <2> HIDE DEF x
  <2>3. DevfsFile \in Files /\ Right(<<id, DevfsFile>>)
        BY <1>12 DEF DevfsFile, Files, Right
  <2>4. t \in Searching /\ s.att \subseteq t.att /\ t.base = load /\ (\A a \in t.att : Right(a)) /\ <<id, DevfsFile>> \in t.att
        BY <1>11, <2>1, <2>2, <2>3
  <2> QED BY <1>2, <2>4 DEF Found
<1>13. CASE ~(s.devfs # 0 /\ id \in devfsNodes) /\ g.found = "none"
  <2>1. t = s1
        BY <1>5, <1>13
  <2>2. ASSUME t.base \in {0, 1}, Gapless, NEW n \in DevNums, node[1][n] = id PROVE FALSE
    <3>1. 0 \in DevNums /\ node[1][0] # "none"
      <4>1. n \in Nat /\ 0 .. n \subseteq DevNums
            BY ScsiAssumption
      <4>2. 0 \in DevNums
            BY <4>1
      <4>3. n = 0 \/ 0 < n
            BY <4>1
      <4> QED BY <1>10, <2>2, <4>2, <4>3 DEF Gapless
    <3>2. MkDevicename(s0, 0).found # "none"
          BY <1>2, <1>3, <1>7, <1>9, <1>13, <2>1, <2>2, <3>1, MkIs
    <3> QED BY <1>4, <1>13, <3>2
  <2> QED BY <1>8, <1>9, <2>1, <2>2
<1>14. CASE ~(s.devfs # 0 /\ id \in devfsNodes) /\ g.found = id
  <2>1. t = [s1 EXCEPT !.att = s1.att \cup {<<id, g.file>>}]
        BY <1>5, <1>10, <1>14
  <2>2. g.base \in DevPrefixes /\ n0 \in DevNums /\ node[g.base][n0] = id /\ g.file = <<g.base, n0>>
        BY <1>7, <1>10, <1>14
  <2>3. g.file \in Files /\ Right(<<id, g.file>>)
    <3> DEFINE f == g.file
    <3>1. f = <<g.base, n0>> /\ g.base \in Nat \ {0} /\ n0 \in Nat
          BY <1>10, <2>2
    <3> HIDE DEF f
    <3>2. f \in Files /\ f # DevfsFile /\ f[1] = g.base /\ f[2] = n0
          BY <3>1 DEF Files, DevfsFile
    <3>3. Right(<<id, f>>)
          BY <2>2, <3>2 DEF Right
    <3> QED BY <3>2, <3>3 DEF f
  <2>4. t \in Searching /\ s.att \subseteq t.att /\ t.base = g.base /\ (\A a \in t.att : Right(a)) /\ <<id, g.file>> \in t.att
        BY <1>9, <1>11, <2>1, <2>3
  <2>5. t.base \in {0, 1} => Found(id, t.att)
    <3>1. t.base \in {0, 1} => g.base = 1
          BY <1>10, <2>2, <2>4
    <3> QED BY <2>2, <2>4, <3>1 DEF Found
  <2> QED BY <1>8, <2>4, <2>5
<1>15. CASE ~(s.devfs # 0 /\ id \in devfsNodes) /\ g.found # "none" /\ g.found # id
  <2>1. g.base \in DevPrefixes
        BY <1>7, <1>15
  <2>2. ASSUME t.base \in {0, 1}, t.base = g.base, Gapless, NEW n \in DevNums, node[1][n] = id
        PROVE  n \in scan
    <3>1. g.base = 1 /\ load \in {0, 1}
          BY <1>7, <1>10, <1>15, <2>1, <2>2
    <3>2. ASSUME n = guess PROVE FALSE
      <4>1. MkDevicename(s0, guess).found # "none" /\ MkDevicename(s0, guess).base = 1
            BY <1>2, <1>3, <1>10, <2>2, <3>1, <3>2, MkIs
      <4>2. g = MkDevicename(s0, guess)
            BY <1>4, <4>1
      <4>3. MkDevicename(s0, guess).found = node[1][guess]
            BY <1>2, <1>3, <4>1, MkIs
      <4> QED BY <1>15, <2>2, <3>2, <4>2, <4>3
    <3> QED BY <1>9, <2>2, <3>1, <3>2, ScanIs
  <2>3. CASE scan = {}
    <3>1. t = s1
          BY <1>5, <1>15, <2>3
    <3> QED BY <1>8, <1>9, <2>2, <2>3, <3>1
  <2>4. CASE scan # {}
    <3> DEFINE k == Min(scan)
               f == <<s1.base, k>>
    <3>1. t = [s1 EXCEPT !.att = s1.att \cup {<<id, f>>}]
          BY <1>5, <1>15, <2>4
    <3>2. \A i \in scan : i \in DevNums /\ node[g.base][i] = id
          BY <1>9, ScanIs
    <3>3. k \in DevNums /\ node[g.base][k] = id
      <4>1. scan \in SUBSET Nat
            BY <1>10, <3>2
      <4>2. k \in scan
        <5> HIDE DEF scan
        <5> QED BY <2>4, <4>1, MinOf
      <4> QED BY <3>2, <4>2
    <3> HIDE DEF k, scan
    <3>4. f \in Files /\ Right(<<id, f>>)
          BY <1>9, <1>10, <2>1, <3>3 DEF Files, Right, DevfsFile
    <3>5. t \in Searching /\ s.att \subseteq t.att /\ t.base = s1.base /\ (\A a \in t.att : Right(a)) /\ <<id, f>> \in t.att
          BY <1>9, <1>11, <3>1, <3>4
    <3>6. t.base \in {0, 1} => Found(id, t.att)
      <4>1. t.base \in {0, 1} => s1.base = 1
            BY <1>9, <1>10, <2>1, <3>5
      <4> QED BY <3>3, <3>5, <4>1 DEF Found
    <3> QED BY <1>8, <1>9, <3>5, <3>6
  <2> QED BY <2>3, <2>4
<1> QED BY <1>12, <1>13, <1>14, <1>15

\* One search through a list of devices.
LEMMA SearchKeeps ==
    ASSUME NameInv, NEW list \in Seq(ScsiIds), NEW number, Search(list, number)
    PROVE  NameInv'
<1> DEFINE n == Len(list)
           s0 == [base |-> base, devfs |-> devfs, att |-> {}]
           D == {s \in Searching : \A a \in s.att : Right(a)}
           F == [i \in 1 .. n |-> [s \in D |-> LxChkDevicename(s, number[i], list[i])]]
           Is(f) == f = [i \in 0 .. n |-> IF i = 0 THEN s0 ELSE LxChkDevicename(f[i - 1], number[i], list[i])]
           after == CHOOSE f : Is(f)
           r == after[n]
           All(s, i) == s.base \in {0, 1} /\ Gapless =>
                          \A j \in 1 .. i : (\E m \in DevNums : node[1][m] = list[j]) => Found(list[j], s.att)
<1>1. /\ listed' = list /\ base' = r.base /\ devfs' = r.devfs /\ attached' = r.att
      /\ UNCHANGED <<node, devfsNodes>>
      BY DEF Search
<1>2. n \in Nat /\ DOMAIN list = 1 .. n /\ \A i \in 1 .. n : list[i] \in ScsiIds
      OBVIOUS
<1> HIDE DEF r
<1>3. s0 \in D /\ s0.att = {}
      BY DEF NameInv, Searching
<1> HIDE DEF s0
<1>4. ASSUME NEW s \in D, NEW i \in 1 .. n
      PROVE  LET t == LxChkDevicename(s, number[i], list[i]) IN
             /\ t \in D /\ s.att \subseteq t.att /\ (s.base = 0 \/ t.base = s.base)
             /\ t.base \in {0, 1} /\ Gapless /\ (\E m \in DevNums : node[1][m] = list[i]) => Found(list[i], t.att)
  <2> DEFINE id == list[i]
             t == LxChkDevicename(s, number[i], list[i])
  <2>1. id \in ScsiIds /\ t = LxChkDevicename(s, number[i], id)
        BY <1>2
  <2> HIDE DEF t, id
  <2>2. /\ t \in Searching /\ s.att \subseteq t.att /\ (s.base = 0 \/ t.base = s.base)
        /\ \A a \in t.att : Right(a)
        /\ t.base \in {0, 1} /\ Gapless /\ (\E m \in DevNums : node[1][m] = id) => Found(id, t.att)
        BY <2>1, ChkIs
  <2>3. t \in D
        BY <2>2
  <2> HIDE DEF D
  <2> QED BY <2>2, <2>3 DEF t, id
<1>5. F \in [1 .. n -> [D -> D]]
      BY <1>4
<1> HIDE DEF D
<1>6. PICK g : Follows(g, n, D, s0, F)
  <2> HIDE DEF F, n
  <2> QED BY <1>2, <1>3, <1>5, StepByStep
<1>7. Is(g)
  <2>1. DOMAIN g = 0 .. n /\ g = [i \in 0 .. n |-> g[i]]
        BY <1>6 DEF Follows
  <2>2. \A i \in 0 .. n : g[i] = IF i = 0 THEN s0 ELSE LxChkDevicename(g[i - 1], number[i], list[i])
    <3>1. ASSUME NEW i \in 0 .. n, i # 0 PROVE g[i] = LxChkDevicename(g[i - 1], number[i], list[i])
      <4>1. i \in 1 .. n /\ g[i - 1] \in D
            BY <1>2, <1>6, <3>1 DEF Follows
      <4>2. g[i] = F[i][g[i - 1]]
            BY <1>6, <4>1 DEF Follows
      <4> QED BY <4>1, <4>2
    <3>2. g[0] = s0
          BY <1>6 DEF Follows
    <3> QED BY <3>1, <3>2
  <2> QED BY <2>1, <2>2
<1>8. Is(after)
  <2> HIDE DEF Is
  <2> QED BY <1>7
<1> HIDE DEF after
<1>9. after[0] = s0 /\ \A i \in 1 .. n : after[i] = LxChkDevicename(after[i - 1], number[i], list[i])
  <2> DEFINE G(i) == IF i = 0 THEN s0 ELSE LxChkDevicename(after[i - 1], number[i], list[i])
  <2>1. after = [i \in 0 .. n |-> G(i)]
        BY <1>8
  <2>2. 0 \in 0 .. n /\ \A i \in 1 .. n : i \in 0 .. n /\ i # 0
        BY <1>2
  <2>3. G(0) = s0 /\ \A i \in 1 .. n : G(i) = LxChkDevicename(after[i - 1], number[i], list[i])
        BY <2>2
  <2> HIDE DEF G
  <2>4. \A i \in 0 .. n : after[i] = G(i)
        BY <2>1
  <2> QED BY <2>2, <2>3, <2>4
<1> DEFINE S == {i \in 0 .. n : after[i] \in D /\ All(after[i], i)}
<1>10. 0 \in S
  <2>1. All(s0, 0)
        OBVIOUS
  <2> HIDE DEF All
  <2> QED BY <1>2, <1>3, <1>9, <2>1
<1>11. ASSUME NEW i \in 0 .. n - 1, i \in S PROVE i + 1 \in S
  <2> DEFINE s == after[i]
             t == after[i + 1]
             k == i + 1
  <2>1. k \in 1 .. n /\ k - 1 = i /\ k \in 0 .. n
        BY <1>2
  <2>2. t = LxChkDevicename(s, number[k], list[k])
        BY <1>9, <2>1
  <2>3. s \in D /\ All(s, i)
        BY <1>11
  <2> HIDE DEF s, t, k
  <2>4. /\ t \in D /\ s.att \subseteq t.att /\ (s.base = 0 \/ t.base = s.base)
        /\ t.base \in {0, 1} /\ Gapless /\ (\E m \in DevNums : node[1][m] = list[k]) => Found(list[k], t.att)
        BY <1>4, <2>1, <2>2, <2>3
  <2>5. All(t, k)
    <3> SUFFICES ASSUME t.base \in {0, 1}, Gapless, NEW j \in 1 .. k, NEW m \in DevNums, node[1][m] = list[j]
                 PROVE  Found(list[j], t.att)
        OBVIOUS
    <3>1. CASE j = k
          BY <2>4, <3>1
    <3>2. CASE j # k
      <4>1. j \in 1 .. i
            BY <2>1, <3>2
      <4>2. s.base \in {0, 1}
            BY <2>4
      <4>3. Found(list[j], s.att)
            BY <2>3, <4>1, <4>2
      <4> QED BY <2>4, <4>3 DEF Found
    <3> QED BY <3>1, <3>2
  <2> HIDE DEF All
  <2> QED BY <2>1, <2>4, <2>5 DEF t, k
<1>12. r \in D /\ All(r, n)
  <2> HIDE DEF All
  <2>1. n \in S
    <3> HIDE DEF S, n
    <3>1. 0 .. n \subseteq S
          BY <1>2, <1>10, <1>11, UpTo
    <3>2. n \in 0 .. n
          BY <1>2
    <3> QED BY <3>1, <3>2
  <2> QED BY <2>1 DEF r
<1>13. base' \in {0} \cup DevPrefixes /\ devfs' \in {-1, 0, 1}
       BY <1>1, <1>12 DEF D, Searching
<1>14. AttachedRight'
  <2>1. \A a \in r.att : Right(a)
        BY <1>12 DEF D
  <2> QED BY <1>1, <2>1 DEF AttachedRight, Right
<1>15. NoneMissed'
  <2> SUFFICES ASSUME NEW i \in DOMAIN list, r.base \in {0, 1}, NEW m \in DevNums, node[1][m] = list[i],
                      \A k \in DevNums : node[1][k] # "none" => \A j \in DevNums : j < k => node[1][j] # "none"
               PROVE  \E f \in {<<1, k>> : k \in DevNums} \cup {DevfsFile} : <<list[i], f>> \in r.att
      BY <1>1 DEF NoneMissed
  <2>1. Gapless
        BY DEF Gapless
  <2>2. Found(list[i], r.att)
        BY <1>2, <1>12, <2>1
  <2> QED BY <2>2 DEF Found
<1> QED BY <1>13, <1>14, <1>15 DEF NameInv

LEMMA NameAlways == NameSpec => []NameInv
<1>1. NameInit => NameInv
  <2> SUFFICES ASSUME NameInit PROVE NameInv
      OBVIOUS
  <2>1. base = 0 /\ devfs = -1 /\ listed = <<>> /\ attached = {}
        BY DEF NameInit
  <2> QED BY <2>1 DEF NameInv, AttachedRight, NoneMissed
<1>2. ASSUME NameInv, NameNext PROVE NameInv'
  <2>1. \A list \in SetToSeqs(ScsiIds) : list \in Seq(ScsiIds)
    <3>1. Cardinality(ScsiIds) \in Nat
          BY ScsiAssumption, FS_CardinalityType
    <3>2. ASSUME NEW list \in SetToSeqs(ScsiIds) PROVE list \in [1 .. Cardinality(ScsiIds) -> ScsiIds]
          BY DEF SetToSeqs
    <3> QED BY <3>1, <3>2
  <2>2. CASE \E list \in SetToSeqs(ScsiIds) : ProcFindDevices(list) \/ SysFindDevices(list)
    <3>1. PICK list \in SetToSeqs(ScsiIds) : ProcFindDevices(list) \/ SysFindDevices(list)
          BY <2>2
    <3>2. list \in Seq(ScsiIds)
          BY <2>1
    <3>3. ASSUME NEW number, Search(list, number) PROVE NameInv'
          BY <1>2, <3>2, <3>3, SearchKeeps
    <3>4. CASE ProcFindDevices(list)
          BY <3>3, <3>4 DEF ProcFindDevices
    <3>5. CASE SysFindDevices(list)
          BY <3>3, <3>5 DEF SysFindDevices
    <3> QED BY <3>1, <3>4, <3>5
  <2>3. CASE Replug
    <3>1. listed' = <<>> /\ attached' = {} /\ base' = base /\ devfs' = devfs
          BY <2>3 DEF Replug
    <3>2. base' \in {0} \cup DevPrefixes /\ devfs' \in {-1, 0, 1}
          BY <1>2, <3>1 DEF NameInv
    <3>3. AttachedRight'
          BY <3>1 DEF AttachedRight
    <3>4. NoneMissed'
      <4>1. DOMAIN listed' = {}
            BY <3>1
      <4> QED BY <4>1 DEF NoneMissed
    <3> QED BY <3>2, <3>3, <3>4 DEF NameInv
  <2> QED BY <1>2, <2>2, <2>3 DEF NameNext
<1>3. ASSUME NameInv, UNCHANGED nameVars PROVE NameInv'
      BY <1>3 DEF nameVars, NameInv, AttachedRight, NoneMissed
<1> QED BY <1>1, <1>2, <1>3, PTL DEF NameSpec

\* For any adapters, sizes, queue depths, device files and devices: commands reach the
\* driver in order; with the old interface it never has more of them than its queue
\* holds, and GOOD is only said of one that ran - with SG_IO a command that was put off
\* with EAGAIN is GOOD too, and neither is claimed; a handle that is not the first to
\* be opened has the buffer it was promised; a backend gets a file of the device it
\* asked for, and is not refused one whose files are numbered without gaps under the
\* first prefix (sanei_scsi.c).
THEOREM ScsiIsSafe == QueueSpec /\ NameSpec => []ScsiSafe
<1>1. QueueInv /\ NameInv => ScsiSafe
      BY QueueInvSafe DEF NameInv, ScsiSafe
<1> QED BY <1>1, QueueAlways, NameAlways, PTL

-----------------------------------------------------------------------------
(* sanei_pa4s2.c.                                                          *)


\* What a port keeps through every call, and through the middle of the loop that looks
\* for its mode: while it is enabled, what was saved are not the registers of this
\* driver - a port is never saved a second time.
PortKept(s) ==
    /\ s.regs = "ours" => s.in_use /\ s.enabled
    /\ s.enabled => s.prelock # "ours"

\* EnabledHoldsClaim, of one port.
PortClaimed(s) == paBuild = "lib" => (s.claim = "us" <=> (s.in_use /\ s.enabled))

\* The inductive invariant.
PaInv ==
    /\ PaTypeOK
    /\ \A p \in PaPorts : PortKept(paPort[p]) /\ (p \in stuck \/ PortClaimed(paPort[p]))

\* In the loop the mode may be one past the last.
Modes3 == 0 .. 3
AnyMode == Modes3 \cup {ModeMax}

LEMMA EnableKeeps ==
    ASSUME NEW s \in PortRec(AnyMode), PortKept(s), NEW e \in EnableSet(s)
    PROVE  /\ e \in PortRec(AnyMode) /\ PortKept(e) /\ e.mode = s.mode
           /\ PortClaimed(s) => PortClaimed(e)
BY DEF EnableSet, PortRec, PortKept, PortClaimed

LEMMA DisableKeeps ==
    ASSUME NEW s \in PortRec(AnyMode), PortKept(s)
    PROVE  /\ Disabled(s) \in PortRec(AnyMode) /\ PortKept(Disabled(s)) /\ Disabled(s).mode = s.mode
           /\ PortClaimed(s) => PortClaimed(Disabled(s))
BY DEF Disabled, Disable, PortRec, PortKept, PortClaimed

LEMMA CloseKeeps ==
    ASSUME NEW s \in PortRec(AnyMode), PortKept(s), NEW c \in CloseSet(s)
    PROVE  /\ c \in PortRec(AnyMode) /\ PortKept(c) /\ c.mode = s.mode
           /\ PortClaimed(s) /\ ~c.in_use /\ s.in_use => PortClaimed(c)
BY DEF CloseSet, Disable, PortRec, PortKept, PortClaimed

\* The port in the middle of the loop.
Rec3 == [s : PortRec(Modes3), more : BOOLEAN, sure : BOOLEAN]
LoopKept(r, mine) == r \in Rec3 /\ PortKept(r.s) /\ (mine => PortClaimed(r.s))

LEMMA ReadsBoolean == ASSUME NEW s, NEW p, NEW right \in ReadsId(s, p) PROVE right \in BOOLEAN
<1>1. (s.mode \in paScanner[p]) \in BOOLEAN
      OBVIOUS
<1> QED BY <1>1 DEF ReadsId

LEMMA UsedPort ==
    ASSUME NEW modes, NEW m \in modes, NEW s \in PortRec(modes)
    PROVE  [s EXCEPT !.in_use = TRUE, !.enabled = FALSE, !.mode = m] \in PortRec(modes)
BY DEF PortRec

LEMMA OpenedKeeps ==
    ASSUME NEW p \in PaPorts, PaInv, ~paPort[p].in_use
    PROVE  /\ Opened(p) \in PortRec(AnyMode) /\ PortKept(Opened(p)) /\ Opened(p).mode = 0
           /\ p \in stuck \/ PortClaimed(Opened(p))
<1>1. paPort[p] \in PortRec({Nib, Uni, Epp, ModeMax})
      BY DEF PaInv, PaTypeOK
<1>2. Opened(p) \in PortRec(AnyMode) /\ Opened(p).mode = 0 /\ Opened(p).in_use /\ ~Opened(p).enabled
      /\ Opened(p).regs = paPort[p].regs /\ Opened(p).claim = paPort[p].claim
  <2>1. Opened(p) \in PortRec(AnyMode)
    <3>1. paPort[p] \in PortRec(AnyMode) /\ Nib \in AnyMode
          BY <1>1 DEF PortRec, AnyMode, Modes3, Nib, Uni, Epp
    <3> QED BY <3>1, UsedPort DEF Opened
  <2>2. Opened(p).mode = 0 /\ Opened(p).in_use = TRUE /\ Opened(p).enabled = FALSE
        BY <1>1 DEF Opened, PortRec, Nib
  <2>3. Opened(p).regs = paPort[p].regs /\ Opened(p).claim = paPort[p].claim
        BY <1>1 DEF Opened, PortRec
  <2> QED BY <2>1, <2>2, <2>3
<1>3. PortKept(Opened(p))
      BY <1>2 DEF PortKept, PaInv
<1>4. p \in stuck \/ PortClaimed(Opened(p))
      BY <1>2 DEF PortClaimed, PaInv
<1> QED BY <1>2, <1>3, <1>4

LEMMA RoundKeeps ==
    ASSUME NEW p \in PaPorts, NEW mine \in BOOLEAN, NEW r, LoopKept(r, mine), NEW t \in Round(r, p)
    PROVE  LoopKept(t, mine)
<1>a. r.s \in PortRec(Modes3)
      BY DEF LoopKept, Rec3
<1>b. r.s.mode \in 0 .. 3
      BY <1>a DEF PortRec, Modes3
<1>c. r.more \in BOOLEAN /\ r.sure \in BOOLEAN
      BY DEF LoopKept, Rec3
<1>1. r.s \in PortRec(Modes3) /\ r.s.mode \in 0 .. 3 /\ r.more \in BOOLEAN /\ r.sure \in BOOLEAN
      BY <1>a, <1>b, <1>c
<1>2. CASE t = [r EXCEPT !.more = FALSE]
      BY <1>1, <1>2 DEF LoopKept, Rec3
<1>3. CASE r.s.mode = Uni /\ t = [r EXCEPT !.s.mode = @ + 1]
  <2>1. t.s = [r.s EXCEPT !.mode = r.s.mode + 1] /\ t.more = r.more /\ t.sure = r.sure
        /\ t = [s |-> t.s, more |-> t.more, sure |-> t.sure]
        BY <1>3 DEF LoopKept, Rec3
  <2>2. t.s \in PortRec(Modes3) /\ PortKept(t.s) /\ (mine => PortClaimed(t.s))
        BY <2>1, <1>1, <1>3 DEF LoopKept, PortRec, PortKept, PortClaimed, Modes3, Uni
  <2> QED BY <2>1, <2>2, <1>1 DEF LoopKept, Rec3
<1>4. ASSUME NEW e \in EnableSet(r.s), NEW right \in ReadsId(e, p), r.s.mode <= Epp,
             t = [s |-> [Disabled(e) EXCEPT !.mode = IF right THEN @ + 1 ELSE @],
                  more |-> right, sure |-> r.sure /\ Accessible(e)]
      PROVE  LoopKept(t, mine)
  <2>1. r.s \in PortRec(AnyMode)
        BY <1>1 DEF PortRec, AnyMode
  <2>2. /\ e \in PortRec(AnyMode) /\ PortKept(e) /\ e.mode = r.s.mode
        /\ mine => PortClaimed(e)
        BY <2>1, EnableKeeps, <1>4 DEF LoopKept
  <2>3. /\ Disabled(e) \in PortRec(AnyMode) /\ PortKept(Disabled(e)) /\ Disabled(e).mode = r.s.mode
        /\ mine => PortClaimed(Disabled(e))
        BY <2>2, DisableKeeps
  <2>4. right \in BOOLEAN
        BY <1>4, ReadsBoolean
  <2>5. t.s \in PortRec(Modes3) /\ PortKept(t.s) /\ (mine => PortClaimed(t.s))
    <3> DEFINE d == Disabled(e)
               m == IF right THEN d.mode + 1 ELSE d.mode
    <3>1. t.s = [d EXCEPT !.mode = m]
          BY <1>4
    <3>2. m \in 0 .. 3
          BY <2>3, <1>1, <1>4, <2>4 DEF Epp
    <3>3. d \in PortRec(AnyMode) /\ PortKept(d) /\ (mine => PortClaimed(d))
          BY <2>3
    <3> HIDE DEF d, m
    <3> QED BY <3>1, <3>2, <3>3 DEF PortRec, PortKept, PortClaimed, Modes3
  <2>6. t.more \in BOOLEAN /\ t.sure \in BOOLEAN
        BY <1>4, <2>4, <1>1 DEF Accessible
  <2> QED BY <2>5, <2>6, <1>4 DEF LoopKept, Rec3
<1> QED BY <1>1, <1>2, <1>3, <1>4 DEF Round, Epp, Uni

LEMMA RoundsKeep ==
    ASSUME NEW p \in PaPorts, NEW mine \in BOOLEAN, NEW R, \A r \in R : LoopKept(r, mine)
    PROVE  \A t \in Rounds(R, p) : LoopKept(t, mine)
<1> SUFFICES ASSUME NEW r \in R, NEW t \in IF r.more THEN Round(r, p) ELSE {r}
             PROVE  LoopKept(t, mine)
    BY DEF Rounds
<1> QED BY RoundKeeps

LEMMA ProbedKeeps ==
    ASSUME NEW p \in PaPorts, NEW mine \in BOOLEAN, NEW s \in PortRec(Modes3), NEW sure \in BOOLEAN,
           PortKept(s), mine => PortClaimed(s),
           NEW t \in PaProbed(s, p, sure)
    PROVE  /\ t.s \in PortRec({Nib, Uni, Epp, ModeMax}) /\ PortKept(t.s) /\ (mine => PortClaimed(t.s))
<1> DEFINE first == {[s |-> s, more |-> TRUE, sure |-> sure]}
           one == Rounds(first, p)
           two == Rounds(one, p)
           three == Rounds(two, p)
           four == Rounds(three, p)
<1>1. \A r \in first : LoopKept(r, mine)
  <2>1. [s |-> s, more |-> TRUE, sure |-> sure] \in Rec3
        BY DEF Rec3
  <2>2. LoopKept([s |-> s, more |-> TRUE, sure |-> sure], mine)
        BY <2>1 DEF LoopKept
  <2> QED BY <2>2
<1> HIDE DEF first
<1>2. \A r \in one : LoopKept(r, mine)
      BY <1>1, RoundsKeep
<1> HIDE DEF one
<1>3. \A r \in two : LoopKept(r, mine)
      BY <1>2, RoundsKeep
<1> HIDE DEF two
<1>4. \A r \in three : LoopKept(r, mine)
      BY <1>3, RoundsKeep
<1> HIDE DEF three
<1>5. \A r \in four : LoopKept(r, mine)
      BY <1>4, RoundsKeep
<1>6. PICK r \in four : t = [s |-> [r.s EXCEPT !.mode = BestMode(r.s.mode)], more |-> r.more, sure |-> r.sure]
      BY DEF PaProbed, four, three, two, one, first
<1>7. t.s = [r.s EXCEPT !.mode = BestMode(r.s.mode)]
      BY <1>6
<1>8. r.s \in PortRec(Modes3) /\ PortKept(r.s) /\ (mine => PortClaimed(r.s))
      BY <1>5, <1>6 DEF LoopKept, Rec3
<1>9. BestMode(r.s.mode) \in {Nib, Uni, Epp, ModeMax}
  <2>1. r.s.mode \in 0 .. 3
        BY <1>8 DEF PortRec, Modes3
  <2> QED BY <2>1 DEF BestMode, Less, Nib, Uni, Epp, ModeMax
<1> QED BY <1>7, <1>8, <1>9 DEF PortRec, PortKept, PortClaimed

LEMMA PaInitInv == PaInit => PaInv
BY DEF PaInit, PaInv, PaTypeOK, NewPort, PortRec, PortKept, PortClaimed

\* A call that changes one port.
LEMMA PortChanged ==
    ASSUME PaInv, NEW p \in PaPorts, NEW s \in PortRec({Nib, Uni, Epp, ModeMax}), Becomes(p, s), PortKept(s),
           UNCHANGED paBuild,
           held' \subseteq PaPorts, unsure' \subseteq PaPorts, stuck \subseteq stuck', stuck' \subseteq PaPorts,
           p \in stuck' \/ PortClaimed(s),
           paStatus' \in {"good", "inval", "unsupported", "busy", "access_denied", "io_error"}
    PROVE  PaInv'
<1>1. paPort' \in [PaPorts -> PortRec({Nib, Uni, Epp, ModeMax})] /\ paPort'[p] = s
      /\ \A q \in PaPorts \ {p} : paPort'[q] = paPort[q]
      BY DEF Becomes, PaInv, PaTypeOK
<1>2. \A q \in PaPorts : PortKept(paPort'[q])
      BY <1>1 DEF PaInv
<1>3. \A q \in PaPorts : q \in stuck' \/ PortClaimed(paPort'[q])
      BY <1>1 DEF PaInv
<1>4. \A q \in PaPorts : PortKept(paPort'[q]) /\ (q \in stuck' \/ (PortClaimed(paPort[q])'))
      BY <1>2, <1>3 DEF PortClaimed
<1> QED BY <1>1, <1>4 DEF PaInv, PaTypeOK, PortClaimed, PortKept

LEMMA PaNextKeeps == ASSUME PaInv, PaNext PROVE PaInv'
<1> DEFINE S == {"good", "inval", "unsupported", "busy", "access_denied", "io_error"}
           Real == {Nib, Uni, Epp, ModeMax}
<1>t. \A s : s \in PortRec(Real) => s \in PortRec(AnyMode)
      BY DEF PortRec, AnyMode, Modes3, Nib, Uni, Epp, ModeMax
<1>r. ASSUME NEW s \in PortRec(AnyMode), NEW q \in PaPorts, s.mode \in Real PROVE s \in PortRec(Real)
      BY <1>r DEF PortRec
<1>b. PaTypeOK
      BY DEF PaInv
<1>1. ASSUME NEW p \in PaPorts, PaOpen(p) PROVE PaInv'
  <2> DEFINE o == Opened(p)
  <2>1. /\ ~paPort[p].in_use /\ paPort[p] \in PortRec(Real) /\ PortKept(paPort[p])
        /\ p \in stuck \/ PortClaimed(paPort[p])
        BY <1>1, <1>b DEF PaOpen, CanOpen, PaInv, PaTypeOK
  <2>2. o \in PortRec(AnyMode) /\ PortKept(o) /\ (p \in stuck \/ PortClaimed(o)) /\ o.mode = 0
        BY <2>1, OpenedKeeps
  <2>3. PICK e \in EnableSet(o), known \in BOOLEAN :
          /\ known \in ReadsId(e, p)
          /\ IF known
             THEN /\ \E r \in PaProbed(Disabled(e), p, Accessible(e)) :
                       Becomes(p, r.s) /\ unsure' = IF r.sure THEN unsure \ {p} ELSE unsure \cup {p}
                  /\ paStatus' = "good" /\ held' = held \cup {p}
                  /\ UNCHANGED stuck
             ELSE /\ \E s \in IF e.in_use THEN CloseSet(Disabled(e)) ELSE {e} :
                       Becomes(p, s) /\ stuck' = IF s.in_use THEN stuck \cup {p} ELSE stuck
                  /\ paStatus' = "inval" /\ UNCHANGED <<held, unsure>>
        BY <1>1, ReadsBoolean DEF PaOpen
  <2> HIDE DEF o
  <2>4. e \in PortRec(AnyMode) /\ PortKept(e) /\ (p \in stuck \/ PortClaimed(e)) /\ e.mode = 0
        BY <2>2, <2>3, EnableKeeps
  <2>5. /\ Disabled(e) \in PortRec(AnyMode) /\ PortKept(Disabled(e)) /\ (p \in stuck \/ PortClaimed(Disabled(e)))
        /\ Disabled(e).mode = 0
        BY <2>4, DisableKeeps
  <2>6. UNCHANGED paBuild
        BY <1>1 DEF PaOpen
  <2>7. CASE known
    <3>1. PICK r \in PaProbed(Disabled(e), p, Accessible(e)) :
            Becomes(p, r.s) /\ unsure' = IF r.sure THEN unsure \ {p} ELSE unsure \cup {p}
          BY <2>3, <2>7
    <3>2. Disabled(e) \in PortRec(Modes3)
          BY <2>5 DEF PortRec, Modes3
    <3>3. r.s \in PortRec(Real) /\ PortKept(r.s) /\ (p \notin stuck => PortClaimed(r.s))
      <4>1. Accessible(e) \in BOOLEAN
            BY DEF Accessible
      <4> QED BY <3>1, <3>2, <2>5, <4>1, ProbedKeeps, (p \notin stuck) \in BOOLEAN
    <3>4. /\ held' \subseteq PaPorts /\ unsure' \subseteq PaPorts /\ stuck \subseteq stuck'
          /\ stuck' \subseteq PaPorts /\ paStatus' \in S
          BY <2>3, <2>7, <3>1, <1>b DEF PaTypeOK
    <3> QED BY <2>3, <2>6, <2>7, <3>1, <3>3, <3>4, PortChanged
  <2>8. CASE ~known
    <3>1. PICK s \in IF e.in_use THEN CloseSet(Disabled(e)) ELSE {e} :
            Becomes(p, s) /\ stuck' = IF s.in_use THEN stuck \cup {p} ELSE stuck
          BY <2>3, <2>8
    <3>2. s \in PortRec(AnyMode) /\ PortKept(s) /\ s.mode = 0 /\ (p \in stuck' \/ PortClaimed(s))
      <4>1. CASE e.in_use
        <5>1. Disabled(e).in_use
              BY <2>4, <4>1 DEF Disabled, Disable, PortRec
        <5> QED BY <3>1, <4>1, <2>5, <5>1, CloseKeeps
      <4>2. CASE ~e.in_use
            BY <3>1, <4>2, <2>4
      <4> QED BY <4>1, <4>2
    <3>3. s \in PortRec(Real)
          BY <3>2, <1>r DEF Nib
    <3>4. /\ held' \subseteq PaPorts /\ unsure' \subseteq PaPorts /\ stuck \subseteq stuck'
          /\ stuck' \subseteq PaPorts /\ paStatus' \in S
          BY <2>3, <2>8, <3>1, <1>b DEF PaTypeOK
    <3> QED BY <3>1, <3>2, <3>3, <3>4, <2>6, PortChanged
  <2> QED BY <2>7, <2>8
<1>2. ASSUME NEW p \in PaPorts, PaScsiOpen(p) PROVE PaInv'
  <2> DEFINE o == Opened(p)
  <2>1. /\ ~paPort[p].in_use /\ paPort[p] \in PortRec(Real) /\ PortKept(paPort[p])
        /\ p \in stuck \/ PortClaimed(paPort[p])
        BY <1>2, <1>b DEF PaScsiOpen, CanOpen, PaInv, PaTypeOK
  <2>2. o \in PortRec(AnyMode) /\ PortKept(o) /\ (p \in stuck \/ PortClaimed(o)) /\ o.mode = 0
        BY <2>1, OpenedKeeps
  <2>3. PICK e \in EnableSet(o) :
         /\ Becomes(p, Disabled(e))
         /\ paStatus' \in IF e.enabled THEN {"good", "busy"} ELSE {"io_error"}
        BY <1>2 DEF PaScsiOpen
  <2> HIDE DEF o
  <2>4. e \in PortRec(AnyMode) /\ PortKept(e) /\ (p \in stuck \/ PortClaimed(e)) /\ e.mode = 0
        BY <2>2, <2>3, EnableKeeps
  <2>5. /\ Disabled(e) \in PortRec(Real) /\ PortKept(Disabled(e)) /\ (p \in stuck \/ PortClaimed(Disabled(e)))
        BY <2>4, DisableKeeps, <1>r DEF Nib
  <2>6. /\ held' \subseteq PaPorts /\ unsure' \subseteq PaPorts /\ stuck \subseteq stuck'
        /\ stuck' \subseteq PaPorts /\ paStatus' \in S /\ UNCHANGED paBuild
        BY <1>2, <2>3, <1>b DEF PaScsiOpen, PaTypeOK
  <2> QED BY <2>3, <2>5, <2>6, PortChanged
<1>3. ASSUME NEW p \in PaPorts, PaClose(p) PROVE PaInv'
  <2>1. /\ paPort[p].in_use /\ paPort[p] \in PortRec(Real) /\ PortKept(paPort[p])
        /\ p \in stuck \/ PortClaimed(paPort[p])
        BY <1>3, <1>b DEF PaClose, PaInv, PaTypeOK
  <2>2. PICK s \in CloseSet(paPort[p]) :
          Becomes(p, s) /\ stuck' = IF s.in_use THEN stuck \cup {p} ELSE stuck
        BY <1>3 DEF PaClose
  <2>3. s \in PortRec(AnyMode) /\ PortKept(s) /\ s.mode = paPort[p].mode /\ (p \in stuck' \/ PortClaimed(s))
        BY <2>1, <2>2, <1>t, CloseKeeps
  <2>4. s \in PortRec(Real)
        BY <2>1, <2>3, <1>r DEF PortRec
  <2>5. /\ held' \subseteq PaPorts /\ unsure' \subseteq PaPorts /\ stuck \subseteq stuck'
        /\ stuck' \subseteq PaPorts /\ paStatus' \in S /\ UNCHANGED paBuild
        BY <1>3, <2>2, <1>b DEF PaClose, PaTypeOK
  <2> QED BY <2>2, <2>3, <2>4, <2>5, PortChanged
<1>4. ASSUME NEW p \in PaPorts, NEW enable \in BOOLEAN, PaEnable(p, enable) PROVE PaInv'
  <2>1. /\ paPort[p] \in PortRec(Real) /\ PortKept(paPort[p])
        /\ p \in stuck \/ PortClaimed(paPort[p])
        BY <1>4, <1>b DEF PaInv, PaTypeOK
  <2>2. PICK s \in IF enable THEN EnableSet(paPort[p]) ELSE {Disabled(paPort[p])} :
         Becomes(p, s) /\ paStatus' = IF s.enabled = enable THEN "good" ELSE "io_error"
        BY <1>4 DEF PaEnable
  <2>3. s \in PortRec(AnyMode) /\ PortKept(s) /\ s.mode = paPort[p].mode /\ (p \in stuck \/ PortClaimed(s))
        BY <2>1, <2>2, <1>t, EnableKeeps, DisableKeeps
  <2>4. s \in PortRec(Real)
        BY <2>1, <2>3, <1>r DEF PortRec
  <2>5. /\ held' \subseteq PaPorts /\ unsure' \subseteq PaPorts /\ stuck \subseteq stuck'
        /\ stuck' \subseteq PaPorts /\ paStatus' \in S /\ UNCHANGED paBuild
        BY <1>4, <2>2, <1>b DEF PaEnable, PaTypeOK
  <2> QED BY <2>2, <2>3, <2>4, <2>5, PortChanged
<1>5. ASSUME NEW p \in PaPorts, OtherClaims(p) \/ OtherReleases(p) PROVE PaInv'
  <2>1. /\ paPort[p] \in PortRec(Real) /\ PortKept(paPort[p])
        /\ p \in stuck \/ PortClaimed(paPort[p])
        BY <1>5, <1>b DEF PaInv, PaTypeOK
  <2>2. PICK c \in {"free", "other"}, g \in {"orig", "theirs"} :
          /\ Becomes(p, [paPort[p] EXCEPT !.claim = c, !.regs = g])
          /\ paPort[p].claim \in {"free", "other"}
          /\ UNCHANGED <<paBuild, held, paStatus, unsure, stuck>>
        BY <1>5 DEF OtherClaims, OtherReleases
  <2> DEFINE s == [paPort[p] EXCEPT !.claim = c, !.regs = g]
  <2>3. s \in PortRec(Real) /\ PortKept(s) /\ (p \in stuck' \/ PortClaimed(s))
        BY <2>1, <2>2 DEF PortRec, PortKept, PortClaimed
  <2>4. /\ held' \subseteq PaPorts /\ unsure' \subseteq PaPorts /\ stuck \subseteq stuck'
        /\ stuck' \subseteq PaPorts /\ paStatus' \in S /\ UNCHANGED paBuild
        BY <2>2, <1>b DEF PaTypeOK
  <2> HIDE DEF s
  <2>5. Becomes(p, s)
        BY <2>2 DEF s
  <2> QED BY <2>3, <2>4, <2>5, PortChanged
<1>6. ASSUME NEW p \in PaPorts,
             PaOpenFails(p) \/ PaAccess(p) \/ (\E status \in {"inval", "unsupported"} : PaRefused(p, status))
      PROVE  PaInv'
      BY <1>6 DEF PaOpenFails, PaAccess, PaRefused, PaInv, PaTypeOK, PortClaimed, PortKept
<1>7. CASE PaSetOptions
      BY <1>7 DEF PaSetOptions, PaInv, PaTypeOK, PortClaimed, PortKept
<1> QED BY <1>1, <1>2, <1>3, <1>4, <1>5, <1>6, <1>7 DEF PaNext

LEMMA PaAlways == PaSpec => []PaInv
<1>1. PaInv /\ [PaNext]_paVars => PaInv'
  <2>1. PaInv /\ UNCHANGED paVars => PaInv'
        BY DEF paVars, PaInv, PaTypeOK, PortClaimed, PortKept
  <2> QED BY <2>1, PaNextKeeps
<1> QED BY <1>1, PaInitInv, PTL DEF PaSpec

LEMMA PaInvSafe == PaInv => PaSafe
BY DEF PaInv, PaSafe, EnabledHoldsClaim, PortRestored, PortClaimed, PortKept

-----------------------------------------------------------------------------
(* sanei_pp.c.                                                             *)


PpRegs ==
    [dir : {"orig", "in", "out"}, low : {"orig", "probe", "zero", "app"},
     ecr : {"orig", "probe"} \cup Modes]

PpRec ==
    [in_use : BOOLEAN, claimed : BOOLEAN, caps : SUBSET Modes,
     regs : PpRegs, saved : PpRegs, claim : {"free", "us", "other"}]

\* The inductive invariant, port by port: besides, while a port with ECP registers is in
\* use, what pp_open has saved is what pp_close has to bring back.
PpKept(s, isHeld, h) ==
    /\ isHeld => s.in_use
    /\ s.claim = "us" => s.claimed /\ isHeld
    /\ ppBuild = "iopl" => IF s.in_use THEN s.saved = OrigRegs ELSE s.regs = OrigRegs
    /\ "ECP" \in s.caps => h.ecp
    /\ "EPP" \in s.caps /\ ppBuild # "ioperm" => h.epp \in {"hw", "sw"}

PpInv ==
    /\ ppHardware \in [PpPorts -> PpHardware] /\ ppPort \in [PpPorts -> PpRec]
    /\ ppHeld \subseteq PpPorts /\ ppStuck \subseteq PpPorts /\ ppInit \in BOOLEAN
    /\ ppBuild \in PpBuilds /\ (ppInit => ppBuild # "none")
    /\ \A p \in PpPorts : PpKept(ppPort[p], p \in ppHeld, ppHardware[p])

\* A call that changes one port.
LEMMA PpChanged ==
    ASSUME PpInv, NEW p \in PpPorts, NEW s \in PpRec, PpBecomes(p, s),
           UNCHANGED ppFixed,
           PpKept(s, p \in ppHeld', ppHardware[p]),
           \A q \in PpPorts : q # p => (q \in ppHeld' <=> q \in ppHeld),
           ppHeld' \subseteq PpPorts, ppStuck' \subseteq PpPorts
    PROVE  PpInv'
<1>1. ppPort' \in [PpPorts -> PpRec] /\ ppPort'[p] = s /\ \A q \in PpPorts : q # p => ppPort'[q] = ppPort[q]
      BY DEF PpBecomes, PpInv
<1>2. ASSUME NEW q \in PpPorts PROVE PpKept(ppPort[q], q \in ppHeld, ppHardware[q])'
  <2>1. CASE q = p
        BY <2>1, <1>1 DEF PpKept, ppFixed
  <2>2. CASE q # p
        BY <2>2, <1>1 DEF PpKept, ppFixed, PpInv
  <2> QED BY <2>1, <2>2
<1> QED BY <1>1, <1>2 DEF PpInv, ppFixed

\* Any of the records that a call leaves.
LEMMA PpRecord ==
    ASSUME NEW s \in PpRec, NEW busy \in BOOLEAN, NEW mine \in BOOLEAN, NEW caps \in SUBSET Modes,
           NEW regs \in PpRegs, NEW saved \in PpRegs, NEW claim \in {"free", "us", "other"}
    PROVE  [in_use |-> busy, claimed |-> mine, caps |-> caps, regs |-> regs, saved |-> saved,
            claim |-> claim] \in PpRec
BY DEF PpRec

\* pp_probe offers no mode that the port does not have.
LEMMA CapsWork ==
    ASSUME NEW p \in PpPorts, NEW h \in PpHardware, ppBuild \in PpBuilds, ppBuild # "none"
    PROVE  /\ Caps(h, p) \subseteq Modes
           /\ "ECP" \in Caps(h, p) => h.ecp
           /\ "EPP" \in Caps(h, p) /\ ppBuild # "ioperm" => h.epp \in {"hw", "sw"}
<1>1. h.epp \in {"hw", "sw", "1.7", "phony", "none"} /\ (h.epp = "phony" => h.ecp)
      BY PpAssumption
<1>2. Caps(h, p) \subseteq Modes
      BY DEF Caps, Modes
<1>3. "ECP" \in Caps(h, p) => h.ecp
      BY DEF Caps
<1>4. "EPP" \in Caps(h, p) /\ ppBuild # "ioperm" => h.epp \in {"hw", "sw"}
  <2> SUFFICES ASSUME "EPP" \in Caps(h, p), ppBuild # "ioperm", h.epp \notin {"hw", "sw"} PROVE FALSE
      OBVIOUS
  <2>1. ppBuild \in {"lib", "iopl"}
        BY PpAssumption
  <2> QED BY <1>1, <2>1 DEF Caps, ProbedEpp
<1> QED BY <1>2, <1>3, <1>4

LEMMA RegsOf ==
    /\ OrigRegs \in PpRegs /\ ProbedRegs \in PpRegs
    /\ \A regs \in PpRegs : SavedRegs(regs) \in PpRegs
    /\ \A regs \in PpRegs, mode \in Modes : InMode(regs, mode) \in PpRegs
<1>1. OrigRegs \in PpRegs /\ ProbedRegs \in PpRegs
      BY DEF OrigRegs, ProbedRegs, PpRegs
<1>2. ASSUME NEW regs \in PpRegs PROVE SavedRegs(regs) \in PpRegs
      BY DEF SavedRegs, PpRegs
<1>3. ASSUME NEW regs \in PpRegs, NEW mode \in Modes PROVE InMode(regs, mode) \in PpRegs
  <2> DEFINE r == IF ppBuild = "iopl" THEN [regs EXCEPT !.ecr = mode] ELSE regs
  <2>1. r \in PpRegs
        BY DEF PpRegs
  <2>2. /\ [r EXCEPT !.dir = "out"] \in PpRegs /\ [r EXCEPT !.dir = "in"] \in PpRegs
        /\ [r EXCEPT !.low = "zero"] \in PpRegs
        BY <2>1 DEF PpRegs
  <2>3. \/ InMode(regs, mode) = [r EXCEPT !.dir = "out"] \/ InMode(regs, mode) = [r EXCEPT !.dir = "in"]
        \/ InMode(regs, mode) = [r EXCEPT !.low = "zero"] \/ InMode(regs, mode) = r
        BY DEF InMode, Modes
  <2> QED BY <2>1, <2>2, <2>3
<1> QED BY <1>1, <1>2, <1>3

LEMMA PpInitInv == PpInit0 => PpInv
<1> SUFFICES ASSUME PpInit0 PROVE PpInv
    OBVIOUS
<1>1. ppPort \in [PpPorts -> PpRec]
  <2>1. [in_use |-> FALSE, claimed |-> FALSE, caps |-> {}, regs |-> OrigRegs, saved |-> OrigRegs, claim |-> "free"]
          \in PpRec
        BY RegsOf DEF PpRec
  <2> QED BY <2>1 DEF PpInit0
<1>2. ASSUME NEW p \in PpPorts PROVE PpKept(ppPort[p], p \in ppHeld, ppHardware[p])
      BY DEF PpInit0, PpKept
<1> QED BY <1>1, <1>2 DEF PpInv, PpInit0

LEMMA PpNextKeeps == ASSUME PpInv, PpNext PROVE PpInv'
<1>i. ASSUME NEW p \in PpPorts
      PROVE  /\ ppPort[p] \in PpRec /\ PpKept(ppPort[p], p \in ppHeld, ppHardware[p])
             /\ ppPort[p].regs \in PpRegs /\ ppPort[p].saved \in PpRegs
             /\ ppPort[p].claim \in {"free", "us", "other"}
             /\ ppHardware[p] \in PpHardware
      BY DEF PpInv, PpRec
<1>s. ppHeld \subseteq PpPorts /\ ppStuck \subseteq PpPorts
      BY DEF PpInv
<1>1. CASE PpInitialise
      BY <1>1 DEF PpInitialise, PpInv, PpKept
<1>2. ASSUME NEW p \in PpPorts, PpOpen(p) PROVE PpInv'
  <2>1. /\ ~ppPort[p].in_use /\ UNCHANGED <<ppFixed, ppStuck>>
        /\ ppBuild \in PpBuilds /\ ppBuild # "none"
        BY <1>2 DEF PpOpen, PpInv
  <2>2. CASE PpBecomes(p, [ppPort[p] EXCEPT !.claimed = FALSE]) /\ UNCHANGED ppHeld
    <3> DEFINE s == [ppPort[p] EXCEPT !.claimed = FALSE]
    <3>1. s \in PpRec
          BY <1>i DEF PpRec
    <3>2. PpKept(s, p \in ppHeld', ppHardware[p])
          BY <1>i, <2>1, <2>2 DEF PpKept, PpRec
    <3> HIDE DEF s
    <3>3. PpBecomes(p, s)
          BY <2>2 DEF s
    <3> QED BY <3>1, <3>2, <3>3, <2>1, <2>2, <1>s, PpChanged
  <2>3. CASE PpBecomes(p, PpOpened(ppPort[p], p)) /\ ppHeld' = ppHeld \cup {p}
    <3> DEFINE s == PpOpened(ppPort[p], p)
    <3>1. /\ s.in_use = TRUE /\ s.claimed = FALSE /\ s.caps = Caps(ppHardware[p], p)
          /\ s.claim = ppPort[p].claim
          BY <1>i DEF PpOpened, PpRec
    <3>2. /\ s.saved = (IF ppBuild = "lib" THEN ppPort[p].saved ELSE SavedRegs(ppPort[p].regs))
          /\ s.regs = (IF ppBuild = "lib" THEN ppPort[p].regs ELSE ProbedRegs)
          BY <1>i DEF PpOpened, PpRec
    <3>3. s \in PpRec
      <4> DEFINE x == ppPort[p]
                 c == Caps(ppHardware[p], p)
                 v == IF ppBuild = "lib" THEN ppPort[p].saved ELSE SavedRegs(ppPort[p].regs)
                 g == IF ppBuild = "lib" THEN ppPort[p].regs ELSE ProbedRegs
      <4>1. v \in PpRegs /\ g \in PpRegs
            BY <1>i, RegsOf
      <4>2. c \in SUBSET Modes
            BY <1>i, <2>1, CapsWork
      <4>3. s = [x EXCEPT !.in_use = TRUE, !.claimed = FALSE, !.caps = c, !.saved = v, !.regs = g] /\ x \in PpRec
            BY <1>i DEF PpOpened
      <4> HIDE DEF x, c, v, g, s
      <4> QED BY <4>1, <4>2, <4>3 DEF PpRec
    <3> HIDE DEF s
    <3>4. PpKept(s, p \in ppHeld', ppHardware[p])
      <4>1. p \in ppHeld' /\ ppPort[p].claim # "us"
            BY <2>3, <2>1, <1>i DEF PpKept
      <4>2. ppBuild = "iopl" => s.saved = OrigRegs
            BY <3>2, <2>1, <1>i DEF PpKept, SavedRegs
      <4> QED BY <4>1, <4>2, <3>1, <2>1, <1>i, CapsWork DEF PpKept
    <3>5. PpBecomes(p, s)
          BY <2>3 DEF s
    <3> QED BY <3>3, <3>4, <3>5, <2>1, <2>3, <1>s, PpChanged
  <2> QED BY <1>2, <2>2, <2>3 DEF PpOpen
<1>3. ASSUME NEW p \in PpPorts, PpClose(p) PROVE PpInv'
  <2> DEFINE g == IF ppBuild = "lib" THEN ppPort[p].regs ELSE ppPort[p].saved
             r == [ppPort[p] EXCEPT !.regs = g]
             s == IF r.claimed THEN PpReleased(r) ELSE r
             t == [s EXCEPT !.in_use = FALSE]
  <2>1. /\ p \in ppHeld /\ ppPort[p].in_use /\ UNCHANGED ppFixed /\ ppHeld' = ppHeld \ {p}
        /\ ppStuck' \subseteq PpPorts
        /\ PpBecomes(p, s) \/ PpBecomes(p, t)
        BY <1>3, <1>s DEF PpClose
  <2>2. r \in PpRec /\ r.regs = g /\ r.saved = ppPort[p].saved /\ r.claim = ppPort[p].claim
        /\ r.claimed = ppPort[p].claimed /\ r.caps = ppPort[p].caps /\ r.in_use = ppPort[p].in_use
        BY <1>i DEF PpRec
  <2> HIDE DEF r
  <2>3. /\ s \in PpRec /\ s.regs = g /\ s.saved = ppPort[p].saved
        /\ s.caps = ppPort[p].caps /\ s.in_use = ppPort[p].in_use
        BY <2>2 DEF PpRec, PpReleased
  <2>4. s.claim # "us"
        BY <2>2, <1>i DEF PpRec, PpReleased, PpKept
  <2> HIDE DEF s
  <2>5. /\ t \in PpRec /\ t.regs = g /\ t.saved = ppPort[p].saved /\ t.caps = ppPort[p].caps
        /\ t.in_use = FALSE /\ t.claim = s.claim
        BY <2>3 DEF PpRec
  <2> HIDE DEF t
  <2>6. PpKept(s, p \in ppHeld', ppHardware[p])
        BY <2>1, <2>3, <2>4, <1>i DEF PpKept
  <2>7. PpKept(t, p \in ppHeld', ppHardware[p])
        BY <2>1, <2>4, <2>5, <1>i DEF PpKept
  <2> QED BY <2>1, <2>3, <2>5, <2>6, <2>7, <1>s, PpChanged
<1>4. ASSUME NEW p \in PpPorts, PpClaim(p) PROVE PpInv'
  <2>1. p \in ppHeld /\ UNCHANGED <<ppFixed, ppHeld, ppStuck>>
        BY <1>4 DEF PpClaim
  <2>2. CASE UNCHANGED ppPort
        BY <2>1, <2>2 DEF PpInv, ppFixed, PpKept
  <2>3. ASSUME NEW c \in {ppPort[p].claim, "us"}, PpBecomes(p, [ppPort[p] EXCEPT !.claimed = TRUE, !.claim = c])
        PROVE  PpInv'
    <3> DEFINE s == [ppPort[p] EXCEPT !.claimed = TRUE, !.claim = c]
    <3>1. /\ s \in PpRec /\ s.regs = ppPort[p].regs /\ s.saved = ppPort[p].saved /\ s.caps = ppPort[p].caps
          /\ s.in_use = ppPort[p].in_use /\ s.claimed = TRUE
          BY <1>i DEF PpRec
    <3>2. PpBecomes(p, s)
          BY <2>3
    <3> HIDE DEF s
    <3>3. PpKept(s, p \in ppHeld', ppHardware[p])
          BY <3>1, <2>1, <1>i DEF PpKept
    <3> QED BY <3>1, <3>2, <3>3, <2>1, <1>s, PpChanged
  <2>4. [ppPort[p] EXCEPT !.claimed = TRUE] = [ppPort[p] EXCEPT !.claimed = TRUE, !.claim = ppPort[p].claim]
        BY <1>i DEF PpRec
  <2> QED BY <1>4, <2>2, <2>3, <2>4 DEF PpClaim
<1>5. ASSUME NEW p \in PpPorts, PpRelease(p) PROVE PpInv'
  <2> DEFINE s == PpReleased(ppPort[p])
  <2>1. p \in ppHeld /\ UNCHANGED <<ppFixed, ppHeld, ppStuck>> /\ PpBecomes(p, s)
        BY <1>5 DEF PpRelease
  <2>2. /\ s \in PpRec /\ s.regs = ppPort[p].regs /\ s.saved = ppPort[p].saved /\ s.caps = ppPort[p].caps
        /\ s.in_use = ppPort[p].in_use /\ s.claim # "us"
        BY <1>i DEF PpRec, PpReleased
  <2> HIDE DEF s
  <2>3. PpKept(s, p \in ppHeld', ppHardware[p])
        BY <2>2, <2>1, <1>i DEF PpKept
  <2> QED BY <2>1, <2>2, <2>3, <1>s, PpChanged
\* Only the registers change, of a port that is in use.
<1>6. ASSUME NEW p \in PpPorts, NEW g \in PpRegs, p \in ppHeld, PpBecomes(p, [ppPort[p] EXCEPT !.regs = g]),
             UNCHANGED <<ppFixed, ppHeld, ppStuck>>
      PROVE  PpInv'
  <2> DEFINE s == [ppPort[p] EXCEPT !.regs = g]
  <2>1. /\ s \in PpRec /\ s.saved = ppPort[p].saved /\ s.caps = ppPort[p].caps
        /\ s.in_use = ppPort[p].in_use /\ s.claim = ppPort[p].claim /\ s.claimed = ppPort[p].claimed
        BY <1>i DEF PpRec
  <2>2. PpBecomes(p, s)
        BY <1>6
  <2> HIDE DEF s
  <2>3. PpKept(s, p \in ppHeld', ppHardware[p])
        BY <2>1, <1>6, <1>i DEF PpKept
  <2> QED BY <2>1, <2>2, <2>3, <1>6, <1>s, PpChanged
<1>7. ASSUME NEW p \in PpPorts, NEW mode \in Modes, PpSetMode(p, mode) PROVE PpInv'
  <2>1. CASE UNCHANGED ppPort
        BY <1>7, <2>1 DEF PpSetMode, PpInv, ppFixed, PpKept
  <2>2. CASE PpBecomes(p, [ppPort[p] EXCEPT !.regs = InMode(@, mode)])
    <3>1. InMode(ppPort[p].regs, mode) \in PpRegs
          BY <1>i, RegsOf
    <3>2. PpBecomes(p, [ppPort[p] EXCEPT !.regs = InMode(ppPort[p].regs, mode)])
          BY <2>2
    <3> QED BY <3>1, <3>2, <1>6, <1>7 DEF PpSetMode
  <2> QED BY <1>7, <2>1, <2>2 DEF PpSetMode
<1>8. ASSUME NEW p \in PpPorts, PpSetDataDir(p) PROVE PpInv'
  <2>1. PICK dir \in {"in", "out"}, low \in {"probe", "zero", "app"} :
          PpBecomes(p, [ppPort[p] EXCEPT !.regs.dir = dir, !.regs.low = low])
        BY <1>8 DEF PpSetDataDir
  <2> DEFINE g == [ppPort[p].regs EXCEPT !.dir = dir, !.low = low]
  <2>2. g \in PpRegs
        BY <1>i DEF PpRegs
  <2>3. [ppPort[p] EXCEPT !.regs.dir = dir, !.regs.low = low] = [ppPort[p] EXCEPT !.regs = g]
        BY <1>i DEF PpRec, PpRegs
  <2> HIDE DEF g
  <2> QED BY <2>1, <2>2, <2>3, <1>6, <1>8 DEF PpSetDataDir
<1>9. ASSUME NEW p \in PpPorts, PpOther(p) PROVE PpInv'
  <2> DEFINE c == IF ppPort[p].claim = "free" THEN "other" ELSE "free"
             s == [ppPort[p] EXCEPT !.claim = c]
  <2>1. UNCHANGED <<ppFixed, ppHeld, ppStuck>> /\ PpBecomes(p, s)
        BY <1>9 DEF PpOther
  <2>2. /\ s \in PpRec /\ s.regs = ppPort[p].regs /\ s.saved = ppPort[p].saved /\ s.caps = ppPort[p].caps
        /\ s.in_use = ppPort[p].in_use /\ s.claim # "us"
        BY <1>i DEF PpRec
  <2> HIDE DEF s
  <2>3. PpKept(s, p \in ppHeld', ppHardware[p])
        BY <2>2, <2>1, <1>i DEF PpKept
  <2> QED BY <2>1, <2>2, <2>3, <1>s, PpChanged
<1>10. ASSUME NEW p \in PpPorts, PpOpenBusy(p) PROVE PpInv'
      BY <1>10 DEF PpOpenBusy, ppVars, PpInv, PpKept
<1> QED BY <1>1, <1>2, <1>3, <1>4, <1>5, <1>7, <1>8, <1>9, <1>10 DEF PpNext

LEMMA PpAlways == PpSpec => []PpInv
<1>1. PpInv /\ [PpNext]_ppVars => PpInv'
  <2>1. PpInv /\ UNCHANGED ppVars => PpInv'
        BY DEF ppVars, PpInv, PpKept
  <2> QED BY <2>1, PpNextKeeps
<1> QED BY <1>1, PpInitInv, PTL DEF PpSpec

LEMMA PpInvSafe == PpInv => PpSafe
<1> SUFFICES ASSUME PpInv PROVE PpSafe
    OBVIOUS
<1>1. \A p \in PpPorts : PpKept(ppPort[p], p \in ppHeld, ppHardware[p])
      BY DEF PpInv
<1>2. PpTypeOK
      BY <1>1 DEF PpInv, PpTypeOK, PpRec, PpKept
<1>3. CtrlBroughtBack /\ ClaimIsMarked /\ OffersWhatWorks
      BY <1>1 DEF CtrlBroughtBack, ClaimIsMarked, OffersWhatWorks, PpKept
<1> QED BY <1>2, <1>3 DEF PpSafe

-----------------------------------------------------------------------------
(* sanei_pio.c.                                                            *)


Transferring == {"write", "ack", "out", "pulse", "read", "in", "asked", "get"}

\* A descriptor is of a port in use, and no port has two.
PioOwners ==
    /\ inUse \in [PioPorts -> BOOLEAN] /\ holds \subseteq PioUsers \X PioPorts
    /\ \A u \in PioUsers, p \in PioPorts : <<u, p>> \in holds => inUse[p]
    /\ \A u, v \in PioUsers, p \in PioPorts : <<u, p>> \in holds /\ <<v, p>> \in holds => u = v

\* A byte counts as handed over for the peripheral first: while the strobe is out, it is
\* one byte ahead.  What the lines show tells whether it has answered, in the direction
\* that the host has chosen.
PioAgrees ==
    /\ pioStep \in Transferring \cup {"idle", "exited"} /\ shown \in {{}, Ready, Offers}
    /\ buf \in Seq(PioBytes) /\ want \in Seq(PioBytes) /\ taken \in Seq(PioBytes) /\ onPort \in PioBytes
    /\ pioStep \in {"idle", "write", "ack", "read", "in"} => shown # {}
    /\ pioStep \in {"write", "ack", "read"} => buf = <<>>
    /\ pioStep \in {"idle", "write", "ack", "read", "in", "out"} => buf = taken
    /\ pioStep \in {"out", "pulse"} => "DIR" \in ctrl
    /\ pioStep \in {"in", "asked", "get"} => "DIR" \notin ctrl
    /\ pioStep = "pulse" => Len(buf) < Len(want) /\ taken = Append(buf, want[Len(buf) + 1])
    /\ pioStep \in {"asked", "get"} =>
         /\ shown \in {{}, Offers}
         /\ taken = IF shown = {} THEN buf ELSE Append(buf, onPort)

PioInv == PioOwners /\ PioAgrees

LEMMA ShownDiffer == {} # Ready /\ {} # Offers /\ Ready # Offers /\ "BUSY" \in Ready /\ "BUSY" \in Offers
                     /\ "NACKNLG" \in Ready /\ "NACKNLG" \notin Offers
BY DEF Ready, Offers

LEMMA PioInitInv == PioInit => PioInv
<1> SUFFICES ASSUME PioInit PROVE PioInv
    OBVIOUS
<1>1. AnyByte \in PioBytes
      BY PioAssumption DEF AnyByte
<1> QED BY <1>1, ShownDiffer DEF PioInit, PioInv, PioOwners, PioAgrees, Transferring

\* No call is under way when a port is opened or closed, or a call begins.
LEMMA PioCallsKeep ==
    ASSUME PioInv, NEW u \in PioUsers, NEW p \in PioPorts,
           PioOpen(u, p) \/ PioClose(u, p) \/ PioCall(u, p)
    PROVE  PioInv'
<1>1. CASE PioOpen(u, p)
  <2>1. PioOwners'
    <3>1. inUse' \in [PioPorts -> BOOLEAN] /\ inUse'[p] = TRUE /\ \A q \in PioPorts : q # p => inUse'[q] = inUse[q]
          BY <1>1 DEF PioOpen, PioInv, PioOwners
    <3>2. ~inUse[p] /\ (holds' = holds \cup {<<u, p>>} \/ holds' = holds)
          BY <1>1 DEF PioOpen
    <3> QED BY <3>1, <3>2 DEF PioInv, PioOwners
  <2>2. PioAgrees'
        BY <1>1 DEF PioOpen, PioInv, PioAgrees
  <2> QED BY <2>1, <2>2 DEF PioInv
<1>2. CASE PioClose(u, p)
  <2>1. PioOwners'
    <3>1. inUse' \in [PioPorts -> BOOLEAN] /\ \A q \in PioPorts : q # p => inUse'[q] = inUse[q]
          BY <1>2 DEF PioClose, PioInv, PioOwners
    <3>2. <<u, p>> \in holds /\ holds' = holds \ {<<u, p>>}
          BY <1>2 DEF PioClose
    <3> QED BY <3>1, <3>2 DEF PioInv, PioOwners
  <2>2. PioAgrees'
        BY <1>2 DEF PioClose, PioInv, PioAgrees, wires
  <2> QED BY <2>1, <2>2 DEF PioInv
<1>3. CASE PioCall(u, p)
  <2>1. PioOwners'
        BY <1>3 DEF PioCall, PioInv, PioOwners
  <2>2. want' \in Seq(PioBytes)
        BY <1>3 DEF PioCall
  <2>3. PioAgrees'
        BY <1>3, <2>2 DEF PioCall, PioInv, PioAgrees, wires, Transferring
  <2> QED BY <2>1, <2>3 DEF PioInv
<1> QED BY <1>1, <1>2, <1>3

LEMMA PioTransferKeeps ==
    ASSUME PioInv,
           \/ WriteBegins \/ OutByte \/ OutPulse \/ WriteEnds
           \/ ReadBegins \/ AskByte \/ AskPulse \/ GetByte \/ ReadEnds
           \/ PioTimeOut \/ PeripheralReady
    PROVE  PioInv'
<1>0. PioOwners'
      BY DEF PioInv, PioOwners, WriteBegins, OutByte, OutPulse, WriteEnds, ReadBegins, AskByte, AskPulse,
             GetByte, ReadEnds, PioTimeOut, PeripheralReady, Keeps
<1>1. CASE WriteBegins
      BY <1>0, <1>1, ShownDiffer DEF WriteBegins, Waited, Keeps, PioInv, PioAgrees, Transferring
<1>2. CASE OutByte
  <2>1. /\ pioStep = "out" /\ pioStep' = "pulse" /\ Ready \subseteq shown /\ Len(buf) < Len(want)
        /\ onPort' = want[Len(buf) + 1] /\ ctrl' = {"DIR", "NSTROBE"} /\ shown' = {}
        /\ UNCHANGED <<buf, want>>
        /\ taken' = IF shown = Ready THEN Append(taken, onPort') ELSE taken
        BY <1>2, ShownDiffer DEF OutByte, Waited, Keeps
  <2>2. shown = Ready
        BY <2>1, ShownDiffer DEF PioInv, PioAgrees
  <2>3. onPort' \in PioBytes /\ taken' = Append(buf, want[Len(buf) + 1]) /\ taken' \in Seq(PioBytes)
        BY <2>1, <2>2 DEF PioInv, PioAgrees
  <2> QED BY <1>0, <2>1, <2>3 DEF PioInv, PioAgrees, Transferring
<1>3. CASE OutPulse
  <2>1. pioStep = "pulse" /\ pioStep' = "out" /\ ctrl' = {"DIR"} /\ buf' = Append(buf, want[Len(buf) + 1])
        /\ UNCHANGED <<want, shown, onPort, taken>>
        BY <1>3 DEF OutPulse, Keeps
  <2>2. buf' = taken'
        BY <2>1 DEF PioInv, PioAgrees
  <2> QED BY <1>0, <2>1, <2>2 DEF PioInv, PioAgrees, Transferring
<1>4. CASE WriteEnds
      BY <1>0, <1>4, ShownDiffer DEF WriteEnds, Waited, Keeps, PioInv, PioAgrees, Transferring
<1>5. CASE ReadBegins
      BY <1>0, <1>5, ShownDiffer DEF ReadBegins, Waited, Keeps, PioInv, PioAgrees, Transferring
<1>6. CASE AskByte
      BY <1>0, <1>6, ShownDiffer DEF AskByte, Waited, Keeps, PioInv, PioAgrees, Transferring
<1>7. CASE AskPulse
      BY <1>0, <1>7, ShownDiffer DEF AskPulse, Keeps, PioInv, PioAgrees, Transferring
<1>8. CASE GetByte
  <2>1. /\ pioStep = "get" /\ pioStep' = "in" /\ shown = Offers /\ buf' = Append(buf, onPort)
        /\ UNCHANGED <<want, ctrl, shown, onPort, taken>>
        BY <1>8 DEF GetByte, Waited, Keeps
  <2>2. buf' = taken'
        BY <2>1, ShownDiffer DEF PioInv, PioAgrees
  <2> QED BY <1>0, <2>1, <2>2, ShownDiffer DEF PioInv, PioAgrees, Transferring
<1>9. CASE ReadEnds
      BY <1>0, <1>9, ShownDiffer DEF ReadEnds, Waited, Keeps, PioInv, PioAgrees, Transferring
<1>10. CASE PioTimeOut
      BY <1>0, <1>10 DEF PioTimeOut, wires, PioInv, PioAgrees, Transferring
<1>11. CASE PeripheralReady
  <2>1. pioStep \in Transferring /\ UNCHANGED <<pioStep, ctrl, want, buf>>
        BY <1>11 DEF PeripheralReady, PioInv, PioAgrees
  <2>2. CASE shown' = Ready /\ "DIR" \in ctrl /\ UNCHANGED <<onPort, taken>>
        BY <1>0, <2>1, <2>2, ShownDiffer DEF PioInv, PioAgrees, Transferring
  <2>3. CASE shown' = Offers /\ "DIR" \notin ctrl /\ shown # {} /\ shown # Offers /\ UNCHANGED <<onPort, taken>>
        BY <1>0, <2>1, <2>3, ShownDiffer DEF PioInv, PioAgrees, Transferring
  <2>4. CASE /\ shown' = Offers /\ "DIR" \notin ctrl /\ shown = {}
             /\ \E b \in PioBytes : onPort' = b /\ taken' = Append(taken, b)
    <3>1. onPort' \in PioBytes /\ taken' = Append(taken, onPort') /\ taken' \in Seq(PioBytes)
          BY <2>4 DEF PioInv, PioAgrees
    <3>2. pioStep \in {"asked", "get"}
          BY <2>1, <2>4 DEF PioInv, PioAgrees, Transferring
    <3>3. taken' = Append(buf', onPort')
          BY <2>1, <2>4, <3>1, <3>2 DEF PioInv, PioAgrees
    <3> QED BY <1>0, <2>1, <2>4, <3>1, <3>2, <3>3, ShownDiffer DEF PioInv, PioAgrees, Transferring
  <2> QED BY <1>11, <2>2, <2>3, <2>4 DEF PeripheralReady
<1> QED BY <1>1, <1>2, <1>3, <1>4, <1>5, <1>6, <1>7, <1>8, <1>9, <1>10, <1>11

LEMMA PioAlways == PioSpec => []PioInv
<1>1. PioInv /\ [PioNext]_pioVars => PioInv'
  <2>1. PioInv /\ UNCHANGED pioVars => PioInv'
        BY DEF pioVars, PioInv, PioOwners, PioAgrees
  <2>2. PioInv /\ FirstTime => PioInv'
        BY DEF FirstTime, wires, PioInv, PioOwners, PioAgrees
  <2> QED BY <2>1, <2>2, PioCallsKeep, PioTransferKeeps DEF PioNext
<1> QED BY <1>1, PioInitInv, PTL DEF PioSpec

LEMMA PioInvSafe == PioInv => PioSafe
BY DEF PioInv, PioOwners, PioAgrees, PioSafe, OneUserEach, BytesHandedOver

\* Whatever ports there are, and whatever is called in which order.  sanei_pa4s2.c: a
\* port is claimed exactly while it is enabled, unless closing it has failed, and its
\* registers are as they were once it is disabled.  sanei_pp.c: a claim is marked; in
\* builds with iopl a port that is not in use has its control registers back - with
\* ioperm and libieee1284 nothing is claimed of them; ECP is offered only where it is,
\* and EPP too, but with ioperm.  sanei_pio.c: a port has one user, and no byte is lost
\* or doubled on it.
THEOREM PortsAreSafe == PaSpec /\ PpSpec /\ PioSpec => []PortsSafe
<1>1. PaInv /\ PpInv /\ PioInv => PortsSafe
      BY PaInvSafe, PpInvSafe, PioInvSafe DEF PortsSafe
<1> QED BY <1>1, PaAlways, PpAlways, PioAlways, PTL

-----------------------------------------------------------------------------
(* sanei_lm983x.c.  LmSafe needs to know besides that a call stays inside  *)
(* the registers and its buffer, and of what kind the buffer is.           *)


\* What the registers hold now.
Held == {chip[q] : q \in Regs}

LmInside ==
    /\ callReg \in Nat /\ callInc \in BOOLEAN /\ count \in Nat /\ asked \in Nat
    /\ call \in {"idle", "write", "read", "reset"}
    /\ call \in {"write", "read"} => callReg \in Regs
    /\ call = "write" => count <= Len(data) /\ data \in Seq(ChipBytes)
    /\ call = "read" => data \in Seq(Held)
    /\ call = "read" /\ callInc => callReg + count <= LastReg + 1

LmInv == LmInside /\ LmSafe

LEMMA SequenceOf == ASSUME NEW S, NEW n \in Nat, NEW f \in [1 .. n -> S]
               PROVE  f \in Seq(S) /\ Len(f) = n
OBVIOUS

LEMMA Concatenated ==
    ASSUME NEW S, NEW s \in Seq(S), NEW u \in Seq(S)
    PROVE  /\ s \o u \in Seq(S) /\ Len(s \o u) = Len(s) + Len(u)
           /\ \A i \in 1 .. Len(s) : (s \o u)[i] = s[i]
           /\ \A i \in 1 .. Len(u) : (s \o u)[Len(s) + i] = u[i]
OBVIOUS

LEMMA SameSeq ==
    ASSUME NEW S, NEW s \in Seq(S), NEW u \in Seq(S), Len(s) = Len(u), \A i \in 1 .. Len(s) : s[i] = u[i]
    PROVE  s = u
OBVIOUS

\* A chunk of a write: the bytes that arrive are the next ones of the data, for the
\* registers that come next.
LEMMA ChunkArrives ==
    ASSUME LmInv, call = "write", NEW n \in Nat, count + n <= Len(data),
           Arrives(IF callInc THEN callReg + count ELSE callReg, SubSeq(data, count + 1, count + n), callInc)
    PROVE  sent' = [i \in 1 .. count + n |-> <<RegOf(i), data[i]>>]
<1> DEFINE r == IF callInc THEN callReg + count ELSE callReg
           bs == SubSeq(data, count + 1, count + n)
           old == [i \in 1 .. count |-> <<RegOf(i), data[i]>>]
           new == [i \in DOMAIN bs |-> <<IF callInc THEN r + i - 1 ELSE r, bs[i]>>]
           all == [i \in 1 .. count + n |-> <<RegOf(i), data[i]>>]
           Pairs == Nat \X ChipBytes
<1>1. /\ bs \in Seq(ChipBytes) /\ Len(bs) = n /\ DOMAIN bs = 1 .. n
      /\ \A i \in 1 .. n : bs[i] = data[count + i]
      BY DEF LmInv, LmInside
<1>2. sent' = old \o new
      BY DEF Arrives, LmInv, LmSafe, WriteIsComplete
<1>3. \A i \in 1 .. count + n : RegOf(i) \in Nat /\ data[i] \in ChipBytes
      BY DEF LmInv, LmInside, RegOf, Regs
<1>a. count \in Nat /\ count + n \in Nat
      BY DEF LmInv, LmInside
<1>4. old \in Seq(Pairs) /\ Len(old) = count
  <2>1. old \in [1 .. count -> Pairs]
        BY <1>3, <1>a
  <2> QED BY <2>1, <1>a, SequenceOf
<1>5. \A i \in 1 .. n : new[i] = <<RegOf(count + i), data[count + i]>>
      BY <1>1 DEF RegOf, LmInv, LmInside, Regs
<1>6. new \in Seq(Pairs) /\ Len(new) = n
  <2>1. new \in [1 .. n -> Pairs]
    <3>1. \A i \in 1 .. n : count + i \in 1 .. count + n
          BY <1>a
    <3>2. ASSUME NEW i \in 1 .. n PROVE new[i] \in Pairs
      <4>1. RegOf(count + i) \in Nat /\ data[count + i] \in ChipBytes
            BY <1>3, <3>1
      <4>2. <<RegOf(count + i), data[count + i]>> \in Pairs
            BY <4>1
      <4> HIDE DEF new, Pairs, bs
      <4>3. new[i] = <<RegOf(count + i), data[count + i]>>
            BY <1>5
      <4> QED BY <4>2, <4>3
    <3>3. DOMAIN new = 1 .. n
          BY <1>1
    <3> HIDE DEF bs, Pairs
    <3> QED BY <3>2, <3>3
  <2> QED BY <2>1, SequenceOf
<1>7. all \in Seq(Pairs) /\ Len(all) = count + n
  <2>1. all \in [1 .. count + n -> Pairs]
        BY <1>3
  <2> QED BY <2>1, <1>a, SequenceOf
<1>b. /\ \A i \in 1 .. count : old[i] = <<RegOf(i), data[i]>>
      /\ \A i \in 1 .. count + n : all[i] = <<RegOf(i), data[i]>>
      OBVIOUS
<1> HIDE DEF old, new, all, Pairs
<1>8. \A i \in 1 .. count + n : (old \o new)[i] = all[i]
  <2> SUFFICES ASSUME NEW i \in 1 .. count + n PROVE (old \o new)[i] = all[i]
        OBVIOUS
  <2>1. CASE i <= count
    <3>1. i \in 1 .. count
          BY <2>1, <1>a
    <3>2. (old \o new)[i] = old[i]
          BY <3>1, <1>4, <1>6, Concatenated
    <3> QED BY <3>1, <3>2, <1>b
  <2>2. CASE i > count
    <3>1. i - count \in 1 .. n /\ count + (i - count) = i
          BY <2>2, <1>a, n \in Nat
    <3>2. (old \o new)[i] = new[i - count]
          BY <3>1, <1>4, <1>6, Concatenated
    <3> QED BY <3>1, <3>2, <1>5, <1>b
  <2>3. i <= count \/ i > count
        BY <1>a
  <2> QED BY <2>1, <2>2, <2>3
<1>9. old \o new \in Seq(Pairs) /\ Len(old \o new) = count + n
      BY <1>4, <1>6, Concatenated
<1>10. old \o new = all
      BY <1>7, <1>8, <1>9, SameSeq
<1> QED BY <1>2, <1>10 DEF all

\* A chunk of a read: what is appended is what the next registers hold.
LEMMA ChunkRead ==
    ASSUME LmInv, call = "read", NEW n \in 1 .. asked,
           data' = data \o [i \in 1 .. n |-> chip[RegOf(Len(data) + i)]]
    PROVE  /\ data' \in Seq(Held) /\ Len(data') = Len(data) + n
           /\ \A i \in 1 .. Len(data) + n : callInc => data'[i] = chip[RegOf(i)]
<1> DEFINE new == [i \in 1 .. n |-> chip[RegOf(Len(data) + i)]]
<1>1. data \in Seq(Held) /\ Len(data) \in Nat /\ Len(data) + asked <= count
      BY DEF LmInv, LmInside, LmSafe, ReadIsInPlace
<1>2. \A i \in 1 .. n : RegOf(Len(data) + i) \in Regs
      BY <1>1, Lm983xAssumption DEF LmInv, LmInside, RegOf, Regs
<1>3. new \in Seq(Held) /\ Len(new) = n
  <2>1. new \in [1 .. n -> Held]
        BY <1>2 DEF Held
  <2>2. n \in Nat
        BY DEF LmInv, LmInside
  <2> QED BY <2>1, <2>2, SequenceOf
<1>4. \A i \in 1 .. n : new[i] = chip[RegOf(Len(data) + i)]
      OBVIOUS
<1>5. data' = data \o new
      OBVIOUS
<1> HIDE DEF new
<1>6. data' \in Seq(Held) /\ Len(data') = Len(data) + n
      BY <1>1, <1>3, <1>5, Concatenated
<1>7. ASSUME NEW i \in 1 .. Len(data) + n, callInc PROVE data'[i] = chip[RegOf(i)]
  <2>1. CASE i <= Len(data)
    <3>1. i \in DOMAIN data
          BY <1>1, <2>1
    <3>2. data'[i] = data[i]
          BY <1>1, <1>3, <1>5, <3>1, Concatenated
    <3> QED BY <1>7, <3>1, <3>2 DEF LmInv, LmSafe, ReadIsInPlace
  <2>2. CASE i > Len(data)
    <3>1. i - Len(data) \in 1 .. n /\ Len(data) + (i - Len(data)) = i
          BY <2>2, <1>1
    <3>2. data'[i] = new[i - Len(data)]
      <4>1. (data \o new)[Len(data) + (i - Len(data))] = new[i - Len(data)]
            BY <1>1, <1>3, <3>1, Concatenated
      <4> QED BY <4>1, <3>1, <1>5
    <3> QED BY <3>1, <3>2, <1>4
  <2> QED BY <2>1, <2>2, <1>1
<1> QED BY <1>6, <1>7

LEMMA LmInitInv == LmInit => LmInv
<1> SUFFICES ASSUME LmInit PROVE LmInv
    OBVIOUS
<1>1. call = "idle"
      BY DEF LmInit
<1>2. LmInside
      BY <1>1 DEF LmInit, LmInside
<1> QED BY <1>1, <1>2 DEF LmInv, LmSafe, WriteIsComplete, ReadIsInPlace

LEMMA WriteKeeps == ASSUME LmInv, LmWriteNext PROVE LmInv'
<1>1. CASE LmWrite
  <2>1. PICK r \in 0 .. LastReg + 1, inc \in BOOLEAN, n \in 0 .. MaxData :
          \E bs \in [1 .. n -> ChipBytes] :
            /\ callReg' = r /\ callInc' = inc /\ data' = bs /\ count' = 0
            /\ IF r > LastReg THEN LmReturn("INVAL") ELSE call' = "write" /\ UNCHANGED lmStatus
        BY <1>1 DEF LmWrite
  <2>2. sent' = <<>> /\ asked' = 0
        BY <1>1 DEF LmWrite, LmBegins
  <2>3. data' \in Seq(ChipBytes)
        BY <2>1, Lm983xAssumption, SequenceOf
  <2>4. call' \in {"idle", "write"} /\ (call' = "write" => callReg' \in Regs)
        BY <2>1, Lm983xAssumption DEF LmReturn, Regs
  <2>5. LmInside'
        BY <2>1, <2>2, <2>3, <2>4 DEF LmInside
  <2>6. sent' = [i \in 1 .. count' |-> <<RegOf(i)', data'[i]>>]
        BY <2>1, <2>2
  <2> QED BY <2>4, <2>5, <2>6 DEF LmInv, LmSafe, WriteIsComplete, ReadIsInPlace
<1>2. CASE WriteFails \/ WriteDone
      BY <1>2 DEF WriteFails, WriteDone, LmReturn, LmInv, LmInside, LmSafe, WriteIsComplete, ReadIsInPlace
<1>3. CASE WriteChunk
  <2>1. PICK n \in 0 .. Chunk :
          /\ Arrives(IF callInc THEN callReg + count ELSE callReg, SubSeq(data, count + 1, count + n), callInc)
          /\ count' = count + n
        BY <1>3 DEF WriteChunk
  <2>2. /\ call = "write" /\ count < Len(data)
        /\ UNCHANGED <<call, callReg, callInc, data, asked, lmStatus, before, retries>>
        BY <1>3 DEF WriteChunk
  <2>3. n \in Nat /\ count + n <= Len(data)
        BY <2>2, Lm983xAssumption DEF Chunk, LmInv, LmInside
  <2>4. sent' = [i \in 1 .. count + n |-> <<RegOf(i), data[i]>>]
        BY <2>1, <2>2, <2>3, ChunkArrives
  <2>5. WriteIsComplete'
        BY <2>1, <2>2, <2>4 DEF WriteIsComplete, RegOf
  <2> QED BY <2>1, <2>2, <2>3, <2>5 DEF LmInv, LmInside, LmSafe, ReadIsInPlace
<1> QED BY <1>1, <1>2, <1>3 DEF LmWriteNext

LEMMA ReadKeeps == ASSUME LmInv, LmReadNext PROVE LmInv'
<1>1. CASE LmRead
      BY <1>1, Lm983xAssumption
      DEF LmRead, LmBegins, LmReturn, LmInv, LmInside, LmSafe, WriteIsComplete, ReadIsInPlace, Regs, Held
<1>2. CASE ReadCommand
      BY <1>2, Lm983xAssumption
      DEF ReadCommand, LmReturn, LmInv, LmInside, LmSafe, WriteIsComplete, ReadIsInPlace, RegOf, Held
<1>3. CASE ReadFails \/ ReadDone
      BY <1>3 DEF ReadFails, ReadDone, LmReturn, LmInv, LmInside, LmSafe, WriteIsComplete, ReadIsInPlace
<1>4. CASE ReadChunk
  <2>1. PICK n \in 1 .. asked :
          /\ data' = data \o [i \in 1 .. n |-> chip[RegOf(Len(data) + i)]]
          /\ asked' = asked - n
        BY <1>4 DEF ReadChunk
  <2>2. call = "read" /\ UNCHANGED <<chip, sent, call, callReg, callInc, count, lmStatus, before, retries>>
        BY <1>4 DEF ReadChunk
  <2>3. /\ data' \in Seq(Held) /\ Len(data') = Len(data) + n
        /\ \A i \in 1 .. Len(data) + n : callInc => data'[i] = chip[RegOf(i)]
        BY <2>1, <2>2, ChunkRead
  <2>4. Held' = Held
        BY <2>2 DEF Held
  <2>5. LmInside'
        BY <2>1, <2>2, <2>3, <2>4 DEF LmInv, LmInside
  <2>6. ReadIsInPlace'
    <3>1. Len(data) + asked <= count /\ Len(data) \in Nat /\ asked \in Nat /\ n \in 1 .. asked
          BY <2>1, <2>2 DEF LmInv, LmInside, LmSafe, ReadIsInPlace
    <3>2. Len(data') + asked' <= count'
          BY <2>1, <2>2, <2>3, <3>1 DEF LmInv, LmInside
    <3>3. DOMAIN data' = 1 .. Len(data) + n
          BY <2>3
    <3>4. ASSUME NEW i \in DOMAIN data', callInc' PROVE data'[i] = chip'[RegOf(i)']
          BY <2>2, <2>3, <3>3, <3>4 DEF RegOf
    <3> QED BY <3>2, <3>4 DEF ReadIsInPlace
  <2> QED BY <2>2, <2>5, <2>6 DEF LmInv, LmSafe, WriteIsComplete
<1> QED BY <1>1, <1>2, <1>3, <1>4 DEF LmReadNext

LEMMA ResetKeeps == ASSUME LmInv, LmResetNext PROVE LmInv'
BY DEF LmResetNext, LmReset, ResetTry, ResetGivesUp, LmBegins, LmReturn, LmInv, LmInside, LmSafe,
       WriteIsComplete, ReadIsInPlace

\* For any registers, data and transfer sizes: a write has put into the chip what it
\* has counted, and the buffer of a read holds the registers that were asked for
\* (sanei_lm983x.c:88-220).
THEOREM RegistersInPlace == LmSpec => []LmSafe
<1>1. LmInv /\ [LmNext]_lmVars => LmInv'
  <2> SUFFICES ASSUME LmInv, [LmNext]_lmVars PROVE LmInv'
        OBVIOUS
  <2>1. CASE UNCHANGED lmVars
        BY <2>1 DEF lmVars, LmInv, LmInside, LmSafe, WriteIsComplete, ReadIsInPlace, RegOf, Held
  <2> QED BY <2>1, WriteKeeps, ReadKeeps, ResetKeeps DEF LmNext
<1>2. LmInv => LmSafe
      BY DEF LmInv
<1>3. QED
      BY LmInitInv, <1>1, <1>2, PTL DEF LmSpec

-----------------------------------------------------------------------------
(* What one call may not do (DeviceSteps).                                 *)

\* Every slot keeps its device.
SameDevices ==
    \A d \in Dns : devices'[d].devname = devices[d].devname /\ devices'[d].id = devices[d].id

\* An open, a close and a new endpoint change nothing of that.
LEMMA OpenSame == ASSUME UsbInv, NEW b \in Backends, NEW a \in Addrs, OpenFails(b, a) \/ SaneiUsbOpen(b, a) PROVE SameDevices
<1>1. devices \in [Dns -> SlotRec]
      BY InvFacts
<1>2. CASE OpenFails(b, a)
      BY <1>1, <1>2 DEF OpenFails, SameDevices, SlotRec
<1>3. CASE SaneiUsbOpen(b, a)
  <2> DEFINE ep(d) == IF IsLibusb(d) THEN FoundEndpoints(devices[d].ep, devices[d].id) ELSE devices[d].ep
  <2>1. PICK d \in Lookup(a) :
          devices' = [devices EXCEPT ![d].open = TRUE, ![d].live = TRUE,
                          ![d].ep = IF IsLibusb(d) THEN FoundEndpoints(@, devices[d].id) ELSE @]
        BY <1>3 DEF SaneiUsbOpen
  <2>2. d \in Dns
        BY DEF Lookup
  <2>3. devices' = [devices EXCEPT ![d].open = TRUE, ![d].live = TRUE, ![d].ep = ep(d)]
        BY <1>1, <2>1, <2>2 DEF SlotRec
  <2> HIDE DEF ep
  <2> QED BY <1>1, <2>2, <2>3 DEF SameDevices, SlotRec
<1> QED BY <1>2, <1>3

LEMMA CloseSame == ASSUME UsbInv, NEW b \in Backends, SaneiUsbClose(b) PROVE SameDevices
<1>1. devices \in [Dns -> SlotRec]
      BY InvFacts
<1> QED BY <1>1 DEF SaneiUsbClose, SameDevices, SlotRec

LEMMA EndpointSame == ASSUME UsbInv, NEW b \in Backends, NEW t \in SetTypes, SetEndpoint(b, t) PROVE SameDevices
<1>1. devices \in [Dns -> SlotRec]
      BY InvFacts
<1> QED BY <1>1 DEF SetEndpoint, SameDevices, SlotRec

\* What a call keeps of the slots whose device was seen.
SlotsStay ==
    \A d \in Dns : devices[d].missing = 0 =>
         /\ devices'[d].devname = devices[d].devname /\ devices'[d].id = devices[d].id

LEMMA UsbNextStays == ASSUME UsbInv, UsbNext PROVE SlotsStay
<1>1. CASE SaneiUsbInit
      BY <1>1, InitKeeps DEF SlotsStay
<1>2. CASE \/ \E a \in Addrs : Unplug(a) \/ \E k \in Kinds : Plug(a, k)
           \/ \E d \in 1 .. MaxDevices, t \in EpTypes : Stall(d, t)
      BY <1>2 DEF Unplug, Plug, Stall, SlotsStay
<1>3. ASSUME NEW b \in Backends,
             \/ \E a \in Addrs : OpenFails(b, a) \/ SaneiUsbOpen(b, a)
             \/ SaneiUsbClose(b)
             \/ \E t \in SetTypes : SetEndpoint(b, t)
      PROVE  SlotsStay
  <2>1. SameDevices
        BY <1>3, OpenSame, CloseSame, EndpointSame
  <2> QED BY <2>1 DEF SameDevices, SlotsStay
<1>4. ASSUME NEW b \in Backends,
             \/ ReadBulk(b) \/ WriteBulk(b) \/ ReadInt(b) \/ ClearHalt(b)
             \/ ClaimInterface(b) \/ ReleaseInterface(b)
             \/ SetConfiguration(b) \/ SetAltinterface(b)
      PROVE  SlotsStay
  <2>1. UNCHANGED devices
        BY <1>4 DEF ReadBulk, WriteBulk, ReadInt, FailTransfer, ClearHalt, ClaimInterface, ReleaseInterface,
                    SetConfiguration, SetAltinterface
  <2> QED BY <2>1 DEF SlotsStay
<1> QED BY <1>1, <1>2, <1>3, <1>4 DEF UsbNext

LEMMA SlotsAreKept == UsbSpec => SeenSlotsStay
<1>1. UsbInv /\ [UsbNext]_usbVars =>
        [\A d \in Dns : devices[d].missing = 0 =>
         /\ devices'[d].devname = devices[d].devname /\ devices'[d].id = devices[d].id]_usbVars
      BY UsbNextStays DEF SlotsStay
<1> QED BY <1>1, UsbAlways, PTL DEF UsbSpec, SeenSlotsStay

\* What sanei_pa4s2_open is to have chosen.
ModeFits(mode, p) ==
    /\ mode \in Allowed \cap paScanner[p]
    /\ \A m \in Allowed : m > mode => \E k \in Allowed : mode < k /\ k <= m /\ k \notin paScanner[p]

\* In the loop: the modes below were right, and the one it ends at is past the last, not
\* allowed or wrong - as far as all of them were judged by what was read.
Tried(r, p) ==
    /\ r.s.mode > Epp => ~paOptions.no_epp
    /\ r.sure =>
         /\ Nib \in paScanner[p]
         /\ \A m \in Allowed : m < r.s.mode => m \in paScanner[p]
         /\ \/ r.more
            \/ r.s.mode > Epp
            \/ r.s.mode = Epp /\ paOptions.no_epp
            \/ r.s.mode \in Allowed /\ r.s.mode \notin paScanner[p]

\* Every round but the last counts the mode up.
Turn(r, p, n) == LoopKept(r, FALSE) /\ Tried(r, p) /\ (r.more => r.s.mode = n)

LEMMA RoundTries ==
    ASSUME NEW p \in PaPorts, NEW n \in Nat, NEW r, Turn(r, p, n), r.more, NEW t \in Round(r, p)
    PROVE  Turn(t, p, n + 1)
<1>1. LoopKept(t, FALSE)
      BY RoundKeeps DEF Turn
<1>2. r.s \in PortRec(Modes3) /\ r.s.mode \in 0 .. 3 /\ r.s.mode = n /\ r.sure \in BOOLEAN /\ r \in Rec3
  <2>1. r \in Rec3 /\ r.s.mode = n
        BY DEF Turn, LoopKept
  <2>2. r.s \in PortRec(Modes3) /\ r.sure \in BOOLEAN
        BY <2>1 DEF Rec3
  <2>3. r.s.mode \in Modes3
        BY <2>2 DEF PortRec
  <2> QED BY <2>1, <2>2, <2>3 DEF Modes3
<1>3. CASE /\ r.s.mode > Epp \/ (r.s.mode = Epp /\ paOptions.no_epp)
           /\ t = [r EXCEPT !.more = FALSE]
  <2>1. t.s = r.s /\ t.sure = r.sure /\ t.more = FALSE
        BY <1>2, <1>3 DEF Rec3
  <2>2. Tried(t, p)
        BY <2>1, <1>3 DEF Turn, Tried
  <2> QED BY <1>1, <2>1, <2>2 DEF Turn
<1>4. CASE r.s.mode = Uni /\ ~paOptions.try_uni /\ t = [r EXCEPT !.s.mode = @ + 1]
  <2>1. t.s.mode = r.s.mode + 1 /\ t.sure = r.sure /\ t.more = r.more
        BY <1>2, <1>4 DEF Rec3, PortRec
  <2>2. Tried(t, p)
        BY <2>1, <1>2, <1>4 DEF Turn, Tried, Allowed, Nib, Uni, Epp
  <2> QED BY <1>1, <1>2, <2>1, <2>2 DEF Turn
<1>5. ASSUME ~(r.s.mode > Epp \/ (r.s.mode = Epp /\ paOptions.no_epp)), ~(r.s.mode = Uni /\ ~paOptions.try_uni),
             NEW e \in EnableSet(r.s), NEW right \in ReadsId(e, p),
             t = [s |-> [Disabled(e) EXCEPT !.mode = IF right THEN @ + 1 ELSE @],
                  more |-> right, sure |-> r.sure /\ Accessible(e)]
      PROVE  Turn(t, p, n + 1)
  <2>1. r.s \in PortRec(AnyMode) /\ PortKept(r.s)
        BY <1>2 DEF PortRec, AnyMode, Turn, LoopKept
  <2>2. e \in PortRec(AnyMode) /\ PortKept(e) /\ e.mode = r.s.mode
        BY <2>1, EnableKeeps
  <2>3. Disabled(e) \in PortRec(AnyMode) /\ Disabled(e).mode = n
        BY <2>2, <1>2, DisableKeeps
  <2>4. right \in BOOLEAN
        BY ReadsBoolean
  <2>5. /\ t.s.mode = IF right THEN n + 1 ELSE n
        /\ t.more = right /\ t.sure = (r.sure /\ Accessible(e))
    <3> DEFINE d == Disabled(e)
    <3>1. d \in PortRec(AnyMode) /\ d.mode = n
          BY <2>3
    <3> HIDE DEF d
    <3>2. t = [s |-> [d EXCEPT !.mode = IF right THEN @ + 1 ELSE @],
                  more |-> right, sure |-> r.sure /\ Accessible(e)]
          BY <1>5 DEF d
    <3> QED BY <3>1, <3>2 DEF PortRec
  <2>6. t.sure => r.sure /\ (right <=> n \in paScanner[p])
        BY <2>2, <2>5, <1>2, <1>5 DEF ReadsId, Accessible
  <2>7. n \in 0 .. 2 /\ n \in Allowed /\ (n = Epp => ~paOptions.no_epp)
        BY <1>2, <1>5 DEF Allowed, Nib, Uni, Epp
  <2>8. Tried(r, p)
        BY DEF Turn
  <2>9. \A m \in Allowed : m \in Nat
        BY DEF Allowed, Nib, Uni, Epp
  <2>10. Tried(t, p)
    <3>1. t.s.mode > Epp => ~paOptions.no_epp
          BY <2>4, <2>5, <2>7 DEF Epp
    <3>2. ASSUME t.sure
          PROVE  /\ Nib \in paScanner[p]
                 /\ \A m \in Allowed : m < t.s.mode => m \in paScanner[p]
                 /\ t.more \/ (t.s.mode \in Allowed /\ t.s.mode \notin paScanner[p])
          BY <3>2, <1>2, <2>4, <2>5, <2>6, <2>7, <2>8, <2>9 DEF Tried
    <3> QED BY <3>1, <3>2 DEF Tried
  <2> QED BY <1>1, <2>4, <2>5, <2>10 DEF Turn
<1> QED BY <1>3, <1>4, <1>5 DEF Round

LEMMA RoundsTry ==
    ASSUME NEW p \in PaPorts, NEW n \in Nat, NEW R, \A r \in R : Turn(r, p, n)
    PROVE  \A t \in Rounds(R, p) : Turn(t, p, n + 1)
<1> SUFFICES ASSUME NEW r \in R, NEW t \in IF r.more THEN Round(r, p) ELSE {r}
             PROVE  Turn(t, p, n + 1)
    BY DEF Rounds
<1>1. CASE r.more
      BY <1>1, RoundTries
<1>2. CASE ~r.more
      BY <1>2 DEF Turn
<1> QED BY <1>1, <1>2

\* The mode below the one the loop ends at is the best.
LEMMA BestFits ==
    ASSUME NEW p \in PaPorts, NEW r, Turn(r, p, 4), r.sure
    PROVE  ModeFits(BestMode(r.s.mode), p)
<1>1. r.s.mode \in 0 .. 3
  <2>1. r.s \in PortRec(Modes3)
        BY DEF Turn, LoopKept, Rec3
  <2>2. r.s.mode \in Modes3
        BY <2>1 DEF PortRec
  <2> QED BY <2>2 DEF Modes3
<1> DEFINE m == r.s.mode
<1>2. ~r.more
      BY <1>1 DEF Turn
<1>3. /\ m > Epp => ~paOptions.no_epp
      /\ Nib \in paScanner[p]
      /\ \A k \in Allowed : k < m => k \in paScanner[p]
      /\ \/ m > Epp
         \/ m = Epp /\ paOptions.no_epp
         \/ m \in Allowed /\ m \notin paScanner[p]
      BY <1>2 DEF Turn, Tried
<1> HIDE DEF m
<1>4. m \in 0 .. 3
      BY <1>1 DEF m
<1>5. CASE m = 0
      BY <1>3, <1>5 DEF Nib, Epp
<1>6. CASE m = 1
  <2>1. paOptions.try_uni /\ BestMode(m) = 0
        BY <1>3, <1>6 DEF Allowed, BestMode, Less, Nib, Uni, Epp
  <2> QED BY <1>3, <1>6, <2>1 DEF ModeFits, Allowed, Nib, Uni, Epp, m
<1>7. CASE m = 2
  <2>1. BestMode(m) = IF paOptions.try_uni THEN 1 ELSE 0
        BY <1>7 DEF BestMode, Less, Uni
  <2> QED BY <1>3, <1>7, <2>1 DEF ModeFits, Allowed, Nib, Uni, Epp, m
<1>8. CASE m = 3
  <2>1. BestMode(m) = 2
        BY <1>8 DEF BestMode, Less, Uni
  <2> QED BY <1>3, <1>8, <2>1 DEF ModeFits, Allowed, Nib, Uni, Epp, m
<1> QED BY <1>4, <1>5, <1>6, <1>7, <1>8 DEF m

LEMMA ProbeFits ==
    ASSUME NEW p \in PaPorts, NEW s \in PortRec(Modes3), PortKept(s), s.mode = 0,
           NEW sure \in BOOLEAN, sure => Nib \in paScanner[p],
           NEW t \in PaProbed(s, p, sure), t.sure
    PROVE  ModeFits(t.s.mode, p)
<1> DEFINE start == [s |-> s, more |-> TRUE, sure |-> sure]
           first == {start}
           one == Rounds(first, p)
           two == Rounds(one, p)
           three == Rounds(two, p)
           four == Rounds(three, p)
<1>1. \A r \in first : Turn(r, p, 0)
  <2>1. start \in Rec3 /\ start.s = s /\ start.more = TRUE /\ start.sure = sure
        BY DEF Rec3
  <2> HIDE DEF start
  <2>2. LoopKept(start, FALSE)
        BY <2>1 DEF LoopKept
  <2>3. Tried(start, p)
        BY <2>1 DEF Tried, Epp, Allowed, Nib, Uni
  <2>4. Turn(start, p, 0)
        BY <2>1, <2>2, <2>3 DEF Turn
  <2> QED BY <2>4
<1> HIDE DEF first
<1>2. \A r \in one : Turn(r, p, 1)
  <2>1. \A r \in one : Turn(r, p, 0 + 1)
        BY <1>1, RoundsTry
  <2> QED BY <2>1
<1> HIDE DEF one
<1>3. \A r \in two : Turn(r, p, 2)
  <2>1. \A r \in two : Turn(r, p, 1 + 1)
        BY <1>2, RoundsTry
  <2> QED BY <2>1
<1> HIDE DEF two
<1>4. \A r \in three : Turn(r, p, 3)
  <2>1. \A r \in three : Turn(r, p, 2 + 1)
        BY <1>3, RoundsTry
  <2> QED BY <2>1
<1> HIDE DEF three
<1>5. \A r \in four : Turn(r, p, 4)
  <2>1. \A r \in four : Turn(r, p, 3 + 1)
        BY <1>4, RoundsTry
  <2> QED BY <2>1
<1>6. PICK r \in four : t = [s |-> [r.s EXCEPT !.mode = BestMode(r.s.mode)], more |-> r.more, sure |-> r.sure]
      BY DEF PaProbed, four, three, two, one, first, start
<1>7. r.s \in PortRec(Modes3)
      BY <1>5, <1>6 DEF Turn, LoopKept, Rec3
<1>8. t.s.mode = BestMode(r.s.mode) /\ r.sure
      BY <1>6, <1>7 DEF PortRec
<1> QED BY <1>5, <1>6, <1>8, BestFits

LEMMA OpenFits ==
    ASSUME PaInv, NEW p \in PaPorts, PaOpen(p), p \in held' \ held, p \notin unsure'
    PROVE  ModeFits(paPort'[p].mode, p)
<1>1. paPort \in [PaPorts -> PortRec({Nib, Uni, Epp, ModeMax})]
      BY DEF PaInv, PaTypeOK
<1>a. PICK e \in EnableSet(Opened(p)) : \E known \in ReadsId(e, p) :
         /\ known
         /\ \E r \in PaProbed(Disabled(e), p, Accessible(e)) :
                   Becomes(p, r.s) /\ unsure' = IF r.sure THEN unsure \ {p} ELSE unsure \cup {p}
      BY DEF PaOpen
<1>2. PICK known \in ReadsId(e, p) :
         /\ known
         /\ \E r \in PaProbed(Disabled(e), p, Accessible(e)) :
                   Becomes(p, r.s) /\ unsure' = IF r.sure THEN unsure \ {p} ELSE unsure \cup {p}
      BY <1>a
<1>3. PICK r \in PaProbed(Disabled(e), p, Accessible(e)) :
                   Becomes(p, r.s) /\ unsure' = IF r.sure THEN unsure \ {p} ELSE unsure \cup {p}
      BY <1>2
<1>4. r.sure /\ paPort'[p] = r.s
      BY <1>1, <1>3 DEF Becomes
<1>5. Opened(p) \in PortRec(AnyMode) /\ PortKept(Opened(p)) /\ Opened(p).mode = 0
      BY OpenedKeeps DEF PaOpen, CanOpen
<1>6. e \in PortRec(AnyMode) /\ PortKept(e) /\ e.mode = 0
      BY <1>5, EnableKeeps
<1>7. /\ Disabled(e) \in PortRec(AnyMode) /\ PortKept(Disabled(e)) /\ Disabled(e).mode = 0
      BY <1>6, DisableKeeps
<1>8. Accessible(e) => Nib \in paScanner[p]
      BY <1>2, <1>6 DEF ReadsId, Nib
<1>9. Accessible(e) \in BOOLEAN
      BY DEF Accessible
<1>10. Disabled(e) \in PortRec(Modes3)
      BY <1>7 DEF PortRec, Modes3
<1> DEFINE s == Disabled(e)
           sure == Accessible(e)
<1>11. /\ s \in PortRec(Modes3) /\ PortKept(s) /\ s.mode = 0 /\ sure \in BOOLEAN
       /\ sure => Nib \in paScanner[p]
       /\ r \in PaProbed(s, p, sure)
       BY <1>3, <1>7, <1>8, <1>9, <1>10
<1> HIDE DEF s, sure
<1> QED BY <1>4, <1>11, ProbeFits

LEMMA ModesAreChosen == PaSpec => ModeChosen
<1> DEFINE Chosen ==
         \A p \in PaPorts :
         p \in held' \ held /\ p \notin unsure' =>
             LET mode == paPort'[p].mode
             IN /\ mode \in Allowed \cap paScanner[p]
                /\ \A m \in Allowed :
                     m > mode => \E k \in Allowed : mode < k /\ k <= m /\ k \notin paScanner[p]
<1>1. PaInv /\ [PaNext]_paVars => [Chosen]_paVars
  <2> SUFFICES ASSUME PaInv, PaNext, NEW p \in PaPorts, p \in held' \ held, p \notin unsure'
               PROVE  ModeFits(paPort'[p].mode, p)
      BY DEF ModeFits
  <2>1. CASE \E q \in PaPorts : PaOpen(q)
        BY <2>1, OpenFits DEF PaOpen
  <2>2. CASE \E q \in PaPorts : PaScsiOpen(q)
        BY <2>2 DEF PaScsiOpen
  <2>3. CASE \/ \E q \in PaPorts :
                  \/ PaOpenFails(q) \/ PaClose(q) \/ PaAccess(q)
                  \/ \E enable \in BOOLEAN : PaEnable(q, enable)
                  \/ \E status \in {"inval", "unsupported"} : PaRefused(q, status)
                  \/ OtherClaims(q) \/ OtherReleases(q)
             \/ PaSetOptions
    <3>1. held' \subseteq held
          BY <2>3 DEF PaOpenFails, PaClose, PaAccess, PaEnable, PaRefused, OtherClaims, OtherReleases, PaSetOptions
    <3> QED BY <3>1
  <2> QED BY <2>1, <2>2, <2>3 DEF PaNext
<1> QED BY <1>1, PaAlways, PTL DEF PaSpec, ModeChosen

\* A try of sanei_lm983x_reset writes the bit the other way round.
LEMMA Toggles ==
    ASSUME ResetToggles, sent \in Seq({ResetReg} \X {0, ResetBit})
    PROVE  /\ sent' \in Seq({ResetReg} \X {0, ResetBit})
           /\ chip'[ResetReg] = IF chip[ResetReg] = ResetBit THEN 0 ELSE ResetBit
           /\ \A i \in DOMAIN sent : i \in DOMAIN sent' /\ sent'[i] = sent[i]
           /\ chip'[ResetReg] = ResetBit => \E i \in DOMAIN sent' : sent'[i] = <<ResetReg, ResetBit>>
<1> DEFINE b == IF chip[ResetReg] = ResetBit THEN 0 ELSE ResetBit
           bs == <<b>>
           In(q) == {i \in DOMAIN bs : ResetReg = q}
           Pairs == {ResetReg} \X {0, ResetBit}
           new == [i \in DOMAIN bs |-> <<ResetReg, bs[i]>>]
<1>1. /\ chip' = [q \in Regs |-> IF In(q) = {} THEN chip[q]
                                 ELSE bs[CHOOSE i \in In(q) : \A j \in In(q) : j <= i]]
      /\ sent' = sent \o new
      BY DEF ResetToggles, Arrives
<1>2. DOMAIN bs = {1} /\ bs[1] = b /\ b \in {0, ResetBit}
      OBVIOUS
<1>3. In(ResetReg) = {1}
      BY <1>2
<1>4. chip'[ResetReg] = b
  <2>1. ResetReg \in Regs
        BY Lm983xAssumption DEF Regs
  <2>2. (CHOOSE i \in {1} : \A j \in {1} : j <= i) = 1
        OBVIOUS
  <2> HIDE DEF bs, In, b
  <2>3. chip'[ResetReg] = bs[CHOOSE i \in {1} : \A j \in {1} : j <= i]
        BY <1>1, <1>3, <2>1
  <2> QED BY <1>2, <2>2, <2>3
<1>5. new \in Seq(Pairs) /\ Len(new) = 1 /\ new[1] = <<ResetReg, b>>
  <2> HIDE DEF b
  <2>1. <<ResetReg, b>> \in Pairs
        BY <1>2
  <2>2. new = << <<ResetReg, b>> >>
        OBVIOUS
  <2> QED BY <2>1, <2>2
<1> HIDE DEF new, Pairs, b
<1>6. /\ sent' \in Seq(Pairs) /\ Len(sent') = Len(sent) + 1
      /\ \A i \in 1 .. Len(sent) : sent'[i] = sent[i]
      /\ sent'[Len(sent) + 1] = <<ResetReg, b>>
      BY <1>1, <1>5, Concatenated DEF Pairs
<1>7. Len(sent) \in Nat /\ DOMAIN sent = 1 .. Len(sent) /\ DOMAIN sent' = 1 .. Len(sent) + 1
      BY <1>6
<1> QED BY <1>4, <1>6, <1>7 DEF b, Pairs

\* In a reset the bit is set only if it was when the call began, or has been set in it.
HasBeenSet(b, s) == b = ResetBit \/ \E i \in DOMAIN s : s[i] = <<ResetReg, ResetBit>>

ResetInv ==
    call = "reset" =>
      /\ sent \in Seq({ResetReg} \X {0, ResetBit})
      /\ chip[ResetReg] = ResetBit => HasBeenSet(before, sent)

\* A write that arrived, told or not, keeps that, and after it the bit has been set
\* in any case.
LEMMA ToggleSets ==
    ASSUME ResetInv, call = "reset", ResetToggles, before' = before
    PROVE  /\ sent' \in Seq({ResetReg} \X {0, ResetBit})
           /\ HasBeenSet(before', sent')
<1>1. sent \in Seq({ResetReg} \X {0, ResetBit})
      BY DEF ResetInv
<1>2. /\ sent' \in Seq({ResetReg} \X {0, ResetBit})
      /\ chip'[ResetReg] = IF chip[ResetReg] = ResetBit THEN 0 ELSE ResetBit
      /\ \A i \in DOMAIN sent : i \in DOMAIN sent' /\ sent'[i] = sent[i]
      /\ chip'[ResetReg] = ResetBit => \E i \in DOMAIN sent' : sent'[i] = <<ResetReg, ResetBit>>
      BY <1>1, Toggles
<1>3. CASE chip[ResetReg] = ResetBit
      BY <1>2, <1>3 DEF ResetInv, HasBeenSet
<1>4. CASE chip[ResetReg] # ResetBit
      BY <1>2, <1>4 DEF HasBeenSet
<1> QED BY <1>2, <1>3, <1>4

LEMMA ResetsAreReal == LmSpec => ResetHasBeen
<1> DEFINE Set == call = "reset" /\ call' = "idle" /\ lmStatus' = "TRUE" => HasBeenSet(before, sent')
<1>1. LmInit => ResetInv
      BY DEF LmInit, ResetInv
<1>2. ResetInv /\ [LmNext]_lmVars => ResetInv' /\ [Set]_lmVars
  <2> SUFFICES ASSUME ResetInv, [LmNext]_lmVars PROVE ResetInv' /\ [Set]_lmVars
      OBVIOUS
  <2>1. CASE UNCHANGED lmVars
        BY <2>1 DEF lmVars, ResetInv, HasBeenSet
  <2>2. CASE LmWriteNext \/ LmReadNext
    <3>1. call # "reset" /\ call' # "reset"
          BY <2>2 DEF LmWriteNext, LmReadNext, LmWrite, WriteFails, WriteChunk, WriteDone, LmRead, ReadCommand,
                      ReadChunk, ReadFails, ReadDone, LmBegins, LmReturn
    <3> QED BY <3>1 DEF ResetInv
  <2>3. CASE LmReset
        BY <2>3 DEF LmReset, LmBegins, ResetInv, HasBeenSet
  <2>4. CASE ResetTry
    <3>1. call = "reset" /\ before' = before
          BY <2>4 DEF ResetTry
    <3>2. CASE ResetToggles
          BY <3>1, <3>2, ToggleSets DEF ResetInv, HasBeenSet
    <3>3. CASE UNCHANGED <<chip, sent, call>>
          BY <3>1, <3>3 DEF ResetInv, HasBeenSet
    <3> QED BY <3>2, <3>3, <2>4 DEF ResetTry
  <2>5. CASE ResetGivesUp
        BY <2>5 DEF ResetGivesUp, LmReturn, ResetInv
  <2> QED BY <2>1, <2>2, <2>3, <2>4, <2>5 DEF LmNext, LmResetNext
<1>3. LmSpec => [][Set]_lmVars
      BY <1>1, <1>2, PTL DEF LmSpec
<1> QED BY <1>3, PTL DEF ResetHasBeen, HasBeenSet

\* For any devices, kinds, scanners, registers and options: a scan of the busses keeps
\* the slots whose devices were just seen (sanei_usb.c:321-374), sanei_pa4s2_open ends
\* in the best mode the options allow that the scanner answers right in, unless it has
\* judged what was not read (sanei_pa4s2.c:1173-1307), and a reset that says TRUE has had
\* the bit set (sanei_lm983x.c:230-261).
THEOREM CallsKeepTheirWord == UsbSpec /\ PaSpec /\ LmSpec => DeviceSteps
BY SlotsAreKept, ModesAreChosen, ResetsAreReal DEF DeviceSteps
=============================================================================
