----------------------------- MODULE Containers ------------------------------
(***************************************************************************)
(* ArrayList (add, ins, del and its growing memory) and Chain (a ring of   *)
(* nodes) of driver/devel/boundary.h and driver/odc_boundary.cpp.  The     *)
(* variable contents is the sequence that the calls of a list make, and    *)
(* rings the partition of the nodes that the calls on chains make: what    *)
(* their users take them to be, but for an insertion that has to grow the  *)
(* list, whose effect on the sequence is InsertedGrowing.                  *)
(***************************************************************************)
EXTENDS Naturals, Sequences, SequencesExt

CONSTANTS
    Elems,          \* what lists hold
    Links,          \* the Chain objects
    InitSize,       \* ARYLST_INIT_SIZE
    GrowSize,       \* ARYLST_GROW_SIZE
    MaxElems        \* bound: elements of a list

ASSUME ContainersAssumption ==
    InitSize \in Nat \ {0} /\ GrowSize \in Nat \ {0} /\ MaxElems \in Nat

Zero == "zero"      \* memory after memset(0)

VARIABLES
    memp,           \* ArrayList::memp: <<>>, or maxnum + 1 elements
    num,            \* ArrayList::num
    contents,       \* the sequence the list stands for
    overrun,        \* ins(0, v) has run out of the memory: the process is gone
    next, prev,     \* Chain::_next, Chain::_prev
    rings           \* the rings the chains stand for

listVars == <<memp, num, contents, overrun>>
chainVars == <<next, prev, rings>>
containerVars == <<listVars, chainVars>>

ContainersInit ==
    /\ memp = <<>> /\ num = 0 /\ contents = <<>> /\ overrun = FALSE
    /\ next = [c \in Links |-> c] /\ prev = [c \in Links |-> c]
    /\ rings = {{c} : c \in Links}

-----------------------------------------------------------------------------
(* ArrayList.  memp has one element more than maxnum; index 0 is memp[1].  *)

maxnum == IF memp = <<>> THEN 0 ELSE Len(memp) - 1

Zeros(n) == [i \in 1 .. n + 1 |-> Zero]

\* The memory with room for n elements, what it holds otherwise unchanged.
Grown_OneShort(n) ==
    IF memp = <<>> THEN Zeros(InitSize)
    ELSE IF n <= maxnum + 2 THEN memp
    ELSE [i \in 1 .. maxnum + GrowSize + 1 |-> IF i < n THEN memp[i] ELSE Zero]

Grown(n) ==
    IF memp = <<>> THEN Zeros(InitSize)
    ELSE IF n <= maxnum THEN memp
    ELSE [i \in 1 .. maxnum + GrowSize + 1 |-> IF i < n THEN memp[i] ELSE Zero]

ListAdd(v) ==
    /\ ~overrun /\ num < MaxElems
    /\ num' = num + 1
    /\ memp' = [Grown(num + 1) EXCEPT ![num + 1] = v]
    /\ contents' = Append(contents, v)
    /\ UNCHANGED <<overrun, chainVars>>

\* The loop of ins that makes room at i (from 0): the elements move up from the
\* last one on.
InsMoves(i) ==
    [j \in DOMAIN memp |-> IF i + 1 < j /\ j <= num + 1 THEN memp[j - 1] ELSE memp[j]]

\* ins(i, v) where there is room.
ListIns(i, v) ==
    /\ ~overrun /\ 0 < i /\ i < num /\ num < MaxElems /\ num + 1 <= maxnum
    /\ memp' = [InsMoves(i) EXCEPT ![i + 1] = v]
    /\ num' = num + 1
    /\ contents' = InsertAt(contents, i + 1, v)
    /\ UNCHANGED <<overrun, chainVars>>

\* The loops of ins that move to the larger memory: v lands where they meet.
InsGrown_Overwrites(i, v) ==
    [j \in 1 .. maxnum + GrowSize + 1 |->
       CASE j < i -> memp[j] [] j = i -> v [] j > i /\ j <= num -> memp[j] [] OTHER -> Zero]

InsGrown(i, v) ==
    [j \in 1 .. maxnum + GrowSize + 1 |->
       CASE j < i -> memp[j]
         [] j = i -> v
         [] j > i /\ j <= num -> memp[j - 1]
         [] OTHER -> Zero]

\* What an insertion that grows the list makes of the sequence s: v comes one
\* place too far in front, and the last element is lost for a zero.
InsertedGrowing(s, i, v) == Append(InsertAt(Front(s), i, v), Zero)

\* ins(i, v) that has to grow.
ListInsGrows(i, v) ==
    /\ ~overrun /\ 0 < i /\ i < num /\ num < MaxElems /\ num + 1 > maxnum
    /\ memp' = InsGrown(i, v)
    /\ num' = num + 1
    /\ contents' = InsertedGrowing(contents, i, v)
    /\ UNCHANGED <<overrun, chainVars>>

\* ins(0, v): with growth or without, the loop counts past zero and does not end
\* before it has left the memory.
ListInsFront(v) ==
    /\ ~overrun /\ 0 < num
    /\ overrun' = TRUE
    /\ UNCHANGED <<memp, num, contents, chainVars>>

ListDel_LeavesGap(i) ==
    /\ ~overrun /\ i < num
    /\ memp' = memp
    /\ num' = num - 1
    /\ contents' = RemoveAt(contents, i + 1)
    /\ UNCHANGED <<overrun, chainVars>>

\* del(i): what follows moves down; the memory stays.
ListDel(i) ==
    /\ ~overrun /\ i < num
    /\ memp' = [j \in DOMAIN memp |-> IF i < j /\ j < num THEN memp[j + 1] ELSE memp[j]]
    /\ num' = num - 1
    /\ contents' = RemoveAt(contents, i + 1)
    /\ UNCHANGED <<overrun, chainVars>>

\* clean()
ListClean ==
    /\ ~overrun
    /\ memp' = <<>> /\ num' = 0 /\ contents' = <<>>
    /\ UNCHANGED <<overrun, chainVars>>

-----------------------------------------------------------------------------
(* Chain.                                                                  *)

IsAlone(c) == next[c] = prev[c] /\ next[c] = c

RingOf(c) == CHOOSE r \in rings : c \in r

Joined(c, p) == (rings \ {RingOf(c), RingOf(p)}) \cup {RingOf(c) \cup RingOf(p)}

\* addnext(p) for a node that is in no other ring.
ChainAddNext(c, p) ==
    /\ c # p /\ IsAlone(p)
    /\ next' = [next EXCEPT ![c] = p, ![p] = next[c]]
    /\ prev' = [[prev EXCEPT ![p] = c] EXCEPT ![next[c]] = p]
    /\ rings' = Joined(c, p)
    /\ UNCHANGED listVars

\* addprev(p)
ChainAddPrev(c, p) ==
    /\ c # p /\ IsAlone(p)
    /\ prev' = [prev EXCEPT ![c] = p, ![p] = prev[c]]
    /\ next' = [[next EXCEPT ![p] = c] EXCEPT ![prev[c]] = p]
    /\ rings' = Joined(c, p)
    /\ UNCHANGED listVars

ChainRemove_KeepsOwn(c) ==
    /\ prev' = [prev EXCEPT ![next[c]] = prev[c]]
    /\ next' = [next EXCEPT ![prev[c]] = next[c]]
    /\ rings' = (rings \ {RingOf(c)}) \cup ({RingOf(c) \ {c}, {c}} \ {{}})
    /\ UNCHANGED listVars

\* remove(): the neighbours close up, the node is alone.
ChainRemove(c) ==
    /\ prev' = [[prev EXCEPT ![next[c]] = prev[c]] EXCEPT ![c] = c]
    /\ next' = [[next EXCEPT ![prev[c]] = next[c]] EXCEPT ![c] = c]
    /\ rings' = (rings \ {RingOf(c)}) \cup ({RingOf(c) \ {c}, {c}} \ {{}})
    /\ UNCHANGED listVars

-----------------------------------------------------------------------------
ListNext == \/ \E v \in Elems : ListAdd(v)
            \/ \E v \in Elems, i \in 0 .. MaxElems : ListIns(i, v) \/ ListInsGrows(i, v)
            \/ \E v \in Elems : ListInsFront(v)
            \/ \E i \in 0 .. MaxElems : ListDel(i)
            \/ ListClean

ChainNext == \/ \E c, p \in Links : ChainAddNext(c, p) \/ ChainAddPrev(c, p)
             \/ \E c \in Links : ChainRemove(c)

ContainersNext == ListNext \/ ChainNext

ContainersSpec == ContainersInit /\ [][ContainersNext]_containerVars

-----------------------------------------------------------------------------
(* Properties.                                                             *)

ContainersTypeOK ==
    /\ memp \in Seq(Elems \cup {Zero}) /\ num \in Nat /\ num <= maxnum
    /\ contents \in Seq(Elems \cup {Zero}) /\ overrun \in BOOLEAN
    /\ next \in [Links -> Links] /\ prev \in [Links -> Links]
    /\ rings \subseteq SUBSET Links

\* A list is the sequence that its calls make, element by element: what was added
\* is there once and in order through growth and removal, and an insertion puts
\* its element where it was asked for when there is room.  When there is none, the
\* list is the one of InsertedGrowing, and only that: v one place in front of the
\* one it was asked for, and the last element a zero (boundary.h:201-282).
ListIsSequence == contents = SubSeq(memp, 1, num)

\* The two links of a node are inverse to each other, and following _next from
\* a node visits its ring, and only that: no node is lost and no walk leaves the
\* ring (odc_boundary.cpp:730-763).
RingsClosed ==
    /\ \A c \in Links : prev[next[c]] = c /\ next[prev[c]] = c
    /\ \A r \in rings :
         /\ \A c \in r : next[c] \in r
         /\ \A s \in SUBSET r :
              s # {} /\ (\A c \in s : next[c] \in s) => s = r

\* Rings keep their nodes, and lists what was put into them in its order, through
\* growth, removal and the insertions that have room; one that has to grow the
\* list does to it what InsertedGrowing says.
ContainersSafe == ContainersTypeOK /\ ListIsSequence /\ RingsClosed
=============================================================================
