------------------------------- MODULE Values --------------------------------
(***************************************************************************)
(* Storage and String, which share memory and count who uses it, and       *)
(* Property and Properties, a list of named and typed values that owns     *)
(* them (driver/devel/boundary.h, driver/odc_boundary.cpp).  A value is a  *)
(* sequence of characters; the numbers are values of length 1.  A user of  *)
(* Properties adds and deletes only the objects that it still owns.        *)
(***************************************************************************)
EXTENDS Naturals, Sequences, FiniteSets

CONSTANTS
    Handles,        \* the Storage objects
    Blocks,         \* what malloc returns
    MaxRefs,        \* bound: users of a block, shallow_copy counts each
    Objs,           \* the Property objects
    PropNames, PropTypes,
    PropValues,     \* the values that set_value is given
    MaxLen          \* what a value has room for: MAX_PORPSTR_LEN

NoBlock == "none"       \* a Storage over memory of its user
NoProp == "none"        \* a find that finds nothing

ASSUME ValuesAssumption ==
    /\ MaxRefs \in Nat \ {0} /\ MaxLen \in Nat
    /\ IsFiniteSet(Handles) /\ {NoBlock, "gone"} \cap Blocks = {} /\ NoProp \notin Objs
    /\ PropTypes \subseteq {"STRING", "INTEGER", "FLOAT", "CHAR", "BOOL"}

Deleted == [name |-> "none", type |-> "none", value |-> <<>>]

VARIABLES
    handle,         \* per Storage object: its block, NoBlock, or "gone"
    reference,      \* per block: AllocatedStorage::_reference, 0 when free
    object,         \* per Property object: [name, type, value], or Deleted
    plist,          \* Properties: the objects in the list
    latest,         \* per name: the object that was added last and is not deleted
    duplicates      \* add was called with ALLOW

storageVars == <<handle, reference>>
propVars == <<object, plist, latest, duplicates>>
valuesVars == <<storageVars, propVars>>

ValuesInit ==
    /\ handle = [h \in Handles |-> "gone"] /\ reference = [b \in Blocks |-> 0]
    /\ object = [o \in Objs |-> Deleted] /\ plist = <<>>
    /\ latest = [n \in PropNames |-> NoProp] /\ duplicates = FALSE

-----------------------------------------------------------------------------
(* Storage.                                                                *)

Users(b) == Cardinality({h \in Handles : handle[h] = b})

\* Storage(size) and Storage(memory, size).
NewStorage(h) ==
    /\ handle[h] = "gone"
    /\ \/ \E b \in Blocks : /\ reference[b] = 0
                            /\ handle' = [handle EXCEPT ![h] = b]
                            /\ reference' = [reference EXCEPT ![b] = 1]
       \/ handle' = [handle EXCEPT ![h] = NoBlock] /\ UNCHANGED reference
    /\ UNCHANGED propVars

ShallowCopy_Uncounted(h, o) ==
    /\ handle[h] # "gone" /\ handle[o] # "gone"
    /\ handle' = [handle EXCEPT ![h] = handle[o]]
    /\ UNCHANGED <<reference, propVars>>

\* shallow_copy, the assignment of a String: the block that h had keeps its
\* count, and is never freed.
ShallowCopy(h, o) ==
    /\ handle[h] # "gone" /\ handle[o] # "gone"
    /\ handle[o] \in Blocks => reference[handle[o]] < MaxRefs
    /\ handle' = [handle EXCEPT ![h] = handle[o]]
    /\ reference' = [b \in Blocks |-> IF b = handle[o] THEN reference[b] + 1 ELSE reference[b]]
    /\ UNCHANGED propVars

\* ~Storage(): the last user frees the block.
DeleteStorage(h) ==
    /\ handle[h] # "gone"
    /\ handle' = [handle EXCEPT ![h] = "gone"]
    /\ reference' = [b \in Blocks |-> IF b = handle[h] THEN reference[b] - 1 ELSE reference[b]]
    /\ UNCHANGED propVars

-----------------------------------------------------------------------------
(* Property and Properties.                                                *)

\* set_value: a string is cut to what there is room for, bytes as well.
Stored(v) == SubSeq(v, 1, IF Len(v) > MaxLen THEN MaxLen ELSE Len(v))

InList(o) == \E i \in DOMAIN plist : plist[i] = o

\* findi(name): the first with that name; and find.
Findi(n) == {i \in DOMAIN plist : /\ object[plist[i]].name = n
                                  /\ \A j \in 1 .. i - 1 : object[plist[j]].name # n}

Find(n) == IF Findi(n) = {} THEN NoProp ELSE plist[CHOOSE i \in Findi(n) : TRUE]

\* find_str, find_int, ...: the first of that name, when it has that type.
FindTyped(n, t) == IF Find(n) # NoProp /\ object[Find(n)].type = t THEN Find(n) ELSE NoProp

Without(i) == [j \in 1 .. Len(plist) - 1 |-> plist[IF j < i THEN j ELSE j + 1]]

\* new StringProperty(name, value) and so on.
NewProperty(o) ==
    /\ object[o] = Deleted
    /\ \E n \in PropNames, t \in PropTypes, v \in PropValues :
         object' = [object EXCEPT ![o] = [name |-> n, type |-> t, value |-> Stored(v)]]
    /\ UNCHANGED <<plist, latest, duplicates, storageVars>>

\* The user deletes an object that no list owns: one that add refused.
DeleteProperty(o) ==
    /\ object[o] # Deleted /\ ~InList(o)
    /\ object' = [object EXCEPT ![o] = Deleted]
    /\ UNCHANGED <<plist, latest, duplicates, storageVars>>

SetValue(o) ==
    /\ object[o] # Deleted
    /\ \E v \in PropValues : object' = [object EXCEPT ![o].value = Stored(v)]
    /\ UNCHANGED <<plist, latest, duplicates, storageVars>>

\* add(p, DENY) of a name that is there: -1, the user keeps the object.
AddDenied(o) ==
    /\ object[o] # Deleted /\ ~InList(o) /\ Find(object[o].name) # NoProp
    /\ UNCHANGED valuesVars

\* add of a new name, or with ALLOW.
AddProperty(o) ==
    /\ object[o] # Deleted /\ ~InList(o)
    /\ plist' = Append(plist, o)
    /\ latest' = [latest EXCEPT ![object[o].name] = o]
    /\ duplicates' = (duplicates \/ Find(object[o].name) # NoProp)
    /\ UNCHANGED <<object, storageVars>>

AddOverwrite_KeepsOld(o) ==
    /\ object[o] # Deleted /\ ~InList(o) /\ Find(object[o].name) # NoProp
    /\ plist' = Append(plist, o)
    /\ latest' = [latest EXCEPT ![object[o].name] = o]
    /\ UNCHANGED <<object, duplicates, storageVars>>

\* add(p, OVERWRITE): the first of that name is deleted, p comes last.
AddOverwrite(o) ==
    /\ object[o] # Deleted /\ ~InList(o)
    /\ \E i \in Findi(object[o].name) :
         /\ object' = [object EXCEPT ![plist[i]] = Deleted]
         /\ plist' = Append(Without(i), o)
    /\ latest' = [latest EXCEPT ![object[o].name] = o]
    /\ UNCHANGED <<duplicates, storageVars>>

DelProperty_DropsLast(i) ==
    /\ i \in DOMAIN plist
    /\ object' = [object EXCEPT ![plist[i]] = Deleted]
    /\ latest' = [n \in PropNames |-> IF latest[n] = plist[i] THEN NoProp ELSE latest[n]]
    /\ plist' = SubSeq(plist, 1, Len(plist) - 1)
    /\ UNCHANGED <<duplicates, storageVars>>

\* del(i), which deletes the object.
DelProperty(i) ==
    /\ i \in DOMAIN plist
    /\ object' = [object EXCEPT ![plist[i]] = Deleted]
    /\ latest' = [n \in PropNames |-> IF latest[n] = plist[i] THEN NoProp ELSE latest[n]]
    /\ plist' = Without(i)
    /\ UNCHANGED <<duplicates, storageVars>>

\* clean(), also from the destructor.
CleanProperties ==
    /\ object' = [o \in Objs |-> IF InList(o) THEN Deleted ELSE object[o]]
    /\ plist' = <<>> /\ latest' = [n \in PropNames |-> NoProp] /\ duplicates' = FALSE
    /\ UNCHANGED storageVars

-----------------------------------------------------------------------------
StorageNext == \/ \E h \in Handles : NewStorage(h) \/ DeleteStorage(h)
               \/ \E h, o \in Handles : ShallowCopy(h, o)

PropertyNext == \/ \E o \in Objs : \/ NewProperty(o) \/ DeleteProperty(o) \/ SetValue(o)
                                   \/ AddDenied(o) \/ AddProperty(o) \/ AddOverwrite(o)
                \/ \E i \in 1 .. Cardinality(Objs) : DelProperty(i)
                \/ CleanProperties

ValuesNext == StorageNext \/ PropertyNext

ValuesSpec == ValuesInit /\ [][ValuesNext]_valuesVars

-----------------------------------------------------------------------------
(* Properties.                                                             *)

\* Memory that a Storage or String still uses is not freed, whatever was
\* assigned and destroyed in which order (odc_boundary.cpp:53-83).  Blocks may
\* be left over: shallow_copy forgets the one it had.
SharedMemoryLives ==
    \A h \in Handles : handle[h] \in Blocks => reference[handle[h]] >= Users(handle[h])

\* A list holds each of its objects once and all of them are alive: none is
\* deleted twice, by the list and by the user of add (boundary.h:429-470).
ListOwnsObjects ==
    /\ \A i \in DOMAIN plist : object[plist[i]] # Deleted
    /\ \A i, j \in DOMAIN plist : plist[i] = plist[j] => i = j

\* find gives what was added last under a name (odc_boundary.cpp:432-455), of
\* whatever type; after ALLOW put a second one there it gives the older.
FindsLatest == ~duplicates => \A n \in PropNames : Find(n) = latest[n]

\* The memory of Storage and the objects of Properties: nothing that is in use is
\* freed, no list deletes an object twice, and without second entries of a name it
\* leads to what was added last.  That the last user frees a block is not said:
\* shallow_copy forgets the one it had.
ValuesSafe == SharedMemoryLives /\ ListOwnsObjects /\ FindsLatest
=============================================================================
