----------------------------- MODULE SaneiConfig ------------------------------
(***************************************************************************)
(* How a backend reads its configuration file (sanei/sanei_config.c): the  *)
(* directories that are searched for it, and sanei_configure_attach, which *)
(* takes every line for an option of the backend or for a device to attach *)
(* - or, with sanei_config_attach_matching_devices (sanei_config2.c), for  *)
(* a description of SCSI devices.                                          *)
(*                                                                         *)
(* A line is [kind, option, token, args]: its kind is "text" unless it is  *)
(* "blank" or a "comment"; option says that its first word begins with     *)
(* "option"; token is the word that is looked up and args are the ones     *)
(* after it, each a sequence of characters (that of a number or of a       *)
(* boolean is one).  A word whose closing quote is missing is Unquoted, or *)
(* Unclosed among the args; the code gets a NULL pointer for it.  The      *)
(* value of an option is the memory that the backend has for it: its       *)
(* elements, or its characters with whatever lies behind the NUL.          *)
(***************************************************************************)
EXTENDS Integers, Sequences, FiniteSets

CONSTANTS
    ConfigLines,    \* the lines that occur
    MaxConfigLines, \* bound: lines of a file
    MaxConfigCalls, \* bound: calls of sanei_configure_attach
    OptionTypes,    \* per name of an option: "int" (or fixed), "bool", "string" or "button"
    OptionSizes,    \* per name: elements of the array, or bytes of the string with its NUL
    OptionChecks,   \* per name: "each" (a range, booleans), "first" (words), "text" or "none"
    LegalValues,    \* per name: the elements or the texts of the constraint
    ConfigDefaults, \* per name: the memory that the backend begins with
    EnvPaths,       \* values of SANE_CONFIG_DIR: [dirs, more], or [unset]
    DefaultDirs,    \* DEFAULT_DIRS
    ScsiDevices,    \* devices as sanei_scsi_find_devices compares them, Seq of 7
    ScsiWords       \* the words of lines that begin with "scsi"

Unquoted == "unquoted"
Unclosed == <<Unquoted>>
NUL == "nul"
Wildcard == "*"
OptionNames == DOMAIN OptionTypes

ASSUME SaneiConfigAssumption ==
    /\ MaxConfigLines \in Nat /\ MaxConfigCalls \in Nat
    /\ DOMAIN LegalValues = OptionNames /\ DOMAIN ConfigDefaults = OptionNames
    /\ OptionSizes \in [OptionNames -> Nat \ {0}]
    /\ \A n \in OptionNames :
         /\ DOMAIN ConfigDefaults[n] = 1 .. OptionSizes[n]
         /\ OptionChecks[n] = "text" => OptionTypes[n] = "string"
         /\ OptionChecks[n] \in {"each", "first"} => OptionTypes[n] \in {"int", "bool"}
    /\ Unquoted \notin OptionNames
    /\ \A l \in ConfigLines : l.kind \in {"blank", "comment", "text"} /\ l.args \in Seq(Seq(STRING))

VARIABLES
    dirList,        \* dir_list: <<>> until it has been computed
    configIn,       \* directories that have the file
    reading,        \* "idle", "reading", "failed" (a value was refused) or "crashed"
    fileLines,      \* the lines of the file read in this call
    configValues,   \* config->values
    attached,       \* the lines that attach was called with
    hadSize,        \* size is left over from an earlier option of the file
    configStatus,   \* what the latest call returned
    configCalls,    \* bound: number of calls so far
    wanted, found   \* the latest SCSI description, and the devices it found

configVars == <<dirList, configIn, reading, fileLines, configValues, attached,
                hadSize, configStatus, configCalls>>
matchVars == <<wanted, found>>

ConfigInit ==
    /\ dirList = <<>> /\ configIn \in SUBSET UNION {{e.dirs[i] : i \in DOMAIN e.dirs} : e \in EnvPaths}
    /\ reading = "idle" /\ fileLines = <<>> /\ configValues = ConfigDefaults
    /\ attached = <<>> /\ hadSize = FALSE /\ configStatus = "GOOD" /\ configCalls = 0

MatchInit == wanted = <<>> /\ found = ScsiDevices

-----------------------------------------------------------------------------
(* The file.                                                               *)

\* sanei_config_get_paths: a list that ends in a separator goes on with the
\* default directories, an unset variable is those alone.
Paths(env) == IF env.unset THEN DefaultDirs ELSE env.dirs \o (IF env.more THEN DefaultDirs ELSE <<>>)

\* sanei_config_open: the first directory of the list that has the file.
Opened(dirs) == {dirs[i] : i \in {j \in DOMAIN dirs : /\ dirs[j] \in configIn
                                                      /\ \A k \in 1 .. j - 1 : dirs[k] \notin configIn}}

\* The list is computed once: a later change of the environment is not seen.
ConfigureAttach ==
    /\ reading = "idle" /\ configCalls < MaxConfigCalls
    /\ configCalls' = configCalls + 1
    /\ \E env \in EnvPaths : dirList' = IF dirList = <<>> THEN Paths(env) ELSE dirList
    /\ IF Opened(dirList') = {}
       THEN configStatus' = "ACCESS_DENIED" /\ UNCHANGED reading
       ELSE reading' = "reading" /\ UNCHANGED configStatus
    /\ fileLines' = <<>> /\ attached' = <<>> /\ hadSize' = FALSE
    /\ UNCHANGED <<configIn, configValues>>

-----------------------------------------------------------------------------
(* A line.                                                                 *)

Skipped(l) == l.kind # "text"

IsOption(l) == ~Skipped(l) /\ l.token \in OptionNames

IsDevice(l) == ~Skipped(l) /\ l.token \notin OptionNames \cup {Unquoted}

TypeOf(l) == OptionTypes[l.token]
SizeOfValue(l) == OptionSizes[l.token]

\* The k-th word of the value; a missing one is the empty string.
ValueWord(l, k) == IF k <= Len(l.args) THEN l.args[k] ELSE <<>>

\* What an element is made of.  strtol and strtod give 0 for a word that is no
\* number, an empty one included.
Numbers == {<<"0">>, <<"1">>, <<"2">>, <<"3">>}
Truths == {<<"1">>, <<"true">>}
Falsehoods == {<<"0">>, <<"false">>}

Element(type, w) ==
    IF type = "bool" THEN (IF w \in Truths THEN "true" ELSE "false")
    ELSE IF w \in Numbers THEN w[1] ELSE "0"

\* The text of a string, cut off where the descriptor has no room for it and its
\* NUL.
TextOf_OneMore(l) ==
    IF Len(ValueWord(l, 1)) < SizeOfValue(l) THEN ValueWord(l, 1)
    ELSE SubSeq(ValueWord(l, 1), 1, SizeOfValue(l))

TextOf(l) ==
    IF Len(ValueWord(l, 1)) < SizeOfValue(l) THEN ValueWord(l, 1)
    ELSE SubSeq(ValueWord(l, 1), 1, SizeOfValue(l) - 1)

Parsed_NextWord(l) ==
    IF TypeOf(l) # "string" THEN [k \in 1 .. SizeOfValue(l) |-> Element(TypeOf(l), ValueWord(l, k + 1))]
    ELSE IF Len(ValueWord(l, 1)) < SizeOfValue(l) THEN Append(TextOf(l), NUL) ELSE TextOf(l)

\* What is copied into the memory of the option: a text that was cut off without
\* its NUL.
Parsed(l) ==
    IF TypeOf(l) # "string" THEN [k \in 1 .. SizeOfValue(l) |-> Element(TypeOf(l), ValueWord(l, k))]
    ELSE IF Len(ValueWord(l, 1)) < SizeOfValue(l) THEN Append(TextOf(l), NUL) ELSE TextOf(l)

\* memcpy: what lies behind the copied part stays.
CopiedInto(l, memory) ==
    [k \in 1 .. SizeOfValue(l) |-> IF k <= Len(Parsed(l)) THEN Parsed(l)[k] ELSE memory[k]]

\* sanei_check_value; of a list of words, only the first element is looked up.
Accepted(l) ==
    CASE OptionChecks[l.token] = "each" -> \A k \in 1 .. SizeOfValue(l) : Parsed(l)[k] \in LegalValues[l.token]
      [] OptionChecks[l.token] = "first" -> Parsed(l)[1] \in LegalValues[l.token]
      [] OptionChecks[l.token] = "text" -> TextOf(l) \in LegalValues[l.token]
      [] OTHER -> TRUE

\* How many words the value is made of.
WordsOf(l) == IF TypeOf(l) = "string" THEN 1 ELSE SizeOfValue(l)

\* The early returns, at whichever word of an array: they leave the file, the
\* word and the value behind.
CannotParse(l) ==
    /\ IsOption(l) /\ TypeOf(l) # "button"
    /\ \E k \in 1 .. WordsOf(l) :
         \/ ValueWord(l, k) = Unclosed
         \/ TypeOf(l) = "bool" /\ ValueWord(l, k) \notin Truths \cup Falsehoods

\* A NULL word is compared, or the NULL value of a type that is not parsed is
\* copied with the size of the option before.
Crashes(l) ==
    /\ ~Skipped(l)
    /\ \/ l.token = Unquoted
       \/ IsOption(l) /\ TypeOf(l) = "button" /\ hadSize

LineTaken(l) == fileLines' = Append(fileLines, l)

SkipLine(l) ==
    /\ Skipped(l) /\ LineTaken(l)
    /\ UNCHANGED <<dirList, configIn, reading, configValues, attached, hadSize, configStatus, configCalls>>

CrashLine(l) ==
    /\ Crashes(l) /\ LineTaken(l) /\ reading' = "crashed"
    /\ UNCHANGED <<dirList, configIn, configValues, attached, hadSize, configStatus, configCalls>>

BadLine_HalfWay(l) ==
    /\ CannotParse(l) /\ LineTaken(l)
    /\ reading' = "idle" /\ configStatus' = "INVAL"
    /\ configValues' = [configValues EXCEPT ![l.token] =
                          [k \in DOMAIN @ |-> IF k = 1 /\ TypeOf(l) # "string" THEN Parsed(l)[1] ELSE @[k]]]
    /\ UNCHANGED <<dirList, configIn, attached, hadSize, configCalls>>

BadLine(l) ==
    /\ CannotParse(l) /\ LineTaken(l)
    /\ reading' = "idle" /\ configStatus' = "INVAL"
    /\ UNCHANGED <<dirList, configIn, configValues, attached, hadSize, configCalls>>

OptionLine_Unchecked(l) ==
    /\ IsOption(l) /\ ~CannotParse(l) /\ ~Crashes(l) /\ LineTaken(l)
    /\ IF TypeOf(l) = "button" THEN UNCHANGED <<reading, configValues, hadSize>>
       ELSE /\ hadSize' = TRUE /\ UNCHANGED reading
            /\ configValues' = [configValues EXCEPT ![l.token] = CopiedInto(l, @)]
    /\ UNCHANGED <<dirList, configIn, attached, configStatus, configCalls>>

\* An option: the value is stored when sanei_check_value accepts it; otherwise
\* the loop ends with the line after it, which is read and dropped.
OptionLine(l) ==
    /\ IsOption(l) /\ ~CannotParse(l) /\ ~Crashes(l) /\ LineTaken(l)
    /\ IF TypeOf(l) = "button" THEN UNCHANGED <<reading, configValues, hadSize>>
       ELSE /\ hadSize' = TRUE
            /\ IF Accepted(l)
               THEN /\ configValues' = [configValues EXCEPT ![l.token] = CopiedInto(l, @)]
                    /\ UNCHANGED reading
               ELSE reading' = "failed" /\ UNCHANGED configValues
    /\ UNCHANGED <<dirList, configIn, attached, configStatus, configCalls>>

DeviceLine_Reversed(l) ==
    /\ IsDevice(l) /\ LineTaken(l)
    /\ attached' = <<l>> \o attached
    /\ UNCHANGED <<dirList, configIn, reading, configValues, hadSize, configStatus, configCalls>>

\* Anything else is a device, also "option" with a name that is none.
DeviceLine(l) ==
    /\ IsDevice(l) /\ LineTaken(l)
    /\ attached' = Append(attached, l)
    /\ UNCHANGED <<dirList, configIn, reading, configValues, hadSize, configStatus, configCalls>>

ReadLine ==
    /\ reading = "reading" /\ Len(fileLines) < MaxConfigLines
    /\ \E l \in ConfigLines : SkipLine(l) \/ CrashLine(l) \/ BadLine(l) \/ OptionLine(l) \/ DeviceLine(l)

\* The end of the file, or of the loop.
EndOfFile ==
    /\ reading \in {"reading", "failed"}
    /\ reading' = "idle" /\ configStatus' = (IF reading = "failed" THEN "INVAL" ELSE "GOOD")
    /\ UNCHANGED <<dirList, configIn, fileLines, configValues, attached, hadSize, configCalls>>

-----------------------------------------------------------------------------
(* sanei_config_attach_matching_devices: the words of a line are vendor,   *)
(* model, type, bus, channel, id and lun.                                  *)

Digits01 == {"0", "1"}

Criteria_LiteralStar(ws) ==
    [k \in 1 .. 7 |->
       IF k > Len(ws) \/ ws[k] = Unquoted \/ \E j \in 4 .. k : ws[j] \notin Digits01 \cup {Wildcard}
       THEN Wildcard ELSE IF k = 1 /\ ws[k] = Wildcard THEN "any" ELSE ws[k]]

\* A word after the third that is neither a number nor a star is not skipped, and
\* stands in the way of those behind it.
Criteria(ws) ==
    [k \in 1 .. 7 |->
       IF k > Len(ws) \/ ws[k] = Unquoted \/ \E j \in 4 .. k : ws[j] \notin Digits01 \cup {Wildcard}
       THEN Wildcard ELSE ws[k]]

\* One call: it leaves no state behind.
AttachMatching ==
    wanted = <<>> /\ \E ws \in ScsiWords :
      /\ wanted' = ws
      /\ LET c == Criteria(ws) IN
         found' = {d \in ScsiDevices : \A k \in 1 .. 7 : c[k] \in {Wildcard, d[k]}}

ConfigNext == ConfigureAttach \/ ReadLine \/ EndOfFile

ConfigSpec == ConfigInit /\ [][ConfigNext]_configVars

-----------------------------------------------------------------------------
(* Properties.                                                             *)

\* A line whose value cannot be made out, or is not one that the option may have.
Refused(l) ==
    /\ IsOption(l) /\ TypeOf(l) # "button"
    /\ CannotParse(l) \/ ~Accepted(l)

\* The memory m has what the line l says: every element is made of the word in its
\* place; a text is whole, with its NUL, where there is room for both, and has all
\* but its last byte from the line where there is not.
Says(l, m) ==
    IF TypeOf(l) # "string" THEN \A k \in 1 .. SizeOfValue(l) : m[k] = Element(TypeOf(l), ValueWord(l, k))
    ELSE /\ \A k \in DOMAIN ValueWord(l, 1) : k < SizeOfValue(l) => m[k] = ValueWord(l, 1)[k]
         /\ Len(ValueWord(l, 1)) < SizeOfValue(l) => m[Len(ValueWord(l, 1)) + 1] = NUL

\* The lines of the file before the first that is refused.
Honoured == {i \in DOMAIN fileLines : \A j \in DOMAIN fileLines : Refused(fileLines[j]) => i < j}

\* However options and devices are mixed in the file, an option has what its last
\* line says, element by element, and the devices are attached in the order they
\* are written, each at its rank; a refused value, at whichever element it is
\* refused, changes neither, nor does what comes after it (242-456).  The last
\* byte of a text comes from a line only as a NUL: a text that is too long has
\* none but the one that the backend put there (397-403).
FileIsHonoured ==
    LET Of(n) == {i \in Honoured : IsOption(fileLines[i]) /\ fileLines[i].token = n /\ OptionTypes[n] # "button"}
        devices == {i \in Honoured : IsDevice(fileLines[i])}
        Rank(i) == Cardinality({j \in devices : j <= i})
    IN /\ \A n \in OptionNames : Of(n) # {} =>
            \E i \in Of(n) : (\A j \in Of(n) : j <= i) /\ Says(fileLines[i], configValues[n])
       /\ \A n \in OptionNames : OptionTypes[n] = "string" =>
            configValues[n][OptionSizes[n]] \in {ConfigDefaults[n][OptionSizes[n]], NUL}
       /\ Len(attached) = Cardinality(devices)
       /\ \A i \in devices : attached[Rank(i)] = fileLines[i]

\* The memory m reads as the text w.
ReadsAs(m, w) ==
    Len(w) < Len(m) /\ (\A k \in DOMAIN w : m[k] = w[k]) /\ m[Len(w) + 1] = NUL

\* No call, complete or broken off, leaves a value in the configuration that is
\* neither the backend's own nor within the constraint: every element of a range,
\* the first one of a list of words, and of a list of strings the text - that one
\* if the backend's memory ended in a NUL, else it may run past the end.
ConfigIsLegal ==
    \A n \in OptionNames :
      LET m == configValues[n] IN
      \/ m = ConfigDefaults[n]
      \/ /\ OptionChecks[n] = "each" => \A k \in 1 .. OptionSizes[n] : m[k] \in LegalValues[n]
         /\ OptionChecks[n] = "first" => m[1] \in LegalValues[n]
         /\ OptionChecks[n] = "text" /\ ConfigDefaults[n][OptionSizes[n]] = NUL
              => \E w \in LegalValues[n] : ReadsAs(m, w)

\* Whatever a description leaves open - with a star, by ending early, or with a
\* word that cannot be made out - no device that it describes is left out
\* (sanei_config2.c:67-145).
DescribedIsFound ==
    {d \in ScsiDevices : \A k \in 1 .. 7 : k <= Len(wanted) => wanted[k] \in {Wildcard, Unquoted, d[k]}} \subseteq found

\* A configuration file means what it says, to the line that is refused and but for
\* the end of a text that is too long, and the devices it describes are found.
ConfigSafe == FileIsHonoured /\ ConfigIsLegal /\ DescribedIsFound
=============================================================================
