----------------------------- MODULE OutputFiles ------------------------------
(***************************************************************************)
(* Where the driver's client puts its pages: scan_param_t, which keeps the *)
(* directory, the name and the extension in one buffer (driver/            *)
(* scandifc.cpp:52-182), and PNMWriter, which writes a page to a file of   *)
(* its own or to a stream of its caller (driver/odc_pnm.cpp).              *)
(*                                                                         *)
(* A path is [dir, name, ext]; a part that is missing is Empty, and        *)
(* Size[p] is its length.  The three pointers read one buffer, which a     *)
(* call that overflows leaves half rewritten: a text that none of the      *)
(* calls gave is Cut.                                                      *)
(***************************************************************************)
EXTENDS Naturals, Sequences

CONSTANTS
    Dirs, Names, Exts,
    Size,           \* length of each of them
    PathMax,        \* sizeof(output_path)
    MaxWrites       \* bound: writes to one file

Empty == "empty"
Parts(S) == S \cup {Empty}

Cut == "cut"        \* a text that was cut off, or is read at another one's place
Garbled == {Cut, Empty}

ASSUME OutputFilesAssumption ==
    /\ PathMax \in Nat \ {0} /\ MaxWrites \in Nat
    /\ Garbled \cap (Dirs \cup Names \cup Exts) = {}
    /\ Size \in [Dirs \cup Names \cup Exts -> Nat \ {0}]

VARIABLES
    output_path,    \* what the buffer reads as up to its first NUL
    filename, ext,  \* what the two pointers read
    asked,          \* what the application asked for with the calls so far
    told,           \* the parts that a call which returned -1 was to write
    untold,         \* the parts that set_dir spoilt, returning 0
    stray,          \* set_path was given no directory, and no other was given since
    fp,             \* PNMWriter::fp: "none", "own" (path is set) or "callers"
    left,           \* files that the writer opened and did not close
    content         \* what was written to the file in hand

pathVars == <<output_path, filename, ext, asked, told, untold, stray>>
writerVars == <<fp, left, content>>
outputVars == <<pathVars, writerVars>>

NoPath == [dir |-> Empty, name |-> Empty, ext |-> Empty]

OutputInit ==
    /\ output_path = Empty /\ filename = Empty /\ ext = Empty
    /\ asked = NoPath /\ told = {} /\ untold = {} /\ stray = FALSE
    /\ fp = "none" /\ left = 0 /\ content = <<>>

-----------------------------------------------------------------------------
(* scan_param_t.                                                           *)

\* The buffer reads as Cut when the first text filled it to its end.
SizeOf(p) == IF p = Empty THEN 0 ELSE IF p = Cut THEN PathMax - 1 ELSE Size[p]

\* strlen of "name.ext", or of "name" when there is no extension.
FileLen(n, e) == SizeOf(n) + (IF e = Empty THEN 0 ELSE 1 + SizeOf(e))

\* snprintf returns the length it would need; the call fails when rem < that + 1.
PathFits(len, rem) == len + 1 <= rem

NewPath(d, n, e) == output_path' = d /\ filename' = n /\ ext' = e

\* The parts in S are as the call has been asked to make them, or are not, which
\* the call says, or does not.
Written(S) == told' = told \ S /\ untold' = untold \ S
Told(S) == told' = told \cup S /\ untold' = untold \ S
NotTold(S) == told' = told \ S /\ untold' = untold \cup S

\* Both pieces one behind the other, as set_path(dir, filename) puts them.
BothFit(d, n, e) ==
    PathFits(SizeOf(d), PathMax) /\ PathFits(FileLen(n, e), PathMax - (SizeOf(d) + 1))

\* What it leaves when they do not fit: the directory, or what there is room for,
\* and the two pointers where they were, in the middle of something else.
Spilt(d) ==
    /\ output_path' = (IF PathFits(SizeOf(d), PathMax) THEN d ELSE Cut)
    /\ filename' \in Garbled /\ ext' \in Garbled

\* An extension, as far as it is known.
Uncut(e) == IF e = Cut THEN Empty ELSE e

\* set_dir when there is a name: name and extension are joined and put behind the
\* new directory; what set_path says of that is not looked at.  A garbled name
\* has any length, and is split at whatever dot is the last one in it.
MovedTo(d, n, e) ==
    \/ /\ Cut \notin {n, e} /\ BothFit(d, n, e)
       /\ NewPath(d, n, e) /\ Written({"dir"})
    \/ /\ Cut \in {n, e} /\ PathFits(SizeOf(d), PathMax)
       /\ \E m \in {n} \cup Garbled, x \in {e} \cup Garbled :
            /\ m \in Garbled \/ BothFit(d, m, Uncut(x))
            /\ NewPath(d, m, x)
       /\ Written({"dir"})
    \/ /\ Cut \in {n, e} \/ ~BothFit(d, n, e)
       /\ Spilt(d) /\ NotTold({"dir", "name"})

NamedDir(d) ==
    IF PathFits(SizeOf(d), PathMax) THEN NewPath(d, Empty, Empty) /\ Written({"dir"})
    ELSE Spilt(d) /\ Told({"dir", "name"})

AskedDir(d) ==
    /\ asked' = [asked EXCEPT !.dir = d] /\ stray' = FALSE
    /\ UNCHANGED writerVars

SetOutputDir_DropsExt(d) ==
    /\ IF filename # Empty THEN MovedTo(d, filename, Empty) ELSE NamedDir(d)
    /\ AskedDir(d)

\* set_dir
SetOutputDir(d) ==
    /\ IF filename # Empty THEN MovedTo(d, filename, ext) ELSE NamedDir(d)
    /\ AskedDir(d)

SetFilename_FromStart(n, e) ==
    /\ \/ /\ PathFits(FileLen(n, e), PathMax)
          /\ NewPath(output_path, n, e) /\ Written({"name"})
       \/ /\ ~PathFits(FileLen(n, e), PathMax)
          /\ UNCHANGED output_path /\ filename' \in {filename} \cup Garbled /\ ext' \in {ext} \cup Garbled
          /\ Told({"name"})
    /\ asked' = [asked EXCEPT !.name = n, !.ext = e]
    /\ UNCHANGED <<stray, writerVars>>

\* set_filename: behind whatever the buffer reads as, a directory or not.  What is
\* cut off is read where the name was before, if it was there.
SetFilename(n, e) ==
    /\ \/ /\ PathFits(FileLen(n, e), PathMax - (SizeOf(output_path) + 1))
          /\ NewPath(output_path, n, e) /\ Written({"name"})
       \/ /\ ~PathFits(FileLen(n, e), PathMax - (SizeOf(output_path) + 1))
          /\ UNCHANGED output_path /\ filename' \in {filename} \cup Garbled /\ ext' \in {ext} \cup Garbled
          /\ Told({"name"})
    /\ asked' = [asked EXCEPT !.name = n, !.ext = e]
    /\ UNCHANGED <<stray, writerVars>>

\* set_path(path): the text up to the last slash is the directory.  A path
\* without one stays at the start of the buffer, and output_path reads as its
\* name.
SetPath(d, n, e) ==
    /\ LET len == FileLen(n, e) + (IF d = Empty THEN 0 ELSE SizeOf(d) + 1) IN
       IF PathFits(len, PathMax)
       THEN NewPath(IF d = Empty THEN n ELSE d, n, e) /\ Written({"dir", "name"})
       ELSE /\ output_path' = Cut /\ filename' \in Garbled /\ ext' \in Garbled
            /\ Told({"dir", "name"})
    /\ asked' = [dir |-> d, name |-> n, ext |-> e]
    /\ stray' = (d = Empty)
    /\ UNCHANGED writerVars

\* set_path(dir, filename)
SetPathOf(d, n, e) ==
    /\ IF BothFit(d, n, e) THEN NewPath(d, n, e) /\ Written({"dir", "name"})
       ELSE Spilt(d) /\ Told({"dir", "name"})
    /\ asked' = [dir |-> d, name |-> n, ext |-> e]
    /\ stray' = FALSE
    /\ UNCHANGED writerVars

\* The constructor.
NewParam ==
    /\ output_path' = Empty /\ filename' = Empty /\ ext' = Empty
    /\ asked' = NoPath /\ told' = {} /\ untold' = {} /\ stray' = FALSE
    /\ UNCHANGED writerVars

-----------------------------------------------------------------------------
(* PNMWriter: its size is (0, 0) when it is closed, and is left out.       *)

\* close(): the newline, whose failure is only logged.
Closed(c) == fp' = "none" /\ content' = Append(c, "end")

\* open(path, w, h): fopen or the header may fail; after the header close() follows.
OpenFile ==
    /\ fp = "none"
    /\ \/ content' = <<>> /\ UNCHANGED <<fp, left>>
       \/ fp' = "own" /\ left' = left + 1 /\ content' = <<"header">>
       \/ Closed(<<>>) /\ UNCHANGED left
    /\ UNCHANGED pathVars

\* open(fp, w, h)
OpenStream ==
    /\ fp = "none"
    /\ \/ fp' = "callers" /\ content' = <<"header">>
       \/ Closed(<<>>)
    /\ UNCHANGED <<left, pathVars>>

\* Either open of a writer that is open: -1.
OpenAgain == fp # "none" /\ UNCHANGED outputVars

\* write(): what fails leaves the file open.
WritePage ==
    /\ fp # "none" /\ Len(content) <= MaxWrites
    /\ content' \in {content, Append(content, "data")}
    /\ UNCHANGED <<fp, left, pathVars>>

CloseOutput_LeavesFile ==
    /\ fp # "none"
    /\ Closed(content)
    /\ UNCHANGED <<left, pathVars>>

\* close(), of the caller or of the destructor: a stream of the caller stays open.
CloseOutput ==
    /\ fp # "none"
    /\ Closed(content)
    /\ left' = (IF fp = "own" THEN left - 1 ELSE left)
    /\ UNCHANGED pathVars

-----------------------------------------------------------------------------
PathNext ==
    \/ \E d \in Dirs : SetOutputDir(d)
    \/ \E n \in Names, e \in Parts(Exts) : SetFilename(n, e)
    \/ \E d \in Parts(Dirs), n \in Names, e \in Parts(Exts) : SetPath(d, n, e)
    \/ \E d \in Dirs, n \in Names, e \in Parts(Exts) : SetPathOf(d, n, e)
    \/ NewParam

WriterNext == OpenFile \/ OpenStream \/ OpenAgain \/ WritePage \/ CloseOutput

OutputNext == PathNext \/ WriterNext

OutputSpec == OutputInit /\ [][OutputNext]_outputVars

-----------------------------------------------------------------------------
(* Properties.                                                             *)

\* What a name takes behind the directory and its NUL, if there is one.
NamePart == IF filename \in Garbled THEN 0 ELSE 1 + FileLen(filename, Uncut(ext))

\* Whatever the order of the calls, whichever of them overflowed and however the
\* application goes on, scan() (scandifc.cpp:375-383) reads each part as the
\* latest call asked for it, unless it was told that the call failed, or set_dir
\* had to move a name that did not fit, which it does not tell (73).  A directory
\* that differs is one that was cut off, never an older one; only after set_path
\* of a path without a directory a name is read in its place.  What was not cut
\* off fits into the buffer.
PathAsAsked ==
    /\ \/ output_path = asked.dir
       \/ output_path = Cut /\ "dir" \in told \cup untold
       \/ stray /\ output_path \in Names
    /\ (filename = asked.name /\ ext = asked.ext) \/ "name" \in told \cup untold
    /\ ~stray => SizeOf(output_path) + NamePart < PathMax

\* Every file that the writer opened is closed again, and only those; a page is
\* a header, its data and one end (odc_pnm.cpp:47-142).
PageFilesClosed ==
    /\ left = (IF fp = "own" THEN 1 ELSE 0)
    /\ fp # "none" => Head(content) = "header"
    /\ \A i \in DOMAIN content : content[i] = "end" => fp = "none" /\ i = Len(content)

\* The pages go into the files that were asked for as far as PathAsAsked says, and
\* these are whole and closed.
OutputSafe == PathAsAsked /\ PageFilesClosed
=============================================================================
