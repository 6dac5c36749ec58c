------------------------------ MODULE DataProofs ------------------------------
(***************************************************************************)
(* Proofs about the data structures of the driver - OutputFiles, Containers*)
(* and Values, for any elements, links, blocks, names and sizes, and for   *)
(* lists of any length - and about what the shared SANE code does with     *)
(* values: SaneiConfig for files of any length, ConstrainValue for any     *)
(* ranges, lists and width of a word, and Magic for images of any size.    *)
(***************************************************************************)
EXTENDS OutputFiles, Containers, Values, ConstrainValue, SaneiConfig, Magic, FiniteSetTheorems,
        SequenceTheorems, TLAPS

-----------------------------------------------------------------------------
(* OutputFiles.  The path is inductive with the type of its parts, and     *)
(* with a path that was asked for without a name having no extension.      *)

PathTypeOK ==
    /\ output_path \in Parts(Dirs \cup Names) \cup {Cut}
    /\ filename \in Parts(Names) \cup {Cut} /\ ext \in Parts(Exts) \cup {Cut}
    /\ asked \in [dir : Parts(Dirs), name : Parts(Names), ext : Parts(Exts)]
    /\ asked.name = Empty => asked.ext = Empty

PathInv == PathTypeOK /\ PathAsAsked

\* The page has its header first; what is in hand of an open writer has no end.
WriterInv ==
    /\ fp \in {"none", "own", "callers"} /\ left = (IF fp = "own" THEN 1 ELSE 0)
    /\ content \in Seq({"header", "data", "end"})
    /\ fp # "none" => content # <<>> /\ content[1] = "header"
    /\ \A i \in DOMAIN content : content[i] = "end" => fp = "none" /\ i = Len(content)

LEMMA SizesAreNat ==
    /\ \A p \in Parts(Dirs \cup Names \cup Exts) \cup {Cut} : SizeOf(p) \in Nat
    /\ PathMax \in Nat /\ Empty \notin Names /\ Cut \notin Names \cup Dirs \cup Exts /\ Empty # Cut
BY OutputFilesAssumption DEF Parts, SizeOf, Garbled, Empty, Cut

\* A name that is put behind what the buffer reads as, where there is room.
LEMMA NameFits ==
    ASSUME NEW d \in Parts(Dirs \cup Names) \cup {Cut}, NEW n \in Names, NEW e \in Parts(Exts),
           PathFits(FileLen(n, e), PathMax - (SizeOf(d) + 1)), NewPath(d, n, e)
    PROVE  SizeOf(output_path') + NamePart' < PathMax
<1>1. SizeOf(d) \in Nat /\ SizeOf(n) \in Nat /\ SizeOf(e) \in Nat /\ PathMax \in Nat /\ n # Empty
      BY SizesAreNat DEF Parts
<1>2. FileLen(n, e) \in Nat
      BY <1>1 DEF FileLen
<1>3. SizeOf(d) + (1 + FileLen(n, e)) < PathMax
      BY <1>1, <1>2 DEF PathFits
<1>4. NamePart' = 1 + FileLen(n, e) /\ output_path' = d
      BY <1>1, SizesAreNat DEF NewPath, NamePart, Garbled, Uncut, Parts
<1> QED BY <1>3, <1>4

\* A directory alone.
LEMMA DirFits ==
    ASSUME NEW d \in Dirs, PathFits(SizeOf(d), PathMax), NewPath(d, Empty, Empty)
    PROVE  SizeOf(output_path') + NamePart' < PathMax
<1>1. SizeOf(d) \in Nat /\ PathMax \in Nat
      BY SizesAreNat DEF Parts
<1>2. NamePart' = 0 /\ output_path' = d
      BY DEF NewPath, NamePart, Garbled
<1> QED BY <1>1, <1>2 DEF PathFits

\* The buffer holds the parts as they were asked for, and has room for them.
LEMMA WholePathInv ==
    ASSUME NEW d \in Dirs, NEW n \in Parts(Names), NEW e \in Parts(Exts), NewPath(d, n, e),
           asked' \in [dir : Parts(Dirs), name : Parts(Names), ext : Parts(Exts)],
           asked'.name = Empty => asked'.ext = Empty, asked'.dir = d,
           (n = asked'.name /\ e = asked'.ext) \/ "name" \in told' \cup untold',
           SizeOf(output_path') + NamePart' < PathMax
    PROVE  PathInv'
BY SizesAreNat DEF PathInv, PathTypeOK, PathAsAsked, NewPath, Parts

\* The buffer holds anything, and the parts that do not read as asked are known.
LEMMA SpoiltPathInv ==
    ASSUME asked' \in [dir : Parts(Dirs), name : Parts(Names), ext : Parts(Exts)],
           asked'.name = Empty => asked'.ext = Empty,
           filename' \in Parts(Names) \cup {Cut}, ext' \in Parts(Exts) \cup {Cut},
           \/ output_path' = asked'.dir
           \/ output_path' = Cut /\ "dir" \in told' \cup untold',
           "name" \in told' \cup untold',
           SizeOf(output_path') + NamePart' < PathMax
    PROVE  PathInv'
BY DEF PathInv, PathTypeOK, PathAsAsked, Parts

\* A new buffer of the constructor.
LEMMA EmptyPathInv ==
    ASSUME output_path' = Empty, filename' = Empty, ext' = Empty, asked' = NoPath
    PROVE  PathInv'
<1>1. NamePart' = 0 /\ SizeOf(output_path') = 0 /\ 0 + 0 < PathMax
      BY OutputFilesAssumption DEF NamePart, SizeOf, Garbled
<1>2. /\ asked' \in [dir : Parts(Dirs), name : Parts(Names), ext : Parts(Exts)]
      /\ asked'.dir = Empty /\ asked'.name = Empty /\ asked'.ext = Empty
      BY DEF NoPath, Parts
<1> QED BY <1>1, <1>2 DEF PathInv, PathTypeOK, PathAsAsked, Parts

LEMMA PathInitInv == OutputInit => PathInv
<1> SUFFICES ASSUME OutputInit PROVE PathInv
    OBVIOUS
<1>1. NamePart = 0 /\ SizeOf(output_path) = 0 /\ 0 + 0 < PathMax
      BY OutputFilesAssumption DEF OutputInit, NamePart, SizeOf, Garbled
<1>2. /\ asked \in [dir : Parts(Dirs), name : Parts(Names), ext : Parts(Exts)]
      /\ asked.dir = Empty /\ asked.name = Empty /\ asked.ext = Empty
      BY DEF OutputInit, NoPath, Parts
<1> QED BY <1>1, <1>2 DEF OutputInit, PathInv, PathTypeOK, PathAsAsked, Parts

\* What does not fit: the directory or what there is room for, and two pointers
\* into something else.
LEMMA SpiltFits ==
    ASSUME NEW d \in Dirs, Spilt(d)
    PROVE  /\ output_path' = d \/ output_path' = Cut
           /\ filename' \in Garbled /\ ext' \in Garbled
           /\ SizeOf(output_path') + NamePart' < PathMax
<1>1. SizeOf(d) \in Nat /\ PathMax \in Nat /\ SizeOf(Cut) = PathMax - 1
      BY SizesAreNat DEF Parts, SizeOf
<1>2. NamePart' = 0
      BY DEF Spilt, NamePart
<1>3. CASE PathFits(SizeOf(d), PathMax)
      BY <1>1, <1>2, <1>3 DEF Spilt, PathFits
<1>4. CASE ~PathFits(SizeOf(d), PathMax)
      BY <1>1, <1>2, <1>4 DEF Spilt
<1> QED BY <1>3, <1>4 DEF Spilt

\* set_dir: the name that is moved keeps what is known of it.
LEMMA SetDirKeeps ==
    ASSUME PathInv, NEW d \in Dirs, SetOutputDir(d)
    PROVE  PathInv'
<1>1. /\ asked' = [asked EXCEPT !.dir = d]
      /\ asked' \in [dir : Parts(Dirs), name : Parts(Names), ext : Parts(Exts)]
      /\ asked'.dir = d /\ asked'.name = asked.name /\ asked'.ext = asked.ext
      /\ asked'.name = Empty => asked'.ext = Empty
      BY DEF SetOutputDir, AskedDir, PathInv, PathTypeOK, Parts
<1>2. (filename = asked.name /\ ext = asked.ext) \/ "name" \in told \cup untold
      BY DEF PathInv, PathAsAsked
<1>3. CASE filename = Empty
  <2>1. CASE PathFits(SizeOf(d), PathMax)
    <3>1. NewPath(d, Empty, Empty) /\ Written({"dir"})
          BY <1>3, <2>1 DEF SetOutputDir, NamedDir
    <3>2. SizeOf(output_path') + NamePart' < PathMax
          BY <2>1, <3>1, DirFits
    <3>3. (Empty = asked'.name /\ Empty = asked'.ext) \/ "name" \in told' \cup untold'
          BY <1>1, <1>2, <1>3, <3>1 DEF Written, PathInv, PathTypeOK
    <3> QED BY <1>1, <3>1, <3>2, <3>3, WholePathInv DEF Parts
  <2>2. CASE ~PathFits(SizeOf(d), PathMax)
    <3>1. Spilt(d) /\ Told({"dir", "name"})
          BY <1>3, <2>2 DEF SetOutputDir, NamedDir
    <3> QED BY <1>1, <3>1, SpiltFits, SpoiltPathInv DEF Told, Parts, Garbled
  <2> QED BY <2>1, <2>2
<1>4. CASE filename # Empty
  <2>0. MovedTo(d, filename, ext)
        BY <1>4 DEF SetOutputDir
  <2>1. CASE /\ Cut \notin {filename, ext} /\ BothFit(d, filename, ext)
             /\ NewPath(d, filename, ext) /\ Written({"dir"})
    <3>1. filename \in Names /\ ext \in Parts(Exts) /\ d \in Parts(Dirs \cup Names)
          BY <1>4, <2>1 DEF PathInv, PathTypeOK, Parts
    <3>2. SizeOf(output_path') + NamePart' < PathMax
          BY <2>1, <3>1, NameFits DEF BothFit
    <3>3. (filename = asked'.name /\ ext = asked'.ext) \/ "name" \in told' \cup untold'
          BY <1>1, <1>2, <2>1 DEF Written
    <3> QED BY <1>1, <2>1, <3>1, <3>2, <3>3, WholePathInv DEF Parts
  <2>2. CASE /\ Cut \in {filename, ext} /\ PathFits(SizeOf(d), PathMax)
             /\ \E m \in {filename} \cup Garbled, x \in {ext} \cup Garbled :
                  /\ m \in Garbled \/ BothFit(d, m, Uncut(x))
                  /\ NewPath(d, m, x)
             /\ Written({"dir"})
    <3>1. PICK m \in {filename} \cup Garbled, x \in {ext} \cup Garbled :
                  /\ m \in Garbled \/ BothFit(d, m, Uncut(x))
                  /\ NewPath(d, m, x)
          BY <2>2
    <3>2. "name" \in told' \cup untold'
      <4>1. "name" \in told \cup untold
            BY <1>2, <2>2, SizesAreNat DEF PathInv, PathTypeOK, Parts
      <4> QED BY <2>2, <4>1 DEF Written
    <3>3. m \in Parts(Names) \cup {Cut} /\ x \in Parts(Exts) \cup {Cut} /\ Uncut(x) \in Parts(Exts)
          BY <3>1 DEF PathInv, PathTypeOK, Parts, Garbled, Uncut
    <3>4. SizeOf(output_path') + NamePart' < PathMax
      <4>1. output_path' = d /\ filename' = m /\ ext' = x /\ SizeOf(d) \in Nat /\ PathMax \in Nat
            BY <3>1, SizesAreNat DEF NewPath, Parts
      <4>2. CASE m \in Garbled
        <5>1. NamePart' = 0
              BY <4>1, <4>2 DEF NamePart
        <5> QED BY <2>2, <4>1, <5>1 DEF PathFits
      <4>3. CASE m \notin Garbled
        <5>1. m \in Names /\ BothFit(d, m, Uncut(x))
              BY <3>1, <3>3, <4>3 DEF Parts, Garbled
        <5>2. SizeOf(m) \in Nat /\ SizeOf(Uncut(x)) \in Nat
              BY <3>3, <5>1, SizesAreNat DEF Parts
        <5>3. FileLen(m, Uncut(x)) \in Nat
              BY <5>2 DEF FileLen
        <5>4. NamePart' = 1 + FileLen(m, Uncut(x))
              BY <4>1, <4>3 DEF NamePart
        <5> QED BY <4>1, <5>1, <5>3, <5>4 DEF BothFit, PathFits
      <4> QED BY <4>2, <4>3
    <3> QED BY <1>1, <3>1, <3>2, <3>3, <3>4, SpoiltPathInv DEF NewPath
  <2>3. CASE Spilt(d) /\ NotTold({"dir", "name"})
        BY <1>1, <2>3, SpiltFits, SpoiltPathInv DEF NotTold, Parts, Garbled
  <2> QED BY <2>0, <2>1, <2>2, <2>3 DEF MovedTo
<1> QED BY <1>3, <1>4

\* set_filename: what the buffer reads as stays.
LEMMA SetFilenameKeeps ==
    ASSUME PathInv, NEW n \in Names, NEW e \in Parts(Exts), SetFilename(n, e)
    PROVE  PathInv'
<1>1. /\ asked' \in [dir : Parts(Dirs), name : Parts(Names), ext : Parts(Exts)]
      /\ asked'.dir = asked.dir /\ asked'.name = n /\ asked'.ext = e /\ n # Empty
      /\ stray' = stray /\ output_path' = output_path
      BY SizesAreNat DEF SetFilename, NewPath, PathInv, PathTypeOK, Parts
<1>2. output_path \in Parts(Dirs \cup Names) \cup {Cut}
      BY DEF PathInv, PathTypeOK
<1>3. \/ output_path = asked.dir
      \/ output_path = Cut /\ "dir" \in told \cup untold
      \/ stray /\ output_path \in Names
      BY DEF PathInv, PathAsAsked
<1>4. "dir" \in told \cup untold => "dir" \in told' \cup untold'
      BY DEF SetFilename, Written, Told
<1>5. CASE /\ PathFits(FileLen(n, e), PathMax - (SizeOf(output_path) + 1))
           /\ NewPath(output_path, n, e)
  <2>1. SizeOf(output_path') + NamePart' < PathMax
        BY <1>2, <1>5, NameFits
  <2>2. filename' = n /\ ext' = e
        BY <1>5 DEF NewPath
  <2> QED BY <1>1, <1>2, <1>3, <1>4, <2>1, <2>2 DEF PathInv, PathTypeOK, PathAsAsked, Parts
<1>6. CASE /\ filename' \in {filename} \cup Garbled /\ ext' \in {ext} \cup Garbled
           /\ Told({"name"})
  <2>1. filename' \in Parts(Names) \cup {Cut} /\ ext' \in Parts(Exts) \cup {Cut}
        BY <1>6 DEF PathInv, PathTypeOK, Parts, Garbled
  <2>2. "name" \in told'
        BY <1>6 DEF Told
  <2>3. ASSUME ~stray
        PROVE  SizeOf(output_path') + NamePart' < PathMax
    <3>1. SizeOf(output_path) + NamePart < PathMax
          BY <2>3 DEF PathInv, PathAsAsked
    <3>2. SizeOf(output_path) \in Nat /\ PathMax \in Nat
          BY <1>2, SizesAreNat DEF Parts
    <3>3. NamePart \in Nat /\ NamePart' \in Nat /\ NamePart' <= NamePart
      <4>1. CASE filename' \in Garbled
        <5>1. NamePart' = 0
              BY <4>1 DEF NamePart
        <5>2. NamePart \in Nat
          <6>1. filename \in Garbled \/ (SizeOf(filename) \in Nat /\ SizeOf(Uncut(ext)) \in Nat)
                BY SizesAreNat DEF PathInv, PathTypeOK, Parts, Garbled, Uncut
          <6> QED BY <6>1 DEF NamePart, FileLen
        <5> QED BY <5>1, <5>2
      <4>2. CASE filename' \notin Garbled
        <5>1. filename' = filename /\ filename \notin Garbled
              BY <1>6, <4>2
        <5>2. SizeOf(filename) \in Nat /\ SizeOf(Uncut(ext)) \in Nat
              BY SizesAreNat DEF PathInv, PathTypeOK, Parts, Uncut
        <5>3. Uncut(ext') = Uncut(ext) \/ Uncut(ext') = Empty
              BY <1>6 DEF Garbled, Uncut
        <5>4. NamePart = 1 + FileLen(filename, Uncut(ext)) /\ NamePart' = 1 + FileLen(filename, Uncut(ext'))
              BY <5>1 DEF NamePart
        <5>5. FileLen(filename, Uncut(ext)) \in Nat /\ FileLen(filename, Empty) \in Nat
              /\ FileLen(filename, Empty) <= FileLen(filename, Uncut(ext))
              BY <5>2 DEF FileLen
        <5> QED BY <5>3, <5>4, <5>5
      <4> QED BY <4>1, <4>2
    <3> QED BY <1>1, <3>1, <3>2, <3>3
  <2> QED BY <1>1, <1>2, <1>3, <1>4, <2>1, <2>2, <2>3 DEF PathInv, PathTypeOK, PathAsAsked
<1> QED BY <1>5, <1>6 DEF SetFilename

\* set_path of a whole path.
LEMMA SetPathKeeps ==
    ASSUME PathInv, NEW d \in Parts(Dirs), NEW n \in Names, NEW e \in Parts(Exts), SetPath(d, n, e)
    PROVE  PathInv'
<1> DEFINE len == FileLen(n, e) + (IF d = Empty THEN 0 ELSE SizeOf(d) + 1)
<1>1. /\ asked' = [dir |-> d, name |-> n, ext |-> e] /\ stray' = (d = Empty)
      /\ asked' \in [dir : Parts(Dirs), name : Parts(Names), ext : Parts(Exts)]
      /\ asked'.dir = d /\ asked'.name = n /\ asked'.ext = e /\ n # Empty
      BY SizesAreNat DEF SetPath, Parts
<1>2. SizeOf(d) \in Nat /\ SizeOf(n) \in Nat /\ SizeOf(e) \in Nat /\ PathMax \in Nat
      BY SizesAreNat DEF Parts
<1>3. CASE ~PathFits(len, PathMax)
  <2>1. output_path' = Cut /\ filename' \in Garbled /\ ext' \in Garbled /\ Told({"dir", "name"})
        BY <1>3 DEF SetPath
  <2>2. SizeOf(output_path') + NamePart' < PathMax
    <3>1. NamePart' = 0 /\ SizeOf(Cut) = PathMax - 1
          BY <2>1, SizesAreNat DEF NamePart, SizeOf
    <3> QED BY <1>2, <2>1, <3>1
  <2> QED BY <1>1, <2>1, <2>2, SpoiltPathInv DEF Told, Parts, Garbled
<1>4. CASE PathFits(len, PathMax)
  <2>1. NewPath(IF d = Empty THEN n ELSE d, n, e)
        BY <1>4 DEF SetPath
  <2>2. CASE d = Empty
        BY <1>1, <2>1, <2>2 DEF NewPath, PathInv, PathTypeOK, PathAsAsked, Parts
  <2>3. CASE d # Empty
    <3>1. FileLen(n, e) \in Nat
          BY <1>2 DEF FileLen
    <3>2. PathFits(FileLen(n, e), PathMax - (SizeOf(d) + 1))
          BY <1>2, <1>4, <2>3, <3>1 DEF PathFits
    <3>3. NewPath(d, n, e) /\ d \in Dirs
          BY <2>1, <2>3 DEF Parts
    <3>4. SizeOf(output_path') + NamePart' < PathMax
          BY <3>2, <3>3, NameFits DEF Parts
    <3> QED BY <1>1, <3>3, <3>4, WholePathInv DEF Parts
  <2> QED BY <2>2, <2>3
<1> QED BY <1>3, <1>4

\* set_path of a directory and a name.
LEMMA SetPathOfKeeps ==
    ASSUME PathInv, NEW d \in Dirs, NEW n \in Names, NEW e \in Parts(Exts), SetPathOf(d, n, e)
    PROVE  PathInv'
<1>1. /\ asked' = [dir |-> d, name |-> n, ext |-> e]
      /\ asked' \in [dir : Parts(Dirs), name : Parts(Names), ext : Parts(Exts)]
      /\ asked'.dir = d /\ asked'.name = n /\ asked'.ext = e /\ n # Empty
      BY SizesAreNat DEF SetPathOf, Parts
<1>2. CASE BothFit(d, n, e)
  <2>1. NewPath(d, n, e)
        BY <1>2 DEF SetPathOf
  <2>2. SizeOf(output_path') + NamePart' < PathMax
        BY <1>2, <2>1, NameFits DEF BothFit, Parts
  <2> QED BY <1>1, <2>1, <2>2, WholePathInv DEF Parts
<1>3. CASE ~BothFit(d, n, e)
  <2>1. Spilt(d) /\ Told({"dir", "name"})
        BY <1>3 DEF SetPathOf
  <2> QED BY <1>1, <2>1, SpiltFits, SpoiltPathInv DEF Told, Parts, Garbled
<1> QED BY <1>2, <1>3

LEMMA PathKeeps ==
    ASSUME PathInv, PathNext
    PROVE  PathInv'
<1>1. ASSUME NewParam
      PROVE  PathInv'
      BY <1>1, EmptyPathInv DEF NewParam
<1> QED BY <1>1, SetDirKeeps, SetFilenameKeeps, SetPathKeeps, SetPathOfKeeps DEF PathNext

LEMMA WriterInitInv == OutputInit => WriterInv
BY DEF OutputInit, WriterInv

\* A page that goes on: an end is only where the writer closes it.
LEMMA ContentGrows ==
    ASSUME WriterInv, fp # "none", NEW x \in {"data", "end"}, NEW c, c = Append(content, x)
    PROVE  /\ c \in Seq({"header", "data", "end"}) /\ c # <<>> /\ c[1] = "header"
           /\ \A i \in DOMAIN c : c[i] = "end" => x = "end" /\ i = Len(c)
<1>1. content \in Seq({"header", "data", "end"}) /\ Len(content) \in Nat /\ Len(content) # 0
      BY DEF WriterInv
<1>2. /\ c \in Seq({"header", "data", "end"}) /\ Len(c) = Len(content) + 1 /\ DOMAIN c = 1 .. Len(content) + 1
      /\ c[Len(content) + 1] = x /\ \A i \in 1 .. Len(content) : c[i] = content[i]
      BY <1>1
<1>3. \A i \in 1 .. Len(content) : content[i] # "end"
      BY <1>1 DEF WriterInv
<1> QED BY <1>1, <1>2, <1>3 DEF WriterInv

\* open, write and close of the writer.
LEMMA WriterKeeps ==
    ASSUME WriterInv, WriterNext
    PROVE  WriterInv'
<1> DEFINE Page == {"header", "data", "end"}
<1>1. CASE OpenFile \/ OpenStream
  <2>1. content' = <<>> \/ content' = <<"header">> \/ content' = <<"end">>
        BY <1>1 DEF OpenFile, OpenStream, Closed
  <2>2. /\ content' \in Seq(Page)
        /\ \A i \in DOMAIN content' : content'[i] = "end" => content' = <<"end">> /\ i = Len(content')
    <3>1. CASE content' = <<>>
          BY <3>1
    <3>2. CASE content' = <<"header">>
      <4>1. DOMAIN content' = {1} /\ content'[1] = "header" /\ content' \in Seq(Page)
            BY <3>2
      <4> QED BY <4>1
    <3>3. CASE content' = <<"end">>
      <4>1. DOMAIN content' = {1} /\ Len(content') = 1 /\ content' \in Seq(Page)
            BY <3>3
      <4> QED BY <3>3, <4>1
    <3> QED BY <2>1, <3>1, <3>2, <3>3
  <2>3. /\ fp' \in {"none", "own", "callers"} /\ left' = (IF fp' = "own" THEN 1 ELSE 0)
        /\ fp' # "none" => content' = <<"header">>
        BY <1>1 DEF OpenFile, OpenStream, Closed, WriterInv
  <2> QED BY <2>2, <2>3 DEF WriterInv
<1>2. CASE OpenAgain
      BY <1>2 DEF OpenAgain, outputVars, writerVars, WriterInv
<1>3. CASE WritePage
  <2>1. CASE content' = content
        BY <1>3, <2>1 DEF WritePage, WriterInv
  <2>2. CASE content' = Append(content, "data")
    <3>1. /\ content' \in Seq(Page) /\ content' # <<>> /\ content'[1] = "header"
          /\ \A i \in DOMAIN content' : content'[i] = "end" => "data" = "end" /\ i = Len(content')
          BY <1>3, <2>2, ContentGrows DEF WritePage
    <3> QED BY <1>3, <3>1 DEF WritePage, WriterInv
  <2> QED BY <1>3, <2>1, <2>2 DEF WritePage
<1>4. CASE CloseOutput
  <2>1. /\ content' \in Seq(Page) /\ content' # <<>> /\ content'[1] = "header"
        /\ \A i \in DOMAIN content' : content'[i] = "end" => i = Len(content')
        BY <1>4, ContentGrows DEF CloseOutput, Closed
  <2> QED BY <1>4, <2>1 DEF CloseOutput, Closed, WriterInv
<1> QED BY <1>1, <1>2, <1>3, <1>4 DEF WriterNext

LEMMA OutputNextKeeps ==
    ASSUME PathInv, WriterInv, [OutputNext]_outputVars
    PROVE  PathInv' /\ WriterInv'
<1>1. CASE PathNext
  <2>1. PathInv'
        BY <1>1, PathKeeps
  <2>2. UNCHANGED writerVars
        BY <1>1 DEF PathNext, SetOutputDir, AskedDir, SetFilename, SetPath, SetPathOf, NewParam
  <2> QED BY <2>1, <2>2 DEF writerVars, WriterInv
<1>2. CASE WriterNext
  <2>1. WriterInv'
        BY <1>2, WriterKeeps
  <2>2. UNCHANGED pathVars
        BY <1>2 DEF WriterNext, OpenFile, OpenStream, OpenAgain, WritePage, CloseOutput, outputVars
  <2> QED BY <2>1, <2>2 DEF pathVars, PathInv, PathTypeOK, PathAsAsked, NamePart
<1>3. CASE UNCHANGED outputVars
      BY <1>3 DEF outputVars, pathVars, writerVars, PathInv, PathTypeOK, PathAsAsked, NamePart, WriterInv
<1> QED BY <1>1, <1>2, <1>3 DEF OutputNext

LEMMA OutputInvSafe == PathInv /\ WriterInv => OutputSafe
<1> SUFFICES ASSUME PathInv, WriterInv PROVE PathAsAsked /\ PageFilesClosed
    BY DEF OutputSafe
<1>1. content # <<>> => Head(content) = content[1]
      BY DEF WriterInv
<1> QED BY <1>1 DEF PathInv, PageFilesClosed, WriterInv

\* In whatever order the setters are called, whatever names they are given and
\* whichever of them overflow: a part that the client reads is the one that was
\* asked for last, or a call that was to write it has returned -1, or set_dir has
\* lost it and returned 0; a directory that differs was cut off, or is the name
\* of a path without one.  Every file that the writer opened is closed again with
\* one end.
THEOREM OutputIsSafe == OutputSpec => []OutputSafe
<1>1. OutputInit => PathInv /\ WriterInv
      BY PathInitInv, WriterInitInv
<1>2. PathInv /\ WriterInv /\ [OutputNext]_outputVars => (PathInv /\ WriterInv)'
      BY OutputNextKeeps
<1> QED BY <1>1, <1>2, OutputInvSafe, PTL DEF OutputSpec

-----------------------------------------------------------------------------
(* Containers, the lists.  The memory agrees with the sequence element by   *)
(* element up to num, and has room for them; what lies behind is free.      *)

Cells == Elems \cup {Zero}

ListInv ==
    /\ memp \in Seq(Cells) /\ num \in Nat /\ num <= maxnum
    /\ contents \in Seq(Cells) /\ Len(contents) = num
    /\ overrun \in BOOLEAN
    /\ \A j \in 1 .. num : contents[j] = memp[j]

\* A step that leaves memory for m elements, the first of them as the sequence has them.
LEMMA ListKept ==
    ASSUME NEW m \in Nat, memp' \in [1 .. m + 1 -> Cells], num' \in Nat, num' <= m,
           contents' \in Seq(Cells), Len(contents') = num', overrun' \in BOOLEAN,
           \A j \in 1 .. num' : contents'[j] = memp'[j]
    PROVE  ListInv'
<1>1. memp' \in Seq(Cells) /\ Len(memp') = m + 1 /\ memp' # <<>>
      OBVIOUS
<1>2. maxnum' = m
      BY <1>1 DEF maxnum
<1> QED BY <1>1, <1>2 DEF ListInv

\* What the memory is: with room for maxnum elements, or none at all.
LEMMA MemoryOfList ==
    ASSUME ListInv
    PROVE  /\ maxnum \in Nat
           /\ memp # <<>> => memp \in [1 .. maxnum + 1 -> Cells]
           /\ memp = <<>> => num = 0
<1>1. memp \in [1 .. Len(memp) -> Cells] /\ Len(memp) \in Nat /\ (memp # <<>> => Len(memp) # 0)
      BY DEF ListInv
<1> QED BY <1>1 DEF ListInv, maxnum

\* The list t is s with e put before its i-th element.
HasInserted(s, i, e, t) ==
    /\ t \in Seq(Cells) /\ Len(t) = Len(s) + 1
    /\ \A j \in 1 .. Len(s) + 1 : t[j] = IF j < i THEN s[j] ELSE IF j = i THEN e ELSE s[j - 1]

LEMMA InsertedAt ==
    ASSUME NEW s \in Seq(Cells), NEW i \in 1 .. Len(s), NEW e \in Cells
    PROVE  HasInserted(s, i, e, InsertAt(s, i, e))
<1> DEFINE front == SubSeq(s, 1, i - 1)
           back == SubSeq(s, i, Len(s))
<1>1. /\ front \in Seq(Cells) /\ Len(front) = i - 1 /\ \A j \in 1 .. i - 1 : front[j] = s[j]
      /\ back \in Seq(Cells) /\ Len(back) = Len(s) - i + 1
      /\ \A j \in 1 .. Len(s) - i + 1 : back[j] = s[i + j - 1]
      OBVIOUS
<1> HIDE DEF front, back
<1> DEFINE head == front \o <<e>>
<1>2. /\ head \in Seq(Cells) /\ Len(head) = i
      /\ \A j \in 1 .. i : head[j] = IF j < i THEN s[j] ELSE e
      BY <1>1
<1> HIDE DEF head
<1>3. /\ head \o back \in Seq(Cells) /\ Len(head \o back) = Len(s) + 1
      /\ \A j \in 1 .. Len(s) + 1 : (head \o back)[j] = IF j <= i THEN head[j] ELSE back[j - i]
  <2> DEFINE n == Len(s) - i + 1
  <2>1. i \in Nat /\ n \in Nat /\ i + n = Len(s) + 1 /\ Len(back) = n
    <3>1. Len(back) = n
          BY <1>1
    <3> QED BY <3>1
  <2> HIDE DEF n
  <2>2. /\ head \o back \in Seq(Cells) /\ Len(head \o back) = i + n
        /\ \A j \in 1 .. i + n : (head \o back)[j] = IF j <= i THEN head[j] ELSE back[j - i]
    <3>1. head \in Seq(Cells) /\ back \in Seq(Cells) /\ Len(head) = i
          BY <1>1, <1>2
    <3> QED BY <2>1, <3>1
  <2> QED BY <2>1, <2>2
<1>4. \A j \in 1 .. Len(s) + 1 : j > i => back[j - i] = s[j - 1]
  <2> SUFFICES ASSUME NEW j \in 1 .. Len(s) + 1, j > i PROVE back[j - i] = s[j - 1]
      OBVIOUS
  <2>1. j - i \in 1 .. Len(s) - i + 1 /\ i + (j - i) - 1 = j - 1
        OBVIOUS
  <2> QED BY <1>1, <2>1
<1>5. HasInserted(s, i, e, head \o back)
  BY <1>2, <1>3, <1>4 DEF HasInserted
<1>6. InsertAt(s, i, e) = head \o back
  BY DEF InsertAt, head, front, back
<1> QED BY <1>5, <1>6

LEMMA RemovedAt ==
    ASSUME NEW E, NEW s \in Seq(E), NEW i \in 1 .. Len(s)
    PROVE  /\ RemoveAt(s, i) \in Seq(E) /\ Len(RemoveAt(s, i)) = Len(s) - 1
           /\ \A j \in 1 .. Len(s) - 1 : RemoveAt(s, i)[j] = IF j < i THEN s[j] ELSE s[j + 1]
<1> DEFINE front == SubSeq(s, 1, i - 1)
           back == SubSeq(s, i + 1, Len(s))
<1>1. /\ front \in Seq(E) /\ Len(front) = i - 1 /\ \A j \in 1 .. i - 1 : front[j] = s[j]
      /\ back \in Seq(E) /\ Len(back) = Len(s) - i
      /\ \A j \in 1 .. Len(s) - i : back[j] = s[i + j]
      OBVIOUS
<1> HIDE DEF front, back
<1>2. /\ front \o back \in Seq(E) /\ Len(front \o back) = Len(s) - 1
      /\ \A j \in 1 .. Len(s) - 1 : (front \o back)[j] = IF j < i THEN front[j] ELSE back[j - (i - 1)]
  <2> DEFINE m == i - 1
             n == Len(s) - i
  <2>1. m \in Nat /\ n \in Nat /\ m + n = Len(s) - 1 /\ Len(front) = m /\ Len(back) = n
        BY <1>1
  <2>2. \A j \in 1 .. Len(s) - 1 : j <= m <=> j < i
        OBVIOUS
  <2>3. m = i - 1
        OBVIOUS
  <2> HIDE DEF m, n
  <2>4. /\ front \o back \in Seq(E) /\ Len(front \o back) = m + n
        /\ \A j \in 1 .. m + n : (front \o back)[j] = IF j <= m THEN front[j] ELSE back[j - m]
    <3>1. front \in Seq(E) /\ back \in Seq(E)
          BY <1>1
    <3>2. /\ front \o back \in Seq(E) /\ Len(front \o back) = Len(front) + Len(back)
          /\ \A j \in 1 .. Len(front) + Len(back) :
               (front \o back)[j] = IF j <= Len(front) THEN front[j] ELSE back[j - Len(front)]
          BY <3>1, ConcatProperties
    <3> QED BY <2>1, <3>2
  <2> QED BY <2>1, <2>2, <2>3, <2>4
<1>3. \A j \in 1 .. Len(s) - 1 : j >= i => back[j - (i - 1)] = s[j + 1]
  <2> SUFFICES ASSUME NEW j \in 1 .. Len(s) - 1, j >= i PROVE back[j - (i - 1)] = s[j + 1]
      OBVIOUS
  <2>1. j - (i - 1) \in 1 .. Len(s) - i /\ i + (j - (i - 1)) = j + 1
        OBVIOUS
  <2> QED BY <1>1, <2>1
<1>4. RemoveAt(s, i) = front \o back
      BY DEF RemoveAt, front, back
<1>5. \A j \in 1 .. Len(s) - 1 : j < i => j \in 1 .. i - 1
      OBVIOUS
<1>6. \A j \in 1 .. Len(s) - 1 : (front \o back)[j] = IF j < i THEN s[j] ELSE s[j + 1]
  <2> SUFFICES ASSUME NEW j \in 1 .. Len(s) - 1
               PROVE  (front \o back)[j] = IF j < i THEN s[j] ELSE s[j + 1]
      OBVIOUS
  <2>1. CASE j < i
        BY <1>1, <1>2, <1>5, <2>1
  <2>2. CASE ~(j < i)
        BY <1>2, <1>3, <2>2
  <2> QED BY <2>1, <2>2
<1> QED BY <1>2, <1>4, <1>6

\* Growing leaves room for one element more and keeps what is there.
LEMMA GrownHolds ==
    ASSUME ListInv
    PROVE  \E m \in Nat : /\ Grown(num + 1) \in [1 .. m + 1 -> Cells] /\ num + 1 <= m
                          /\ \A j \in 1 .. num : Grown(num + 1)[j] = memp[j]
<1> USE ContainersAssumption
<1>0. num \in Nat /\ num <= maxnum
      BY DEF ListInv
<1>1. CASE memp = <<>>
  <2>1. num = 0 /\ InitSize \in Nat /\ InitSize >= 1
        BY <1>1, MemoryOfList
  <2>2. Grown(num + 1) = Zeros(InitSize) /\ Zeros(InitSize) \in [1 .. InitSize + 1 -> Cells]
        BY <1>1 DEF Grown, Zeros, Cells
  <2> QED BY <2>1, <2>2
<1>2. CASE memp # <<>> /\ num + 1 <= maxnum
      BY <1>2, MemoryOfList DEF Grown
<1>3. CASE memp # <<>> /\ ~(num + 1 <= maxnum)
  <2> DEFINE grown == [i \in 1 .. maxnum + GrowSize + 1 |-> IF i < num + 1 THEN memp[i] ELSE Zero]
  <2>1. maxnum \in Nat /\ memp \in [1 .. maxnum + 1 -> Cells]
        BY <1>3, MemoryOfList
  <2>2. Grown(num + 1) = grown
        BY <1>3 DEF Grown
  <2>3. grown \in [1 .. maxnum + GrowSize + 1 -> Cells]
    <3> SUFFICES ASSUME NEW i \in 1 .. maxnum + GrowSize + 1
                 PROVE  (IF i < num + 1 THEN memp[i] ELSE Zero) \in Cells
        OBVIOUS
    <3>1. i < num + 1 => i \in 1 .. maxnum + 1
          BY <1>0, <2>1
    <3> QED BY <2>1, <3>1 DEF Cells
  <2>4. maxnum + GrowSize \in Nat /\ num + 1 <= maxnum + GrowSize
        BY <1>0, <2>1
  <2>5. \A j \in 1 .. num : grown[j] = memp[j]
        BY <1>0, <2>1, <2>4
  <2> HIDE DEF grown
  <2> QED BY <2>2, <2>3, <2>4, <2>5
<1> QED BY <1>1, <1>2, <1>3

LEMMA ListAddKeeps ==
    ASSUME ListInv, NEW v \in Elems, ListAdd(v)
    PROVE  ListInv'
<1> DEFINE grown == Grown(num + 1)
<1>1. PICK m \in Nat : /\ grown \in [1 .. m + 1 -> Cells] /\ num + 1 <= m
                       /\ \A j \in 1 .. num : grown[j] = memp[j]
      BY GrownHolds
<1>2. /\ num \in Nat /\ num' = num + 1 /\ overrun' = overrun /\ overrun \in BOOLEAN
      /\ memp' = [grown EXCEPT ![num + 1] = v]
      BY DEF ListAdd, ListInv
<1>3. /\ contents' \in Seq(Cells) /\ Len(contents') = num + 1
      /\ contents'[num + 1] = v /\ \A j \in 1 .. num : contents'[j] = contents[j]
  <2>1. /\ contents \in Seq(Cells) /\ Len(contents) = num /\ v \in Cells
        /\ contents' = Append(contents, v)
        BY DEF ListAdd, ListInv, Cells
  <2> QED BY <1>2, <2>1
<1> HIDE DEF grown
<1>4. /\ memp' \in [1 .. m + 1 -> Cells]
      /\ memp'[num + 1] = v /\ \A j \in 1 .. num : memp'[j] = memp[j]
      BY <1>1, <1>2 DEF Cells
<1>5. \A j \in 1 .. num' : contents'[j] = memp'[j]
      BY <1>2, <1>3, <1>4 DEF ListInv
<1>6. /\ num' \in Nat /\ num' <= m /\ contents' \in Seq(Cells) /\ Len(contents') = num'
      /\ overrun' \in BOOLEAN
      BY <1>1, <1>2, <1>3
<1> QED BY <1>4, <1>5, <1>6, ListKept

LEMMA ListInsKeeps ==
    ASSUME ListInv, NEW v \in Elems, NEW i \in Nat, ListIns(i, v)
    PROVE  ListInv'
<1>1. /\ 0 < i /\ i < num /\ num + 1 <= maxnum /\ num \in Nat /\ num' = num + 1
      /\ memp' = [InsMoves(i) EXCEPT ![i + 1] = v] /\ overrun' = overrun /\ overrun \in BOOLEAN
      BY DEF ListIns, ListInv
<1>2. maxnum \in Nat /\ memp \in [1 .. maxnum + 1 -> Cells]
      BY <1>1, MemoryOfList
<1>3. /\ contents' \in Seq(Cells) /\ Len(contents') = num + 1
      /\ \A j \in 1 .. num + 1 :
           contents'[j] = IF j < i + 1 THEN contents[j] ELSE IF j = i + 1 THEN v ELSE contents[j - 1]
  <2> DEFINE k == i + 1
  <2>1. contents \in Seq(Cells) /\ k \in 1 .. Len(contents) /\ Len(contents) = num
        BY <1>1 DEF ListInv
  <2>2. contents' = InsertAt(contents, k, v)
        BY DEF ListIns
  <2> HIDE DEF k
  <2>3. /\ contents' \in Seq(Cells) /\ Len(contents') = num + 1
        /\ \A j \in 1 .. num + 1 :
             contents'[j] = IF j < k THEN contents[j] ELSE IF j = k THEN v ELSE contents[j - 1]
    <3>1. HasInserted(contents, k, v, contents')
      <4>1. v \in Cells
            BY DEF Cells
      <4> QED BY <2>1, <2>2, <4>1, InsertedAt
    <3> QED BY <2>1, <3>1 DEF HasInserted
  <2> QED BY <2>3 DEF k
<1>4. /\ InsMoves(i) \in [1 .. maxnum + 1 -> Cells]
      /\ \A j \in 1 .. maxnum + 1 :
           InsMoves(i)[j] = IF i + 1 < j /\ j <= num + 1 THEN memp[j - 1] ELSE memp[j]
  <2>1. \A j \in 1 .. maxnum + 1 : i + 1 < j => j - 1 \in 1 .. maxnum + 1
        BY <1>1, <1>2
  <2>2. DOMAIN memp = 1 .. maxnum + 1
        BY <1>2
  <2> QED BY <1>2, <2>1, <2>2 DEF InsMoves
<1>5. /\ memp' \in [1 .. maxnum + 1 -> Cells]
      /\ \A j \in 1 .. num + 1 :
           memp'[j] = IF j < i + 1 THEN memp[j] ELSE IF j = i + 1 THEN v ELSE memp[j - 1]
      BY <1>1, <1>2, <1>4 DEF Cells
<1>6. \A j \in 1 .. num' : contents'[j] = memp'[j]
  <2> SUFFICES ASSUME NEW j \in 1 .. num + 1 PROVE contents'[j] = memp'[j]
      BY <1>1
  <2>1. \A k \in 1 .. num : contents[k] = memp[k]
        BY DEF ListInv
  <2>2. CASE j < i + 1
    <3>1. j \in 1 .. num
          BY <1>1, <2>2
    <3> QED BY <1>3, <1>5, <2>1, <2>2, <3>1
  <2>3. CASE j = i + 1
        BY <1>1, <1>3, <1>5, <2>3
  <2>4. CASE i + 1 < j
    <3>1. j - 1 \in 1 .. num /\ ~(j < i + 1) /\ j # i + 1
          BY <1>1, <2>4
    <3>2. contents'[j] = contents[j - 1] /\ memp'[j] = memp[j - 1]
          BY <1>3, <1>5, <3>1
    <3> QED BY <2>1, <3>1, <3>2
  <2> QED BY <1>1, <2>2, <2>3, <2>4
<1>7. num' \in Nat /\ num' <= maxnum /\ Len(contents') = num' /\ overrun' \in BOOLEAN
      BY <1>1, <1>3
<1> QED BY <1>2, <1>3, <1>5, <1>6, <1>7, ListKept

\* What InsertedGrowing makes of a sequence, element by element.
LEMMA InsertedGrowingIs ==
    ASSUME NEW s \in Seq(Cells), NEW i \in Nat, 0 < i, i < Len(s), NEW v \in Elems
    PROVE  /\ InsertedGrowing(s, i, v) \in Seq(Cells) /\ Len(InsertedGrowing(s, i, v)) = Len(s) + 1
           /\ \A j \in 1 .. Len(s) + 1 : InsertedGrowing(s, i, v)[j] =
                IF j < i THEN s[j] ELSE IF j = i THEN v ELSE IF j <= Len(s) THEN s[j - 1] ELSE Zero
<1> DEFINE front == Front(s)
<1>1. /\ front \in Seq(Cells) /\ Len(front) = Len(s) - 1 /\ \A j \in 1 .. Len(s) - 1 : front[j] = s[j]
      BY DEF Front
<1> HIDE DEF front
<1>2. i \in 1 .. Len(front) /\ v \in Cells
      BY <1>1 DEF Cells
<1> DEFINE mid == InsertAt(front, i, v)
<1>3. HasInserted(front, i, v, mid)
      BY <1>1, <1>2, InsertedAt
<1> HIDE DEF mid
<1>4. /\ mid \in Seq(Cells) /\ Len(mid) = Len(s)
      /\ \A j \in 1 .. Len(s) : mid[j] = IF j < i THEN front[j] ELSE IF j = i THEN v ELSE front[j - 1]
      BY <1>1, <1>3 DEF HasInserted
<1>5. \A j \in 1 .. Len(s) : mid[j] = IF j < i THEN s[j] ELSE IF j = i THEN v ELSE s[j - 1]
  <2> SUFFICES ASSUME NEW j \in 1 .. Len(s)
               PROVE  mid[j] = IF j < i THEN s[j] ELSE IF j = i THEN v ELSE s[j - 1]
      OBVIOUS
  <2>1. j < i => j \in 1 .. Len(s) - 1
        OBVIOUS
  <2>2. ~(j < i) /\ j # i => j - 1 \in 1 .. Len(s) - 1
        OBVIOUS
  <2> QED BY <1>1, <1>4, <2>1, <2>2
<1>6. InsertedGrowing(s, i, v) = Append(mid, Zero)
      BY DEF InsertedGrowing, mid, front
<1>7. /\ Append(mid, Zero) \in Seq(Cells) /\ Len(Append(mid, Zero)) = Len(s) + 1
      /\ Append(mid, Zero)[Len(s) + 1] = Zero
      /\ \A j \in 1 .. Len(s) : Append(mid, Zero)[j] = mid[j]
      BY <1>4 DEF Cells
<1> HIDE DEF mid
<1>8. ASSUME NEW j \in 1 .. Len(s) + 1
      PROVE  Append(mid, Zero)[j] =
               IF j < i THEN s[j] ELSE IF j = i THEN v ELSE IF j <= Len(s) THEN s[j - 1] ELSE Zero
  <2>1. CASE j \in 1 .. Len(s)
    <3>1. j <= Len(s) /\ Append(mid, Zero)[j] = mid[j]
          BY <1>7, <2>1
    <3> QED BY <1>5, <2>1, <3>1
  <2>2. CASE j = Len(s) + 1
    <3>1. ~(j < i) /\ j # i /\ ~(j <= Len(s)) /\ Append(mid, Zero)[j] = Zero
          BY <1>7, <2>2
    <3> QED BY <3>1
  <2>3. j \in 1 .. Len(s) \/ j = Len(s) + 1
    <3>1. Len(s) \in Nat
          OBVIOUS
    <3> QED BY <3>1
  <2> QED BY <2>1, <2>2, <2>3
<1> QED BY <1>6, <1>7, <1>8

LEMMA ListInsGrowsKeeps ==
    ASSUME ListInv, NEW v \in Elems, NEW i \in Nat, ListInsGrows(i, v)
    PROVE  ListInv'
<1> DEFINE moved == InsGrown(i, v)
<1>1. /\ 0 < i /\ i < num /\ num + 1 > maxnum /\ num <= maxnum /\ num \in Nat
      /\ num' = num + 1 /\ overrun' = overrun /\ overrun \in BOOLEAN /\ memp' = moved
      BY DEF ListInsGrows, ListInv
<1>2. maxnum \in Nat /\ memp \in [1 .. maxnum + 1 -> Cells] /\ GrowSize \in Nat \ {0}
      BY <1>1, MemoryOfList, ContainersAssumption
<1>3. /\ contents' \in Seq(Cells) /\ Len(contents') = num + 1
      /\ \A j \in 1 .. num + 1 : contents'[j] =
           IF j < i THEN contents[j] ELSE IF j = i THEN v ELSE IF j <= num THEN contents[j - 1] ELSE Zero
  <2>1. contents \in Seq(Cells) /\ Len(contents) = num
        BY <1>1 DEF ListInv
  <2>2. contents' = InsertedGrowing(contents, i, v)
        BY DEF ListInsGrows
  <2>3. 0 < i /\ i < Len(contents)
        BY <1>1, <2>1
  <2>4. /\ contents' \in Seq(Cells) /\ Len(contents') = Len(contents) + 1
        /\ \A j \in 1 .. Len(contents) + 1 : contents'[j] =
             IF j < i THEN contents[j] ELSE IF j = i THEN v
             ELSE IF j <= Len(contents) THEN contents[j - 1] ELSE Zero
        BY <2>1, <2>2, <2>3, InsertedGrowingIs
  <2> QED BY <2>1, <2>4
<1>4. moved \in [1 .. maxnum + GrowSize + 1 -> Cells]
  <2> SUFFICES ASSUME NEW j \in 1 .. maxnum + GrowSize + 1
               PROVE  (CASE j < i -> memp[j]
                         [] j = i -> v
                         [] j > i /\ j <= num -> memp[j - 1]
                         [] OTHER -> Zero) \in Cells
      BY DEF InsGrown
  <2>1. (j < i => j \in 1 .. maxnum + 1) /\ (j > i /\ j <= num => j - 1 \in 1 .. maxnum + 1)
        BY <1>1, <1>2
  <2> QED BY <1>1, <1>2, <2>1 DEF Cells
<1>5. maxnum + GrowSize \in Nat /\ num + 1 <= maxnum + GrowSize
      BY <1>1, <1>2
<1>6. \A j \in 1 .. num + 1 : moved[j] =
           IF j < i THEN memp[j] ELSE IF j = i THEN v ELSE IF j <= num THEN memp[j - 1] ELSE Zero
  <2> SUFFICES ASSUME NEW j \in 1 .. num + 1
               PROVE  moved[j] =
           IF j < i THEN memp[j] ELSE IF j = i THEN v ELSE IF j <= num THEN memp[j - 1] ELSE Zero
      OBVIOUS
  <2>1. j \in 1 .. maxnum + GrowSize + 1
        BY <1>1, <1>2
  <2>2. moved[j] = CASE j < i -> memp[j]
                     [] j = i -> v
                     [] j > i /\ j <= num -> memp[j - 1]
                     [] OTHER -> Zero
        BY <2>1 DEF InsGrown
  <2>3. CASE j < i
        BY <1>1, <2>2, <2>3
  <2>4. CASE j = i
        BY <1>1, <2>2, <2>4
  <2>5. CASE j > i /\ j <= num
        BY <1>1, <2>2, <2>5
  <2>6. CASE ~(j <= num)
        BY <1>1, <2>2, <2>6
  <2> QED BY <1>1, <2>3, <2>4, <2>5, <2>6
<1> HIDE DEF moved
<1>7. \A j \in 1 .. num' : contents'[j] = memp'[j]
  <2> SUFFICES ASSUME NEW j \in 1 .. num + 1 PROVE contents'[j] = moved[j]
      BY <1>1
  <2>1. \A k \in 1 .. num : contents[k] = memp[k]
        BY DEF ListInv
  <2>2. (j < i => j \in 1 .. num) /\ (j # i /\ ~(j < i) => j - 1 \in 1 .. num)
        BY <1>1
  <2> QED BY <1>3, <1>6, <2>1, <2>2
<1>8. num' \in Nat /\ num' <= maxnum + GrowSize /\ Len(contents') = num' /\ overrun' \in BOOLEAN
      BY <1>1, <1>3, <1>5
<1>9. memp' \in [1 .. (maxnum + GrowSize) + 1 -> Cells]
      BY <1>1, <1>4
<1> QED BY <1>3, <1>5, <1>7, <1>8, <1>9, ListKept

LEMMA ListDelKeeps ==
    ASSUME ListInv, NEW i \in Nat, ListDel(i)
    PROVE  ListInv'
<1> DEFINE moved == [j \in 1 .. maxnum + 1 |-> IF i < j /\ j < num THEN memp[j + 1] ELSE memp[j]]
<1>1. /\ i < num /\ num \in Nat /\ num <= maxnum /\ num' = num - 1
      /\ overrun' = overrun /\ overrun \in BOOLEAN
      BY DEF ListDel, ListInv
<1>2. maxnum \in Nat /\ memp \in [1 .. maxnum + 1 -> Cells]
      BY <1>1, MemoryOfList
<1>3. /\ contents' \in Seq(Cells) /\ Len(contents') = num - 1
      /\ \A j \in 1 .. num - 1 : contents'[j] = IF j < i + 1 THEN contents[j] ELSE contents[j + 1]
  <2>1. contents \in Seq(Cells) /\ i + 1 \in 1 .. Len(contents) /\ Len(contents) = num
        BY <1>1 DEF ListInv
  <2> QED BY <2>1, RemovedAt DEF ListDel
<1>4. memp' = moved
  <2>1. DOMAIN memp = 1 .. maxnum + 1
        BY <1>2
  <2> QED BY <2>1 DEF ListDel
<1>5. moved \in [1 .. maxnum + 1 -> Cells]
  <2> SUFFICES ASSUME NEW j \in 1 .. maxnum + 1
               PROVE  (IF i < j /\ j < num THEN memp[j + 1] ELSE memp[j]) \in Cells
      OBVIOUS
  <2>1. j < num => j + 1 \in 1 .. maxnum + 1
        BY <1>1, <1>2
  <2> QED BY <1>2, <2>1
<1>6. \A j \in 1 .. num - 1 : moved[j] = IF i < j THEN memp[j + 1] ELSE memp[j]
      BY <1>1, <1>2
<1> HIDE DEF moved
<1>7. \A j \in 1 .. num' : contents'[j] = memp'[j]
  <2> SUFFICES ASSUME NEW j \in 1 .. num - 1 PROVE contents'[j] = moved[j]
      BY <1>1, <1>4
  <2>1. \A k \in 1 .. num : contents[k] = memp[k]
        BY DEF ListInv
  <2>2. j \in 1 .. num /\ j + 1 \in 1 .. num /\ (i < j <=> ~(j < i + 1))
        BY <1>1
  <2> QED BY <1>1, <1>3, <1>6, <2>1, <2>2
<1>8. num' \in Nat /\ num' <= maxnum /\ Len(contents') = num' /\ overrun' \in BOOLEAN
      BY <1>1, <1>2, <1>3
<1>9. memp' \in [1 .. maxnum + 1 -> Cells]
      BY <1>4, <1>5
<1> QED BY <1>2, <1>3, <1>7, <1>8, <1>9, ListKept

LEMMA ListKeeps ==
    ASSUME ListInv, ListNext
    PROVE  ListInv'
<1>1. CASE ListClean
  <2>1. maxnum' = 0 /\ memp' = <<>> /\ contents' = <<>> /\ num' = 0 /\ overrun' = overrun /\ overrun \in BOOLEAN
        BY <1>1 DEF ListClean, maxnum, ListInv
  <2>2. memp' \in Seq(Cells) /\ contents' \in Seq(Cells) /\ Len(contents') = 0
        BY <2>1
  <2>3. num' \in Nat /\ num' <= maxnum' /\ \A j \in 1 .. num' : contents'[j] = memp'[j]
        BY <2>1
  <2> QED BY <2>1, <2>2, <2>3 DEF ListInv
<1>2. \A i \in 0 .. MaxElems : i \in Nat
      BY ContainersAssumption
<1>3. ASSUME NEW v \in Elems, ListInsFront(v)
      PROVE  ListInv'
      BY <1>3 DEF ListInsFront, ListInv, maxnum
<1> QED BY <1>1, <1>2, <1>3, ListAddKeeps, ListInsKeeps, ListInsGrowsKeeps, ListDelKeeps DEF ListNext

LEMMA ListInvSafe == ListInv => ListIsSequence
<1> SUFFICES ASSUME ListInv PROVE contents = SubSeq(memp, 1, num)
    BY DEF ListIsSequence
<1>1. num \in Nat /\ num <= Len(memp) /\ memp \in Seq(Cells)
      BY MemoryOfList DEF ListInv, maxnum
<1>2. SubSeq(memp, 1, num) = [j \in 1 .. num |-> memp[j]]
      BY <1>1
<1>3. contents = [j \in 1 .. num |-> contents[j]]
      BY DEF ListInv
<1> QED BY <1>2, <1>3 DEF ListInv

-----------------------------------------------------------------------------
(* Containers, the chains.  The rings part the nodes, so that a node's ring *)
(* is also its predecessor's, and each of them is one ring of next.         *)

\* n leads from each node of r to one of r, and through no smaller set.
IsRing(n, r) ==
    /\ \A c \in r : n[c] \in r
    /\ \A s \in SUBSET r : s # {} /\ (\A c \in s : n[c] \in s) => s = r

LinksInverse ==
    /\ next \in [Links -> Links] /\ prev \in [Links -> Links]
    /\ \A c \in Links : prev[next[c]] = c /\ next[prev[c]] = c

RingsPart ==
    /\ rings \subseteq SUBSET Links
    /\ \A c \in Links : \E r \in rings : c \in r
    /\ \A r, s \in rings, c \in Links : c \in r /\ c \in s => r = s

ChainInv ==
    /\ LinksInverse
    /\ RingsPart
    /\ \A r \in rings : IsRing(next, r)

LEMMA RingOfNode ==
    ASSUME ChainInv, NEW c \in Links
    PROVE  /\ RingOf(c) \in rings /\ RingOf(c) \subseteq Links /\ c \in RingOf(c)
           /\ next[c] \in RingOf(c) /\ prev[c] \in RingOf(c)
           /\ \A r \in rings : c \in r => r = RingOf(c)
<1>1. \E r \in rings : c \in r
      BY DEF ChainInv, RingsPart
<1>2. RingOf(c) \in rings /\ c \in RingOf(c)
      BY <1>1 DEF RingOf
<1>3. RingOf(c) \subseteq Links /\ \A r \in rings : c \in r => r = RingOf(c)
      BY <1>2 DEF ChainInv, RingsPart
<1>4. next[c] \in RingOf(c)
      BY <1>2 DEF ChainInv, IsRing
<1>5. prev[c] \in RingOf(c)
  <2>1. prev[c] \in Links /\ next[prev[c]] = c
        BY DEF ChainInv, LinksInverse
  <2>2. PICK q \in rings : prev[c] \in q
        BY <2>1 DEF ChainInv, RingsPart
  <2>3. c \in q
        BY <2>1, <2>2 DEF ChainInv, IsRing
  <2> QED BY <1>3, <2>2, <2>3
<1> QED BY <1>2, <1>3, <1>4, <1>5

\* A ring stays one where its links do not change.
LEMMA RingUntouched ==
    ASSUME NEW n, NEW m, NEW r, IsRing(n, r), \A c \in r : m[c] = n[c]
    PROVE  IsRing(m, r)
BY DEF IsRing

\* A node that is alone is a ring of its own.
LEMMA AloneIsRing ==
    ASSUME ChainInv, NEW p \in Links, IsAlone(p)
    PROVE  RingOf(p) = {p}
<1>1. RingOf(p) \in rings /\ p \in RingOf(p) /\ next[p] = p
      BY RingOfNode DEF IsAlone
<1>2. {p} \in SUBSET RingOf(p) /\ {p} # {} /\ \A c \in {p} : next[c] \in {p}
      BY <1>1
<1> QED BY <1>1, <1>2 DEF ChainInv, IsRing

\* A node put behind c: the ring of c has it between c and what followed.
LEMMA ChainAddNextKeeps ==
    ASSUME ChainInv, NEW c \in Links, NEW p \in Links, ChainAddNext(c, p)
    PROVE  ChainInv'
<1> DEFINE R == RingOf(c)
           n == next[c]
<1>1. /\ R \in rings /\ R \subseteq Links /\ c \in R /\ n \in R
      /\ \A r \in rings : c \in r => r = R
      BY RingOfNode
<1>2. c # p /\ IsAlone(p) /\ next[p] = p /\ prev[p] = p /\ RingOf(p) = {p} /\ {p} \in rings
  <2>1. c # p /\ IsAlone(p)
        BY DEF ChainAddNext
  <2>2. RingOf(p) = {p} /\ RingOf(p) \in rings
        BY <2>1, AloneIsRing, RingOfNode
  <2> QED BY <2>1, <2>2 DEF IsAlone
<1>3. p \notin R /\ n # p /\ n \in Links
  <2>1. p \in R => R = {p}
        BY <1>1, <1>2, RingOfNode
  <2> QED BY <1>1, <1>2, <2>1
<1>4. /\ next' = [next EXCEPT ![c] = p, ![p] = n]
      /\ prev' = [[prev EXCEPT ![p] = c] EXCEPT ![n] = p]
      /\ rings' = (rings \ {R, {p}}) \cup {R \cup {p}}
      BY <1>2 DEF ChainAddNext, Joined
<1> HIDE DEF R
<1>5. \A x \in Links : prev[next[x]] = x /\ next[prev[x]] = x /\ next[x] \in Links /\ prev[x] \in Links
      BY DEF ChainInv, LinksInverse
<1>6. next \in [Links -> Links] /\ prev \in [Links -> Links]
      BY DEF ChainInv, LinksInverse
<1>7. /\ next' \in [Links -> Links] /\ next'[c] = p /\ next'[p] = n
      /\ \A x \in Links : x # c /\ x # p => next'[x] = next[x]
      BY <1>2, <1>3, <1>4, <1>6
<1>8. /\ prev' \in [Links -> Links] /\ prev'[p] = c /\ prev'[n] = p
      /\ \A x \in Links : x # n /\ x # p => prev'[x] = prev[x]
      BY <1>3, <1>4, <1>6
<1>9. prev[n] = c
      BY <1>5
<1> HIDE DEF n
<1>10. LinksInverse'
  <2>1. ASSUME NEW x \in Links
        PROVE  prev'[next'[x]] = x
    <3>1. CASE x # c /\ x # p
      <4>1. next[x] # n /\ next[x] # p /\ next'[x] = next[x]
            BY <1>2, <1>5, <1>7, <1>9, <3>1
      <4> QED BY <1>5, <1>8, <4>1
    <3> QED BY <1>7, <1>8, <3>1
  <2>2. ASSUME NEW x \in Links
        PROVE  next'[prev'[x]] = x
    <3>1. CASE x # n /\ x # p
      <4>1. prev[x] # c /\ prev[x] # p /\ prev'[x] = prev[x]
            BY <1>2, <1>5, <1>8, <3>1 DEF n
      <4> QED BY <1>5, <1>7, <4>1
    <3> QED BY <1>7, <1>8, <3>1
  <2> QED BY <1>7, <1>8, <2>1, <2>2 DEF LinksInverse
<1>11. RingsPart'
  <2>1. rings' \subseteq SUBSET Links
        BY <1>1, <1>4 DEF ChainInv, RingsPart
  <2>2. ASSUME NEW x \in Links
        PROVE  \E r \in rings' : x \in r
    <3>1. PICK r \in rings : x \in r
          BY DEF ChainInv, RingsPart
    <3>2. CASE r = R \/ r = {p}
      <4>1. x \in R \cup {p} /\ R \cup {p} \in rings'
            BY <1>4, <3>1, <3>2
      <4> QED BY <4>1
    <3>3. CASE r # R /\ r # {p}
          BY <1>4, <3>1, <3>3
    <3> QED BY <3>2, <3>3
  <2>3. ASSUME NEW r \in rings', NEW s \in rings', NEW x \in Links, x \in r, x \in s
        PROVE  r = s
    <3>1. \A q \in rings : x \in q /\ (x \in R \/ x = p) => q = R \/ q = {p}
          BY <1>1, <1>2 DEF ChainInv, RingsPart
    <3>2. CASE x \in R \/ x = p
      <4>1. \A q \in rings' : x \in q => q = R \cup {p}
            BY <1>4, <3>1, <3>2
      <4> QED BY <2>3, <4>1
    <3>3. CASE ~(x \in R \/ x = p)
      <4>1. r \in rings /\ s \in rings
            BY <1>4, <2>3, <3>3
      <4> QED BY <2>3, <4>1 DEF ChainInv, RingsPart
    <3> QED BY <3>2, <3>3
  <2> QED BY <2>1, <2>2, <2>3 DEF RingsPart
<1>12. IsRing(next', R \cup {p})
  <2>1. \A x \in R \cup {p} : next'[x] \in R \cup {p}
        BY <1>1, <1>7 DEF ChainInv, IsRing
  <2>2. ASSUME NEW s \in SUBSET (R \cup {p}), s # {}, \A x \in s : next'[x] \in s
        PROVE  s = R \cup {p}
    <3> DEFINE t == s \ {p}
    <3>1. t \in SUBSET R
          OBVIOUS
    <3>2. p \in s => n \in t
          BY <1>3, <1>7, <2>2
    <3>3. t # {}
          BY <2>2, <3>2
    <3>4. ASSUME NEW x \in t
          PROVE  next[x] \in t
      <4>1. CASE x = c
            BY <1>7, <2>2, <3>2, <4>1 DEF n
      <4>2. CASE x # c
        <5>1. next'[x] = next[x] /\ next[x] # p
              BY <1>1, <1>2, <1>5, <1>7, <3>1, <4>2
        <5> QED BY <2>2, <5>1
      <4> QED BY <4>1, <4>2
    <3> HIDE DEF t
    <3>5. t = R
          BY <1>1, <3>1, <3>3, <3>4 DEF ChainInv, IsRing
    <3>6. c \in s /\ p \in s
          BY <1>1, <1>7, <2>2, <3>5 DEF t
    <3> QED BY <3>5, <3>6 DEF t
  <2> QED BY <2>1, <2>2 DEF IsRing
<1>13. ASSUME NEW r \in rings', r # R \cup {p}
       PROVE  IsRing(next', r)
  <2>1. r \in rings /\ r # R /\ r # {p} /\ r \subseteq Links
        BY <1>4, <1>13 DEF ChainInv, RingsPart
  <2>2. c \notin r /\ p \notin r
        BY <1>1, <1>2, <2>1 DEF ChainInv, RingsPart
  <2>3. \A x \in r : next'[x] = next[x]
        BY <1>7, <2>1, <2>2
  <2> QED BY <2>1, <2>3, RingUntouched DEF ChainInv
<1> QED BY <1>10, <1>11, <1>12, <1>13 DEF ChainInv

\* A node put before c is one put behind what was before c.
LEMMA AddPrevIsAddNext ==
    ASSUME ChainInv, NEW c \in Links, NEW p \in Links, ChainAddPrev(c, p)
    PROVE  ChainAddNext(prev[c], p)
<1> DEFINE d == prev[c]
<1>1. c # p /\ IsAlone(p) /\ next[p] = p /\ prev[p] = p
      BY DEF ChainAddPrev, IsAlone
<1>2. /\ next \in [Links -> Links] /\ prev \in [Links -> Links]
      /\ d \in Links /\ next[d] = c /\ prev[c] = d
      BY DEF ChainInv, LinksInverse
<1>3. d # p
      BY <1>1, <1>2
<1>4. RingOf(d) = RingOf(c)
      BY <1>2, RingOfNode
<1>5. /\ prev' = [prev EXCEPT ![c] = p, ![p] = d]
      /\ next' = [[next EXCEPT ![p] = c] EXCEPT ![d] = p]
      /\ rings' = Joined(c, p) /\ UNCHANGED listVars
      BY DEF ChainAddPrev
<1> HIDE DEF d
<1>6. [next EXCEPT ![d] = p, ![p] = c] = [[next EXCEPT ![p] = c] EXCEPT ![d] = p]
      BY <1>2, <1>3
<1>7. [[prev EXCEPT ![p] = d] EXCEPT ![c] = p] = [prev EXCEPT ![c] = p, ![p] = d]
      BY <1>1, <1>2
<1>8. Joined(d, p) = Joined(c, p)
      BY <1>4 DEF Joined
<1>9. ChainAddNext(d, p)
      BY <1>1, <1>2, <1>3, <1>5, <1>6, <1>7, <1>8 DEF ChainAddNext
<1> QED BY <1>9 DEF d

\* The neighbours of c close up around it.
LEMMA ChainRemoveKeeps ==
    ASSUME ChainInv, NEW c \in Links, ChainRemove(c)
    PROVE  ChainInv'
<1> DEFINE R == RingOf(c)
           a == prev[c]
           b == next[c]
<1>1. /\ R \in rings /\ R \subseteq Links /\ c \in R /\ b \in R /\ a \in R
      /\ \A r \in rings : c \in r => r = R
      BY RingOfNode
<1>2. \A x \in Links : prev[next[x]] = x /\ next[prev[x]] = x /\ next[x] \in Links /\ prev[x] \in Links
      BY DEF ChainInv, LinksInverse
<1>3. next \in [Links -> Links] /\ prev \in [Links -> Links]
      BY DEF ChainInv, LinksInverse
<1>4. next[a] = c /\ prev[b] = c /\ next[c] = b /\ prev[c] = a /\ a \in Links /\ b \in Links
      BY <1>2
<1>5. /\ prev' = [[prev EXCEPT ![b] = a] EXCEPT ![c] = c]
      /\ next' = [[next EXCEPT ![a] = b] EXCEPT ![c] = c]
      /\ rings' = (rings \ {R}) \cup ({R \ {c}, {c}} \ {{}})
      BY DEF ChainRemove
<1> HIDE DEF R, a, b
<1>6. /\ next' \in [Links -> Links] /\ next'[c] = c /\ (a # c => next'[a] = b)
      /\ \A x \in Links : x # a /\ x # c => next'[x] = next[x]
      BY <1>3, <1>4, <1>5
<1>7. /\ prev' \in [Links -> Links] /\ prev'[c] = c /\ (b # c => prev'[b] = a)
      /\ \A x \in Links : x # b /\ x # c => prev'[x] = prev[x]
      BY <1>3, <1>4, <1>5
<1>8. a = c <=> b = c
      BY <1>4
<1>9. LinksInverse'
  <2>1. ASSUME NEW x \in Links
        PROVE  prev'[next'[x]] = x
    <3>1. CASE x # c /\ x # a
      <4>1. next[x] # b /\ next[x] # c /\ next'[x] = next[x]
            BY <1>2, <1>4, <1>6, <3>1
      <4> QED BY <1>2, <1>7, <4>1
    <3> QED BY <1>6, <1>7, <1>8, <3>1
  <2>2. ASSUME NEW x \in Links
        PROVE  next'[prev'[x]] = x
    <3>1. CASE x # c /\ x # b
      <4>1. prev[x] # a /\ prev[x] # c /\ prev'[x] = prev[x]
            BY <1>2, <1>4, <1>7, <3>1
      <4> QED BY <1>2, <1>6, <4>1
    <3> QED BY <1>6, <1>7, <1>8, <3>1
  <2> QED BY <1>6, <1>7, <2>1, <2>2 DEF LinksInverse
<1>10. RingsPart'
  <2>1. rings' \subseteq SUBSET Links
        BY <1>1, <1>5 DEF ChainInv, RingsPart
  <2>2. ASSUME NEW x \in Links
        PROVE  \E r \in rings' : x \in r
    <3>1. PICK r \in rings : x \in r
          BY DEF ChainInv, RingsPart
    <3>2. CASE x = c
          BY <1>5, <3>2
    <3>3. CASE x # c /\ r = R
          BY <1>5, <3>1, <3>3
    <3>4. CASE r # R
          BY <1>5, <3>1, <3>4
    <3> QED BY <3>2, <3>3, <3>4
  <2>3. ASSUME NEW r \in rings', NEW s \in rings', NEW x \in Links, x \in r, x \in s
        PROVE  r = s
    <3>1. \A q \in rings : x \in q /\ x \in R => q = R
          BY <1>1 DEF ChainInv, RingsPart
    <3>2. CASE x \in R
      <4>1. \A q \in rings' : x \in q => q = IF x = c THEN {c} ELSE R \ {c}
            BY <1>5, <3>1, <3>2
      <4> QED BY <2>3, <4>1
    <3>3. CASE x \notin R
      <4>1. r \in rings /\ s \in rings
            BY <1>1, <1>5, <2>3, <3>3
      <4> QED BY <2>3, <4>1 DEF ChainInv, RingsPart
    <3> QED BY <3>2, <3>3
  <2> QED BY <2>1, <2>2, <2>3 DEF RingsPart
<1>11. IsRing(next', {c})
      BY <1>6 DEF IsRing
<1>12. ASSUME R \ {c} # {}
       PROVE  IsRing(next', R \ {c})
  <2>1. a # c /\ b # c
    <3>1. ASSUME b = c
          PROVE  R = {c}
      <4>1. {c} \in SUBSET R /\ {c} # {} /\ \A x \in {c} : next[x] \in {c}
            BY <1>1, <1>4, <3>1
      <4> QED BY <1>1, <4>1 DEF ChainInv, IsRing
    <3> QED BY <1>8, <1>12, <3>1
  <2>2. ASSUME NEW x \in R \ {c}
        PROVE  next'[x] \in R \ {c}
    <3>1. CASE x = a
          BY <1>1, <1>6, <2>1, <3>1
    <3>2. CASE x # a
      <4>1. x \in Links /\ next'[x] = next[x] /\ next[x] # c /\ next[x] \in R
            BY <1>1, <1>2, <1>4, <1>6, <3>2 DEF ChainInv, IsRing
      <4> QED BY <4>1
    <3> QED BY <3>1, <3>2
  <2>3. ASSUME NEW s \in SUBSET (R \ {c}), s # {}, \A x \in s : next'[x] \in s
        PROVE  s = R \ {c}
    <3>1. CASE a \in s
      <4> DEFINE t == s \cup {c}
      <4>1. t \in SUBSET R /\ t # {}
            BY <1>1
      <4>2. ASSUME NEW x \in t
            PROVE  next[x] \in t
        <5>1. CASE x = a
              BY <1>4, <5>1
        <5>2. CASE x = c
              BY <1>4, <1>6, <2>1, <2>3, <3>1, <5>2
        <5>3. CASE x # a /\ x # c
              BY <1>1, <1>6, <2>3, <4>1, <5>3
        <5> QED BY <5>1, <5>2, <5>3
      <4> HIDE DEF t
      <4>3. t = R
            BY <1>1, <4>1, <4>2 DEF ChainInv, IsRing
      <4> QED BY <4>3 DEF t
    <3>2. CASE a \notin s
      <4>1. \A x \in s : next[x] \in s
            BY <1>1, <1>6, <2>3, <3>2
      <4>2. s \in SUBSET R
            OBVIOUS
      <4>3. s = R
            BY <1>1, <2>3, <4>1, <4>2 DEF ChainInv, IsRing
      <4> QED BY <1>1, <3>2, <4>3
    <3> QED BY <3>1, <3>2
  <2> QED BY <2>2, <2>3 DEF IsRing
<1>13. ASSUME NEW r \in rings, r # R
       PROVE  IsRing(next', r)
  <2>1. r \subseteq Links /\ c \notin r /\ a \notin r
        BY <1>1, <1>13 DEF ChainInv, RingsPart
  <2>2. \A x \in r : next'[x] = next[x]
        BY <1>6, <2>1
  <2> QED BY <2>2, RingUntouched DEF ChainInv
<1>14. \A r \in rings' : IsRing(next', r)
      BY <1>5, <1>11, <1>12, <1>13
<1> QED BY <1>9, <1>10, <1>14 DEF ChainInv

LEMMA ChainKeeps ==
    ASSUME ChainInv, ChainNext
    PROVE  ChainInv'
<1>1. ASSUME NEW c \in Links, NEW p \in Links, ChainAddPrev(c, p)
      PROVE  ChainInv'
  <2>1. prev[c] \in Links /\ ChainAddNext(prev[c], p)
        BY <1>1, AddPrevIsAddNext DEF ChainInv, LinksInverse
  <2> QED BY <2>1, ChainAddNextKeeps
<1> QED BY <1>1, ChainAddNextKeeps, ChainRemoveKeeps DEF ChainNext

-----------------------------------------------------------------------------
(* Containers, lists and chains.                                           *)

LEMMA ContainersInitInv == ContainersInit => ListInv /\ ChainInv
<1> SUFFICES ASSUME ContainersInit PROVE ListInv /\ ChainInv
    OBVIOUS
<1>1. ListInv
  <2>1. memp = <<>> /\ num = 0 /\ contents = <<>> /\ overrun = FALSE /\ maxnum = 0
        BY DEF ContainersInit, maxnum
  <2>2. memp \in Seq(Cells) /\ contents \in Seq(Cells) /\ Len(contents) = 0
        BY <2>1
  <2>3. num \in Nat /\ num <= maxnum /\ \A j \in 1 .. num : contents[j] = memp[j]
        BY <2>1
  <2> QED BY <2>1, <2>2, <2>3 DEF ListInv
<1>2. ChainInv
  <2>1. LinksInverse
        BY DEF ContainersInit, LinksInverse
  <2>2. rings = {{c} : c \in Links}
        BY DEF ContainersInit
  <2>3. RingsPart
    <3>1. \A r \in rings : \E c \in Links : r = {c}
          BY <2>2
    <3>2. \A c \in Links : {c} \in rings
          BY <2>2
    <3>3. rings \subseteq SUBSET Links
          BY <3>1
    <3>4. \A c \in Links : \E r \in rings : c \in r
          BY <3>2
    <3>5. \A r, s \in rings, c \in Links : c \in r /\ c \in s => r = s
      <4>1. \A r \in rings, c \in Links : c \in r => r = {c}
            BY <3>1
      <4> QED BY <4>1
    <3> QED BY <3>3, <3>4, <3>5 DEF RingsPart
  <2>4. ASSUME NEW r \in rings
        PROVE  IsRing(next, r)
    <3>1. PICK c \in Links : r = {c}
          BY <2>2
    <3>2. next[c] = c
          BY DEF ContainersInit
    <3> QED BY <3>1, <3>2 DEF IsRing
  <2> QED BY <2>1, <2>3, <2>4 DEF ChainInv
<1> QED BY <1>1, <1>2

LEMMA ContainersNextKeeps ==
    ASSUME ListInv, ChainInv, [ContainersNext]_containerVars
    PROVE  ListInv' /\ ChainInv'
<1>1. CASE ListNext
  <2>1. ListInv'
        BY <1>1, ListKeeps
  <2>2. UNCHANGED chainVars
        BY <1>1 DEF ListNext, ListAdd, ListIns, ListInsGrows, ListInsFront, ListDel, ListClean
  <2> QED BY <2>1, <2>2 DEF chainVars, ChainInv, LinksInverse, RingsPart
<1>2. CASE ChainNext
  <2>1. ChainInv'
        BY <1>2, ChainKeeps
  <2>2. UNCHANGED listVars
        BY <1>2 DEF ChainNext, ChainAddNext, ChainAddPrev, ChainRemove
  <2> QED BY <2>1, <2>2 DEF listVars, ListInv, maxnum
<1>3. CASE UNCHANGED containerVars
      BY <1>3 DEF containerVars, listVars, chainVars, ListInv, maxnum, ChainInv, LinksInverse, RingsPart
<1> QED BY <1>1, <1>2, <1>3 DEF ContainersNext

LEMMA ContainersInvSafe == ListInv /\ ChainInv => ContainersSafe
<1> SUFFICES ASSUME ListInv, ChainInv PROVE ContainersTypeOK /\ ListIsSequence /\ RingsClosed
    BY DEF ContainersSafe
<1>1. ContainersTypeOK
      BY DEF ContainersTypeOK, ListInv, Cells, ChainInv, LinksInverse, RingsPart
<1>2. RingsClosed
      BY DEF RingsClosed, ChainInv, LinksInverse, IsRing
<1> QED BY <1>1, <1>2, ListInvSafe

\* A list of whatever length is, element by element, the sequence that its calls
\* make - adding, removing, inserting where there is room, and what InsertedGrowing
\* says (not what was asked for) where there is none - and the rings of any set of
\* nodes stay whole and apart, through every sequence of calls.
THEOREM ContainersAreSafe == ContainersSpec => []ContainersSafe
<1>1. ListInv /\ ChainInv /\ [ContainersNext]_containerVars => (ListInv /\ ChainInv)'
      BY ContainersNextKeeps
<1> QED BY <1>1, ContainersInitInv, ContainersInvSafe, PTL DEF ContainersSpec

-----------------------------------------------------------------------------
(* Values, the memory.  The count of every block, used or not, is at least  *)
(* the number of its users.                                                 *)

StorageInv ==
    /\ handle \in [Handles -> Blocks \cup {NoBlock, "gone"}]
    /\ reference \in [Blocks -> Nat]
    /\ \A b \in Blocks : reference[b] >= Users(b)

UsersOf(b) == {h \in Handles : handle[h] = b}

LEMMA UsersAreFinite == \A b : IsFiniteSet(UsersOf(b)) /\ Users(b) = Cardinality(UsersOf(b)) /\ Users(b) \in Nat
<1> SUFFICES ASSUME NEW b
             PROVE  IsFiniteSet(UsersOf(b)) /\ Users(b) = Cardinality(UsersOf(b)) /\ Users(b) \in Nat
    OBVIOUS
<1>1. UsersOf(b) \in SUBSET Handles /\ Users(b) = Cardinality(UsersOf(b))
      BY DEF UsersOf, Users
<1>2. IsFiniteSet(UsersOf(b))
      BY <1>1, ValuesAssumption, FS_Subset
<1> QED BY <1>1, <1>2, FS_CardinalityType

\* A block whose users are among those it had has no more than before, and one
\* more when there is one more.
LEMMA UsersBound ==
    ASSUME NEW b, NEW h
    PROVE  /\ Users(b)' \in Nat
           /\ UsersOf(b)' \subseteq UsersOf(b) => Users(b)' <= Users(b)
           /\ UsersOf(b)' \subseteq UsersOf(b) \cup {h} => Users(b)' <= Users(b) + 1
           /\ h \in UsersOf(b) /\ UsersOf(b)' \subseteq UsersOf(b) \ {h} => Users(b)' <= Users(b) - 1
<1>1. Users(b)' = Cardinality(UsersOf(b)')
      BY DEF UsersOf, Users
<1>2. IsFiniteSet(UsersOf(b)) /\ Users(b) = Cardinality(UsersOf(b)) /\ Users(b) \in Nat
      BY UsersAreFinite
<1>3. ASSUME UsersOf(b)' \subseteq UsersOf(b)
      PROVE  Users(b)' <= Users(b)
      BY <1>1, <1>2, <1>3, FS_Subset
<1>4. ASSUME UsersOf(b)' \subseteq UsersOf(b) \cup {h}
      PROVE  Users(b)' <= Users(b) + 1
  <2> DEFINE T == UsersOf(b) \cup {h}
  <2>1. IsFiniteSet(T) /\ Cardinality(T) \in Nat /\ Cardinality(T) <= Users(b) + 1
        BY <1>2, FS_AddElement, FS_CardinalityType
  <2>2. UsersOf(b)' \in SUBSET T
        BY <1>4
  <2> HIDE DEF T
  <2>3. IsFiniteSet(UsersOf(b)') /\ Cardinality(UsersOf(b)') <= Cardinality(T)
        BY <2>1, <2>2, FS_Subset
  <2>4. Cardinality(UsersOf(b)') \in Nat
        BY <2>3, FS_CardinalityType
  <2> QED BY <1>1, <1>2, <2>1, <2>3, <2>4
<1>5. ASSUME h \in UsersOf(b), UsersOf(b)' \subseteq UsersOf(b) \ {h}
      PROVE  Users(b)' <= Users(b) - 1
  <2> DEFINE T == UsersOf(b) \ {h}
  <2>1. IsFiniteSet(T) /\ Cardinality(T) \in Nat /\ Cardinality(T) = Users(b) - 1
        BY <1>2, <1>5, FS_RemoveElement, FS_CardinalityType
  <2>2. UsersOf(b)' \in SUBSET T
        BY <1>5
  <2> HIDE DEF T
  <2>3. IsFiniteSet(UsersOf(b)') /\ Cardinality(UsersOf(b)') <= Cardinality(T)
        BY <2>1, <2>2, FS_Subset
  <2> QED BY <1>1, <2>1, <2>3
<1>6. Users(b)' \in Nat
  <2>1. UsersOf(b)' \in SUBSET Handles
        BY DEF UsersOf
  <2>2. IsFiniteSet(UsersOf(b)')
        BY <2>1, ValuesAssumption, FS_Subset
  <2> QED BY <1>1, <2>2, FS_CardinalityType
<1> QED BY <1>3, <1>4, <1>5, <1>6

\* Storage, shallow_copy and ~Storage.
LEMMA StorageKeeps ==
    ASSUME StorageInv, StorageNext
    PROVE  StorageInv'
<1> USE DEF StorageInv
<1>0. /\ \A b \in Blocks : Users(b) \in Nat /\ Users(b)' \in Nat /\ reference[b] \in Nat
      /\ "gone" \notin Blocks /\ NoBlock \notin Blocks
  <2>1. \A b \in Blocks : Users(b)' \in Nat
        BY UsersBound
  <2> QED BY <2>1, UsersAreFinite, ValuesAssumption
<1>1. ASSUME NEW h \in Handles, NewStorage(h)
      PROVE  StorageInv'
  <2>1. CASE handle' = [handle EXCEPT ![h] = NoBlock] /\ UNCHANGED reference
    <3>1. \A b \in Blocks : UsersOf(b)' \subseteq UsersOf(b)
          BY <1>0, <2>1 DEF UsersOf
    <3>2. \A b \in Blocks : Users(b)' <= Users(b)
          BY <3>1, UsersBound
    <3> QED BY <1>0, <2>1, <3>2
  <2>2. ASSUME NEW c \in Blocks, reference[c] = 0, handle' = [handle EXCEPT ![h] = c],
               reference' = [reference EXCEPT ![c] = 1]
        PROVE  StorageInv'
    <3>1. \A b \in Blocks : b # c => UsersOf(b)' \subseteq UsersOf(b)
          BY <2>2 DEF UsersOf
    <3>2. UsersOf(c)' \subseteq UsersOf(c) \cup {h}
          BY <2>2 DEF UsersOf
    <3>3. /\ \A b \in Blocks : b # c => Users(b)' <= Users(b)
          /\ Users(c)' <= Users(c) + 1
          BY <3>1, <3>2, UsersBound
    <3>4. Users(c) = 0
          BY <1>0, <2>2
    <3> QED BY <1>0, <2>2, <3>3, <3>4
  <2> QED BY <1>1, <2>1, <2>2 DEF NewStorage
<1>2. ASSUME NEW h \in Handles, NEW o \in Handles, ShallowCopy(h, o)
      PROVE  StorageInv'
  <2>1. /\ handle' = [handle EXCEPT ![h] = handle[o]]
        /\ reference' = [b \in Blocks |-> IF b = handle[o] THEN reference[b] + 1 ELSE reference[b]]
        BY <1>2 DEF ShallowCopy
  <2>2. /\ handle' \in [Handles -> Blocks \cup {NoBlock, "gone"}]
        /\ reference' \in [Blocks -> Nat]
        BY <1>0, <2>1
  <2>3. ASSUME NEW b \in Blocks
        PROVE  reference'[b] >= Users(b)'
    <3>1. CASE b = handle[o]
      <4>1. UsersOf(b)' \subseteq UsersOf(b) \cup {h}
            BY <2>1 DEF UsersOf
      <4>2. Users(b)' <= Users(b) + 1
            BY <4>1, UsersBound
      <4> QED BY <1>0, <2>1, <3>1, <4>2
    <3>2. CASE b # handle[o]
      <4>1. UsersOf(b)' \subseteq UsersOf(b)
            BY <2>1, <3>2 DEF UsersOf
      <4>2. Users(b)' <= Users(b)
            BY <4>1, UsersBound
      <4> QED BY <1>0, <2>1, <3>2, <4>2
    <3> QED BY <3>1, <3>2
  <2> QED BY <2>2, <2>3
<1>3. ASSUME NEW h \in Handles, DeleteStorage(h)
      PROVE  StorageInv'
  <2>1. /\ handle' = [handle EXCEPT ![h] = "gone"]
        /\ reference' = [b \in Blocks |-> IF b = handle[h] THEN reference[b] - 1 ELSE reference[b]]
        BY <1>3 DEF DeleteStorage
  <2>2. ASSUME NEW b \in Blocks
        PROVE  reference'[b] \in Nat /\ reference'[b] >= Users(b)'
    <3>1. CASE b = handle[h]
      <4>1. h \in UsersOf(b) /\ UsersOf(b)' \subseteq UsersOf(b) \ {h}
            BY <1>0, <2>1, <3>1 DEF UsersOf
      <4>2. Users(b)' <= Users(b) - 1
            BY <4>1, UsersBound
      <4> QED BY <1>0, <2>1, <3>1, <4>2
    <3>2. CASE b # handle[h]
      <4>1. UsersOf(b)' \subseteq UsersOf(b)
            BY <1>0, <2>1 DEF UsersOf
      <4>2. Users(b)' <= Users(b)
            BY <4>1, UsersBound
      <4> QED BY <1>0, <2>1, <3>2, <4>2
    <3> QED BY <3>1, <3>2
  <2>3. handle' \in [Handles -> Blocks \cup {NoBlock, "gone"}]
        BY <2>1
  <2>4. reference' = [b \in Blocks |-> reference'[b]]
        BY <2>1
  <2> QED BY <2>2, <2>3, <2>4
<1> QED BY <1>1, <1>2, <1>3 DEF StorageNext

-----------------------------------------------------------------------------
(* Values, the properties.  As long as no name is there twice, the latest   *)
(* object of a name is the one of that name in the list.                    *)

PropOf == [name : PropNames, type : PropTypes, value : {Stored(v) : v \in PropValues}]

Distinct(l) == \A i, j \in DOMAIN l : l[i] = l[j] => i = j

NamesLeadToLatest(L) ==
    /\ \A x, y \in L : object[x].name = object[y].name => x = y
    /\ \A n \in PropNames :
         IF latest[n] = NoProp THEN \A x \in L : object[x].name # n
         ELSE latest[n] \in L /\ object[latest[n]].name = n

PropInv ==
    /\ object \in [Objs -> PropOf \cup {Deleted}]
    /\ plist \in Seq(Objs) /\ Distinct(plist)
    /\ \A x \in Range(plist) : object[x] # Deleted
    /\ latest \in [PropNames -> Objs \cup {NoProp}] /\ duplicates \in BOOLEAN
    /\ ~duplicates => NamesLeadToLatest(Range(plist))

LEMMA DeletedIsNone == Deleted \notin PropOf
BY ValuesAssumption DEF Deleted, PropOf

LEMMA ListedObjects ==
    ASSUME PropInv
    PROVE  /\ Range(plist) \subseteq Objs
           /\ \A i \in DOMAIN plist : plist[i] \in Range(plist)
           /\ \A x \in Range(plist) : object[x] \in PropOf /\ object[x].name \in PropNames
           /\ \A o : InList(o) <=> o \in Range(plist)
<1>1. Range(plist) \subseteq Objs /\ \A i \in DOMAIN plist : plist[i] \in Range(plist)
      BY DEF PropInv, Range
<1>2. \A x \in Range(plist) : object[x] \in PropOf
      BY <1>1 DEF PropInv
<1>3. \A o : InList(o) <=> o \in Range(plist)
      BY DEF InList, Range
<1> QED BY <1>1, <1>2, <1>3 DEF PropOf

LEMMA AppendListed ==
    ASSUME NEW l \in Seq(Objs), Distinct(l), NEW o \in Objs, o \notin Range(l)
    PROVE  /\ Append(l, o) \in Seq(Objs) /\ Distinct(Append(l, o))
           /\ Range(Append(l, o)) = Range(l) \cup {o}
<1> DEFINE m == Append(l, o)
<1>1. /\ m \in Seq(Objs) /\ DOMAIN m = 1 .. Len(l) + 1 /\ Len(l) \in Nat /\ DOMAIN l = 1 .. Len(l)
      /\ m[Len(l) + 1] = o /\ \A i \in 1 .. Len(l) : m[i] = l[i]
      OBVIOUS
<1> HIDE DEF m
<1>2. \A i \in 1 .. Len(l) : l[i] # o
      BY <1>1 DEF Range
<1>3. Distinct(m)
  <2> SUFFICES ASSUME NEW i \in 1 .. Len(l) + 1, NEW j \in 1 .. Len(l) + 1, m[i] = m[j] PROVE i = j
      BY <1>1 DEF Distinct
  <2>1. \A k \in 1 .. Len(l) + 1 : k \in 1 .. Len(l) \/ k = Len(l) + 1
        BY <1>1
  <2> QED BY <1>1, <1>2, <2>1 DEF Distinct
<1>4. Range(m) = Range(l) \cup {o}
  <2>1. \A k \in 1 .. Len(l) + 1 : k \in 1 .. Len(l) \/ k = Len(l) + 1
        BY <1>1
  <2>2. \A k \in 1 .. Len(l) : k \in 1 .. Len(l) + 1
        BY <1>1
  <2>3. Len(l) + 1 \in 1 .. Len(l) + 1
        BY <1>1
  <2> QED BY <1>1, <2>1, <2>2, <2>3 DEF Range
<1> QED BY <1>1, <1>3, <1>4 DEF m

\* What follows the object at i moves one place: the others stay, each once.
LEMMA WithoutListed ==
    ASSUME PropInv, NEW i \in DOMAIN plist
    PROVE  /\ Without(i) \in Seq(Objs) /\ Distinct(Without(i))
           /\ Range(Without(i)) = Range(plist) \ {plist[i]}
<1> DEFINE w == Without(i)
           At(j) == IF j < i THEN j ELSE j + 1
<1>1. Len(plist) \in Nat /\ DOMAIN plist = 1 .. Len(plist) /\ i \in Nat /\ 1 <= i /\ i <= Len(plist)
      BY DEF PropInv
<1>2. Len(plist) - 1 \in Nat /\ w = [j \in 1 .. Len(plist) - 1 |-> plist[At(j)]]
      BY <1>1 DEF Without
<1>3. \A j \in 1 .. Len(plist) - 1 : At(j) \in DOMAIN plist /\ At(j) # i
      BY <1>1
<1>4. \A j, k \in 1 .. Len(plist) - 1 : At(j) = At(k) => j = k
      BY <1>1
<1>5. \A k \in DOMAIN plist : k # i => \E j \in 1 .. Len(plist) - 1 : At(j) = k
  <2> SUFFICES ASSUME NEW k \in DOMAIN plist, k # i
               PROVE  \E j \in 1 .. Len(plist) - 1 : At(j) = k
      OBVIOUS
  <2>1. CASE k < i
        BY <1>1, <2>1
  <2>2. CASE k > i
    <3>1. k - 1 \in 1 .. Len(plist) - 1 /\ At(k - 1) = k
          BY <1>1, <2>2
    <3> QED BY <3>1
  <2> QED BY <1>1, <2>1, <2>2
<1>6. DOMAIN w = 1 .. Len(plist) - 1 /\ \A j \in 1 .. Len(plist) - 1 : w[j] = plist[At(j)]
      BY <1>2
<1>7. \A k \in DOMAIN plist : plist[k] \in Objs /\ (plist[k] = plist[i] => k = i)
      BY DEF PropInv, Distinct
<1> HIDE DEF At
<1>8. w \in Seq(Objs)
  <2>1. w \in [1 .. Len(plist) - 1 -> Objs]
        BY <1>2, <1>3, <1>7
  <2> HIDE DEF w
  <2> QED BY <1>2, <2>1
<1> HIDE DEF w
<1>9. Distinct(w)
      BY <1>3, <1>4, <1>6 DEF PropInv, Distinct
<1>10. Range(w) = Range(plist) \ {plist[i]}
  <2>1. \A k \in DOMAIN plist : k # i <=> plist[k] # plist[i]
        BY <1>7
  <2>2. \A j \in DOMAIN w : w[j] \in Range(plist) \ {plist[i]}
    <3> SUFFICES ASSUME NEW j \in DOMAIN w PROVE w[j] \in Range(plist) \ {plist[i]}
        OBVIOUS
    <3>1. At(j) \in DOMAIN plist /\ At(j) # i /\ w[j] = plist[At(j)]
          BY <1>3, <1>6
    <3> QED BY <2>1, <3>1 DEF Range
  <2>3. ASSUME NEW x \in Range(plist), x # plist[i]
        PROVE  x \in Range(w)
    <3>1. PICK k \in DOMAIN plist : plist[k] = x
          BY DEF Range
    <3>2. PICK j \in DOMAIN w : At(j) = k
          BY <1>5, <1>6, <2>3, <3>1
    <3>3. w[j] = x
          BY <1>6, <3>1, <3>2
    <3> QED BY <3>3 DEF Range
  <2>4. Range(w) \subseteq Range(plist) \ {plist[i]}
        BY <2>2 DEF Range
  <2> QED BY <2>3, <2>4
<1> QED BY <1>8, <1>9, <1>10 DEF w

\* find(name) while no name is there twice, and in any list.
LEMMA FindsListed ==
    ASSUME PropInv, NEW n \in PropNames
    PROVE  /\ ~duplicates => Find(n) = latest[n]
           /\ ~duplicates /\ Find(n) = NoProp => \A x \in Range(plist) : object[x].name # n
<1> SUFFICES ASSUME ~duplicates
             PROVE  Find(n) = latest[n] /\ (Find(n) = NoProp => \A x \in Range(plist) : object[x].name # n)
    OBVIOUS
<1>0. \A i \in DOMAIN plist : plist[i] \in Objs /\ plist[i] # NoProp
      BY ValuesAssumption DEF PropInv
<1>1. /\ \A i, j \in DOMAIN plist : object[plist[i]].name = object[plist[j]].name => i = j
      /\ IF latest[n] = NoProp THEN \A i \in DOMAIN plist : object[plist[i]].name # n
         ELSE \E i \in DOMAIN plist : latest[n] = plist[i] /\ object[plist[i]].name = n
  <2>1. NamesLeadToLatest(Range(plist))
        BY DEF PropInv
  <2>2. Distinct(plist) /\ \A i \in DOMAIN plist : plist[i] \in Range(plist)
        BY ListedObjects DEF PropInv
  <2>3. \A x \in Range(plist) : \E i \in DOMAIN plist : plist[i] = x
        BY DEF Range
  <2> QED BY <2>1, <2>2, <2>3 DEF NamesLeadToLatest, Distinct
<1>2. CASE latest[n] = NoProp
  <2>1. Findi(n) = {}
        BY <1>1, <1>2 DEF Findi
  <2>2. \A x \in Range(plist) : object[x].name # n
        BY <1>1, <1>2 DEF Range
  <2> QED BY <1>2, <2>1, <2>2 DEF Find
<1>3. CASE latest[n] # NoProp
  <2>1. PICK i \in DOMAIN plist : latest[n] = plist[i] /\ object[plist[i]].name = n
        BY <1>1, <1>3
  <2>2. \A j \in 1 .. i - 1 : j \in DOMAIN plist /\ j # i
    <3>1. Len(plist) \in Nat /\ DOMAIN plist = 1 .. Len(plist)
          BY DEF PropInv
    <3> QED BY <3>1
  <2>3. Findi(n) = {i}
        BY <1>1, <2>1, <2>2 DEF Findi
  <2>4. Find(n) = plist[i]
        BY <2>3 DEF Find
  <2> QED BY <1>0, <2>1, <2>4
<1> QED BY <1>2, <1>3

\* An object is made, changed or deleted outside of the list, or its value in it.
LEMMA ObjectKeeps ==
    ASSUME PropInv, NEW o \in Objs, NewProperty(o) \/ DeleteProperty(o) \/ SetValue(o)
    PROVE  PropInv'
<1> DEFINE L == Range(plist)
<1>1. /\ L \subseteq Objs /\ \A x \in L : object[x] # Deleted
      /\ UNCHANGED <<plist, latest, duplicates>> /\ Range(plist)' = L
      BY ListedObjects DEF PropInv, NewProperty, DeleteProperty, SetValue
<1>2. /\ object' \in [Objs -> PropOf \cup {Deleted}]
      /\ \A x \in L : object'[x] # Deleted /\ object'[x].name = object[x].name
  <2>1. CASE NewProperty(o)
    <3>1. PICK n \in PropNames, t \in PropTypes, v \in PropValues :
            object' = [object EXCEPT ![o] = [name |-> n, type |-> t, value |-> Stored(v)]]
          BY <2>1 DEF NewProperty
    <3>2. [name |-> n, type |-> t, value |-> Stored(v)] \in PropOf
          BY DEF PropOf
    <3>3. o \notin L
          BY <1>1, <2>1 DEF NewProperty
    <3> QED BY <1>1, <3>1, <3>2, <3>3 DEF PropInv
  <2>2. CASE DeleteProperty(o)
    <3>1. o \notin L /\ object' = [object EXCEPT ![o] = Deleted]
          BY <2>2, ListedObjects DEF DeleteProperty
    <3> QED BY <1>1, <3>1 DEF PropInv
  <2>3. CASE SetValue(o)
    <3>1. PICK v \in PropValues : object' = [object EXCEPT ![o].value = Stored(v)]
          BY <2>3 DEF SetValue
    <3>2. object[o] \in PropOf
          BY <2>3 DEF SetValue, PropInv
    <3>3. DEFINE new == [object[o] EXCEPT !.value = Stored(v)]
    <3>4. new \in PropOf /\ new.name = object[o].name
          BY <3>2 DEF PropOf
    <3>5. object' = [object EXCEPT ![o] = new]
          BY <3>1
    <3> HIDE DEF new
    <3> QED BY <1>1, <3>4, <3>5, DeletedIsNone DEF PropInv
  <2> QED BY <2>1, <2>2, <2>3
<1> HIDE DEF L
<1>3. ~duplicates => NamesLeadToLatest(L)'
  <2> SUFFICES ASSUME ~duplicates PROVE NamesLeadToLatest(L)'
      OBVIOUS
  <2>1. NamesLeadToLatest(L)
        BY DEF PropInv, L
  <2> QED BY <1>1, <1>2, <2>1 DEF NamesLeadToLatest, L
<1> QED BY <1>1, <1>2, <1>3 DEF PropInv, L

\* add of an object whose name is not in the list, or is doubled with ALLOW.
LEMMA AddKeeps ==
    ASSUME PropInv, NEW o \in Objs, AddProperty(o)
    PROVE  PropInv'
<1> DEFINE name == object[o].name
<1>1. /\ object[o] \in PropOf /\ name \in PropNames /\ o \notin Range(plist)
  <2>1. object[o] # Deleted /\ o \notin Range(plist)
        BY ListedObjects DEF AddProperty
  <2> QED BY <2>1 DEF PropInv, PropOf
<1>2. /\ plist' = Append(plist, o) /\ object' = object
      /\ latest' = [latest EXCEPT ![name] = o]
      /\ duplicates' = (duplicates \/ Find(name) # NoProp)
      BY DEF AddProperty
<1>3. plist' \in Seq(Objs) /\ Distinct(plist') /\ Range(plist') = Range(plist) \cup {o}
      BY <1>1, <1>2, AppendListed DEF PropInv
<1>4. \A x \in Range(plist') : object[x] # Deleted
      BY <1>1, <1>3, DeletedIsNone DEF PropInv
<1>5. latest' \in [PropNames -> Objs \cup {NoProp}] /\ duplicates' \in BOOLEAN
      BY <1>2 DEF PropInv
<1>6. ASSUME ~duplicates'
      PROVE  NamesLeadToLatest(Range(plist))'
  <2>1. ~duplicates /\ \A x \in Range(plist) : object[x].name # name
        BY <1>1, <1>2, <1>6, FindsListed
  <2>2. NamesLeadToLatest(Range(plist))
        BY <2>1 DEF PropInv
  <2>3. o # NoProp
        BY ValuesAssumption
  <2>4. /\ latest'[name] = o
        /\ \A n \in PropNames : n # name => latest'[n] = latest[n]
        BY <1>1, <1>2 DEF PropInv
  <2> HIDE DEF name
  <2>5. \A x, y \in Range(plist') : object[x].name = object[y].name => x = y
        BY <1>3, <2>1, <2>2 DEF NamesLeadToLatest, name
  <2>6. ASSUME NEW n \in PropNames
        PROVE  IF latest'[n] = NoProp THEN \A x \in Range(plist') : object[x].name # n
               ELSE latest'[n] \in Range(plist') /\ object[latest'[n]].name = n
    <3>1. CASE n = name
          BY <1>3, <2>3, <2>4, <3>1 DEF name
    <3>2. CASE n # name
          BY <1>3, <2>2, <2>4, <3>2 DEF NamesLeadToLatest, name
    <3> QED BY <3>1, <3>2
  <2> QED BY <1>2, <2>5, <2>6 DEF NamesLeadToLatest
<1> QED BY <1>2, <1>3, <1>4, <1>5, <1>6 DEF PropInv

\* add with OVERWRITE: the object that had the name is gone from the list.
LEMMA AddOverwriteKeeps ==
    ASSUME PropInv, NEW o \in Objs, AddOverwrite(o)
    PROVE  PropInv'
<1> DEFINE name == object[o].name
<1>1. /\ object[o] \in PropOf /\ name \in PropNames /\ o \notin Range(plist)
  <2>1. object[o] # Deleted /\ o \notin Range(plist)
        BY ListedObjects DEF AddOverwrite
  <2> QED BY <2>1 DEF PropInv, PropOf
<1>2. PICK i \in Findi(name) : /\ object' = [object EXCEPT ![plist[i]] = Deleted]
                               /\ plist' = Append(Without(i), o)
      BY DEF AddOverwrite
<1>3. latest' = [latest EXCEPT ![name] = o] /\ duplicates' = duplicates
      BY DEF AddOverwrite
<1> DEFINE old == plist[i]
<1>4. i \in DOMAIN plist /\ old \in Range(plist) /\ old \in Objs /\ object[old].name = name
      BY ListedObjects DEF Findi
<1>5. /\ Without(i) \in Seq(Objs) /\ Distinct(Without(i))
      /\ Range(Without(i)) = Range(plist) \ {old}
      BY <1>4, WithoutListed
<1>6. plist' \in Seq(Objs) /\ Distinct(plist') /\ Range(plist') = (Range(plist) \ {old}) \cup {o}
      BY <1>1, <1>2, <1>5, AppendListed
<1> HIDE DEF old
<1>7. /\ object' \in [Objs -> PropOf \cup {Deleted}]
      /\ \A x \in Range(plist') : x \in Objs /\ x # old /\ object'[x] = object[x] /\ object[x] # Deleted
  <2>1. \A x \in Range(plist') : x \in Objs /\ x # old /\ object[x] # Deleted
        BY <1>1, <1>4, <1>6, ListedObjects, DeletedIsNone
  <2>2. object' = [object EXCEPT ![old] = Deleted]
        BY <1>2 DEF old
  <2> QED BY <1>4, <2>1, <2>2 DEF PropInv
<1>8. latest' \in [PropNames -> Objs \cup {NoProp}] /\ duplicates' \in BOOLEAN
      BY <1>3 DEF PropInv
<1>9. ASSUME ~duplicates
      PROVE  NamesLeadToLatest(Range(plist))'
  <2>1. NamesLeadToLatest(Range(plist))
        BY <1>9 DEF PropInv
  <2>2. o # NoProp /\ latest'[name] = o /\ \A n \in PropNames : n # name => latest'[n] = latest[n]
        BY <1>1, <1>3, ValuesAssumption DEF PropInv
  <2> HIDE DEF name
  <2>3. \A x \in Range(plist) \ {old} : object[x].name # name
        BY <1>4, <2>1 DEF NamesLeadToLatest
  <2>4. \A x, y \in Range(plist') : object'[x].name = object'[y].name => x = y
    <3>1. \A x, y \in Range(plist') : object[x].name = object[y].name => x = y
          BY <1>6, <2>1, <2>3 DEF NamesLeadToLatest, name
    <3> QED BY <1>7, <3>1
  <2>5. ASSUME NEW n \in PropNames
        PROVE  IF latest'[n] = NoProp THEN \A x \in Range(plist') : object'[x].name # n
               ELSE latest'[n] \in Range(plist') /\ object'[latest'[n]].name = n
    <3>1. CASE n = name
      <4>1. o \in Range(plist') /\ object[o].name = name
            BY <1>6 DEF name
      <4> QED BY <1>7, <2>2, <3>1, <4>1
    <3>2. CASE n # name /\ latest[n] = NoProp
      <4>1. \A x \in Range(plist) : object[x].name # n
            BY <2>1, <3>2 DEF NamesLeadToLatest
      <4>2. \A x \in Range(plist') : object[x].name # n
            BY <1>6, <3>2, <4>1 DEF name
      <4> QED BY <1>7, <2>2, <3>2, <4>2
    <3>3. CASE n # name /\ latest[n] # NoProp
      <4>1. latest[n] \in Range(plist) /\ object[latest[n]].name = n
            BY <2>1, <3>3 DEF NamesLeadToLatest
      <4>2. latest[n] \in Range(plist')
            BY <1>4, <1>6, <3>3, <4>1
      <4> QED BY <1>7, <2>2, <3>3, <4>1, <4>2
    <3> QED BY <3>1, <3>2, <3>3
  <2> QED BY <2>4, <2>5 DEF NamesLeadToLatest
<1>10. \A x \in Range(plist') : object'[x] # Deleted
      BY <1>7
<1> QED BY <1>3, <1>6, <1>7, <1>8, <1>9, <1>10 DEF PropInv

\* del: the object is gone, and with it its name if the name led to it.
LEMMA DelKeeps ==
    ASSUME PropInv, NEW i, DelProperty(i)
    PROVE  PropInv'
<1> DEFINE old == plist[i]
<1>1. /\ i \in DOMAIN plist /\ object' = [object EXCEPT ![old] = Deleted]
      /\ latest' = [n \in PropNames |-> IF latest[n] = old THEN NoProp ELSE latest[n]]
      /\ plist' = Without(i) /\ duplicates' = duplicates
      BY DEF DelProperty
<1>2. old \in Range(plist) /\ old \in Objs
      BY <1>1, ListedObjects
<1>3. plist' \in Seq(Objs) /\ Distinct(plist') /\ Range(plist') = Range(plist) \ {old}
      BY <1>1, WithoutListed
<1> HIDE DEF old
<1>4. /\ object' \in [Objs -> PropOf \cup {Deleted}]
      /\ \A x \in Range(plist') : x \in Objs /\ object'[x] = object[x] /\ object[x] # Deleted
  <2>1. \A x \in Range(plist') : x \in Objs /\ x # old /\ object[x] # Deleted
        BY <1>3, ListedObjects DEF PropInv
  <2> QED BY <1>1, <1>2, <2>1 DEF PropInv
<1>5. latest' \in [PropNames -> Objs \cup {NoProp}] /\ duplicates' \in BOOLEAN
      BY <1>1 DEF PropInv
<1>6. ASSUME ~duplicates
      PROVE  NamesLeadToLatest(Range(plist))'
  <2>1. NamesLeadToLatest(Range(plist))
        BY <1>6 DEF PropInv
  <2>2. \A x, y \in Range(plist') : object'[x].name = object'[y].name => x = y
        BY <1>3, <1>4, <2>1 DEF NamesLeadToLatest
  <2>3. ASSUME NEW n \in PropNames
        PROVE  IF latest'[n] = NoProp THEN \A x \in Range(plist') : object'[x].name # n
               ELSE latest'[n] \in Range(plist') /\ object'[latest'[n]].name = n
    <3>1. latest'[n] = IF latest[n] = old THEN NoProp ELSE latest[n]
          BY <1>1
    <3>2. CASE latest[n] = old
      <4>1. object[old].name = n
            BY <1>2, <2>1, <3>2, ValuesAssumption DEF NamesLeadToLatest
      <4>2. \A x \in Range(plist') : object[x].name # n
            BY <1>2, <1>3, <2>1, <4>1 DEF NamesLeadToLatest
      <4> QED BY <1>4, <3>1, <3>2, <4>2
    <3>3. CASE latest[n] # old /\ latest[n] = NoProp
      <4>1. \A x \in Range(plist') : object[x].name # n
            BY <1>3, <2>1, <3>3 DEF NamesLeadToLatest
      <4> QED BY <1>4, <3>1, <3>3, <4>1
    <3>4. CASE latest[n] # old /\ latest[n] # NoProp
      <4>1. latest[n] \in Range(plist') /\ object[latest[n]].name = n
            BY <1>3, <2>1, <3>4 DEF NamesLeadToLatest
      <4> QED BY <1>4, <3>1, <3>4, <4>1
    <3> QED BY <3>2, <3>3, <3>4
  <2> QED BY <2>2, <2>3 DEF NamesLeadToLatest
<1>7. \A x \in Range(plist') : object'[x] # Deleted
      BY <1>4
<1> QED BY <1>1, <1>3, <1>4, <1>5, <1>6, <1>7 DEF PropInv

\* clean(): every object of the list is deleted.
LEMMA CleanKeeps ==
    ASSUME PropInv, CleanProperties
    PROVE  PropInv'
<1>1. /\ object' = [o \in Objs |-> IF InList(o) THEN Deleted ELSE object[o]]
      /\ plist' = <<>> /\ latest' = [n \in PropNames |-> NoProp] /\ duplicates' = FALSE
      BY DEF CleanProperties
<1>2. plist' \in Seq(Objs) /\ DOMAIN plist' = {} /\ Range(plist') = {}
      BY <1>1 DEF Range
<1>3. Distinct(plist')
      BY <1>2 DEF Distinct
<1>4. object' \in [Objs -> PropOf \cup {Deleted}] /\ latest' \in [PropNames -> Objs \cup {NoProp}]
      BY <1>1 DEF PropInv
<1>5. NamesLeadToLatest(Range(plist))'
      BY <1>1, <1>2 DEF NamesLeadToLatest
<1> QED BY <1>1, <1>2, <1>3, <1>4, <1>5 DEF PropInv

LEMMA PropKeeps ==
    ASSUME PropInv, PropertyNext
    PROVE  PropInv'
<1>1. ASSUME NEW o \in Objs, AddDenied(o)
      PROVE  PropInv'
      BY <1>1 DEF AddDenied, valuesVars, propVars, PropInv, NamesLeadToLatest
<1> QED BY <1>1, ObjectKeeps, AddKeeps, AddOverwriteKeeps, DelKeeps, CleanKeeps DEF PropertyNext

-----------------------------------------------------------------------------
(* Values, memory and properties.                                          *)

LEMMA ValuesInitInv == ValuesInit => StorageInv /\ PropInv
<1> SUFFICES ASSUME ValuesInit PROVE StorageInv /\ PropInv
    OBVIOUS
<1>1. StorageInv
  <2>1. \A b \in Blocks : Users(b) = 0
    <3> SUFFICES ASSUME NEW b \in Blocks PROVE Users(b) = 0
        OBVIOUS
    <3>1. {h \in Handles : handle[h] = b} = {}
          BY ValuesAssumption DEF ValuesInit
    <3> QED BY <3>1, FS_EmptySet DEF Users
  <2> QED BY <2>1 DEF ValuesInit, StorageInv
<1>2. PropInv
  <2>1. plist = <<>> /\ plist \in Seq(Objs) /\ DOMAIN plist = {} /\ Range(plist) = {}
        BY DEF ValuesInit, Range
  <2>2. Distinct(plist) /\ NamesLeadToLatest(Range(plist))
        BY <2>1 DEF ValuesInit, Distinct, NamesLeadToLatest
  <2> QED BY <2>1, <2>2 DEF ValuesInit, PropInv
<1> QED BY <1>1, <1>2

LEMMA ValuesNextKeeps ==
    ASSUME StorageInv, PropInv, [ValuesNext]_valuesVars
    PROVE  StorageInv' /\ PropInv'
<1>1. CASE StorageNext
  <2>1. StorageInv'
        BY <1>1, StorageKeeps
  <2>2. UNCHANGED propVars
        BY <1>1 DEF StorageNext, NewStorage, DeleteStorage, ShallowCopy
  <2> QED BY <2>1, <2>2 DEF propVars, PropInv, NamesLeadToLatest
<1>2. CASE PropertyNext
  <2>1. PropInv'
        BY <1>2, PropKeeps
  <2>2. UNCHANGED storageVars
        BY <1>2 DEF PropertyNext, NewProperty, DeleteProperty, SetValue, AddDenied, AddProperty,
                    AddOverwrite, DelProperty, CleanProperties, valuesVars
  <2> QED BY <2>1, <2>2 DEF storageVars, StorageInv, Users
<1>3. CASE UNCHANGED valuesVars
      BY <1>3 DEF valuesVars, storageVars, propVars, StorageInv, Users, PropInv, NamesLeadToLatest
<1> QED BY <1>1, <1>2, <1>3 DEF ValuesNext

LEMMA ValuesInvSafe == StorageInv /\ PropInv => ValuesSafe
<1> SUFFICES ASSUME StorageInv, PropInv PROVE SharedMemoryLives /\ ListOwnsObjects /\ FindsLatest
    BY DEF ValuesSafe
<1>1. SharedMemoryLives
      BY DEF StorageInv, SharedMemoryLives
<1>2. ListOwnsObjects
      BY ListedObjects DEF PropInv, Distinct, ListOwnsObjects
<1>3. FindsLatest
      BY FindsListed DEF FindsLatest
<1> QED BY <1>1, <1>2, <1>3

\* Whatever handles share which blocks and whatever objects are added to a list,
\* overwritten and deleted in which order of the explicit operations (the copies that
\* C++ makes by itself are not among them): no block that is in use is freed, no object
\* of a list is deleted or in it twice, and a name leads to what was added last under
\* it, as long as ALLOW has not put a second entry under some name.
THEOREM ValuesAreSafe == ValuesSpec => []ValuesSafe
<1>1. StorageInv /\ PropInv /\ [ValuesNext]_valuesVars => (StorageInv /\ PropInv)'
      BY ValuesNextKeeps
<1> QED BY <1>1, ValuesInitInv, ValuesInvSafe, PTL DEF ValuesSpec

-----------------------------------------------------------------------------
(* SaneiConfig.  What is honoured of a file that is read line by line is   *)
(* what the lines say that come before the first one that is refused.      *)

\* What the reading of the lines s has come to when none of them is refused, or
\* the last one only.
AllHonoured(s) == \A i \in DOMAIN s : ~Refused(s[i])

HonouredOf(s) == {i \in DOMAIN s : \A j \in DOMAIN s : Refused(s[j]) => i < j}

ValuesOf(s, good, values) ==
    LET Of(n) == {i \in good : IsOption(s[i]) /\ s[i].token = n /\ OptionTypes[n] # "button"}
    IN \A n \in OptionNames : Of(n) # {} =>
            \E i \in Of(n) : (\A j \in Of(n) : j <= i) /\ Says(s[i], values[n])

DevicesOf(s, good) == {i \in good : IsDevice(s[i])}

UpTo(D, i) == {j \in D : j <= i}

AttachedOf(s, good, att) ==
    /\ Len(att) = Cardinality(DevicesOf(s, good))
    /\ \A i \in DevicesOf(s, good) : att[Cardinality(UpTo(DevicesOf(s, good), i))] = s[i]

\* The last byte of a text is the NUL of a line, or the one there was.
LastByte(values) ==
    \A n \in OptionNames : OptionTypes[n] = "string" =>
        values[n][OptionSizes[n]] \in {ConfigDefaults[n][OptionSizes[n]], NUL}

\* FileIsHonoured is about the values and about the devices.
LEMMA FileIsHonouredParts ==
    FileIsHonoured <=> /\ ValuesOf(fileLines, HonouredOf(fileLines), configValues)
                       /\ LastByte(configValues)
                       /\ AttachedOf(fileLines, HonouredOf(fileLines), attached)
BY DEF FileIsHonoured, ValuesOf, AttachedOf, HonouredOf, Honoured, DevicesOf, UpTo, LastByte, TypeOf

\* What is copied is, to the last element or to the NUL, what the line says.
LEMMA CopiedSays ==
    ASSUME NEW l \in ConfigLines, IsOption(l), NEW m
    PROVE  /\ Says(l, CopiedInto(l, m))
           /\ DOMAIN CopiedInto(l, m) = 1 .. SizeOfValue(l)
           /\ TypeOf(l) # "string" => CopiedInto(l, m) = Parsed(l)
           /\ TypeOf(l) = "string" => CopiedInto(l, m)[SizeOfValue(l)] \in {m[SizeOfValue(l)], NUL}
           /\ (TypeOf(l) = "string" /\ CopiedInto(l, m)[SizeOfValue(l)] = NUL)
                => ReadsAs(CopiedInto(l, m), TextOf(l))
<1> DEFINE size == SizeOfValue(l)
           word == ValueWord(l, 1)
           text == TextOf(l)
           c == CopiedInto(l, m)
           read == Parsed(l)
<1>1. size \in Nat \ {0} /\ 1 <= size /\ size - 1 \in Nat
  BY SaneiConfigAssumption DEF SizeOfValue, IsOption
<1>2. word \in Seq(STRING)
  <2>1. l.args \in Seq(Seq(STRING))
    BY SaneiConfigAssumption
  <2>2. <<>> \in Seq(STRING)
    OBVIOUS
  <2> QED BY <2>1, <2>2 DEF ValueWord
<1>3. c = [k \in 1 .. size |-> IF k <= Len(read) THEN read[k] ELSE m[k]]
  BY DEF CopiedInto
<1>4. CASE TypeOf(l) # "string"
  <2>1. read = [k \in 1 .. size |-> Element(TypeOf(l), ValueWord(l, k))]
    BY <1>4 DEF Parsed
  <2> HIDE DEF read, size, word, text, c
  <2>2. Len(read) = size
    BY <1>1, <2>1
  <2>3. c = read
    <3>1. \A k \in 1 .. size : k <= Len(read)
      BY <1>1, <2>2
    <3>2. c = [k \in 1 .. size |-> read[k]]
      BY <1>3, <3>1
    <3> QED BY <2>1, <3>2
  <2>4. Says(l, c)
    BY <1>4, <2>1, <2>3 DEF Says, size
  <2> QED BY <1>3, <1>4, <2>3, <2>4 DEF c, size, read
<1>5. CASE TypeOf(l) = "string"
  <2>1. read = (IF Len(word) < size THEN Append(text, NUL) ELSE text)
    BY <1>5 DEF Parsed
  <2>2. text = (IF Len(word) < size THEN word ELSE SubSeq(word, 1, size - 1))
    BY DEF TextOf
  <2>3. Says(l, c) <=> /\ \A k \in DOMAIN word : k < size => c[k] = word[k]
                       /\ Len(word) < size => c[Len(word) + 1] = NUL
    BY <1>5 DEF Says
  <2>4. ReadsAs(c, text) <=> /\ Len(text) < Len(c)
                             /\ \A k \in DOMAIN text : c[k] = text[k]
                             /\ c[Len(text) + 1] = NUL
    BY DEF ReadsAs
  <2> HIDE DEF read, size, word, text, c
  <2>5. Len(c) = size /\ DOMAIN c = 1 .. size
    BY <1>1, <1>3
  <2>6. CASE Len(word) < size
    <3>1. Len(word) \in Nat /\ DOMAIN word = 1 .. Len(word) /\ text = word
      BY <1>2, <2>2, <2>6
    <3>2. read = Append(word, NUL)
      BY <2>1, <2>6, <3>1
    <3>3. Len(read) = Len(word) + 1 /\ read[Len(word) + 1] = NUL /\ \A k \in 1 .. Len(word) : read[k] = word[k]
      BY <1>2, <3>1, <3>2
    <3>4. c[Len(word) + 1] = NUL /\ \A k \in 1 .. Len(word) : c[k] = word[k]
      BY <1>1, <1>3, <2>6, <3>1, <3>3
    <3>5. c[size] \in {m[size], NUL}
      <4>1. CASE Len(word) + 1 = size
        BY <3>4, <4>1
      <4>2. CASE Len(word) + 1 < size
        BY <1>1, <1>3, <3>1, <3>3, <4>2
      <4> QED BY <1>1, <2>6, <3>1, <4>1, <4>2
    <3> QED BY <1>5, <2>3, <2>4, <2>5, <2>6, <3>1, <3>4, <3>5 DEF c, size, text
  <2>7. CASE ~(Len(word) < size)
    <3>1. Len(word) \in Nat /\ DOMAIN word = 1 .. Len(word) /\ size <= Len(word)
      BY <1>1, <1>2, <2>7
    <3>2. read = SubSeq(word, 1, size - 1) /\ text = SubSeq(word, 1, size - 1)
      BY <2>1, <2>2, <2>7
    <3>3. Len(text) = size - 1 /\ \A k \in 1 .. size - 1 : text[k] = word[k]
      BY <1>1, <1>2, <3>1, <3>2
    <3>4. read = text /\ DOMAIN text = 1 .. size - 1
      BY <1>1, <1>2, <3>1, <3>2
    <3>5. \A k \in 1 .. size - 1 : c[k] = word[k] /\ c[k] = text[k]
      BY <1>1, <1>3, <3>3, <3>4
    <3>6. c[size] = m[size]
      BY <1>1, <1>3, <3>3, <3>4
    <3>7. \A k \in DOMAIN word : k < size => k \in 1 .. size - 1
      BY <1>1, <3>1
    <3>8. Says(l, c)
      BY <2>3, <2>7, <3>5, <3>7
    <3>9. c[size] = NUL => ReadsAs(c, text)
      BY <1>1, <2>4, <2>5, <3>3, <3>4, <3>5
    <3> QED BY <1>5, <2>5, <3>6, <3>8, <3>9 DEF c, size, text
  <2> QED BY <2>6, <2>7
<1> QED BY <1>4, <1>5

\* A line after lines that are all honoured.
LEMMA HonouredAppended ==
    ASSUME NEW s \in Seq(ConfigLines), NEW l \in ConfigLines, AllHonoured(s)
    PROVE  /\ HonouredOf(s) = 1 .. Len(s)
           /\ HonouredOf(Append(s, l)) = (IF Refused(l) THEN 1 .. Len(s) ELSE 1 .. Len(s) + 1)
           /\ ~Refused(l) => AllHonoured(Append(s, l))
<1> DEFINE t == Append(s, l)
<1>1. Len(s) \in Nat /\ DOMAIN s = 1 .. Len(s) /\ DOMAIN t = 1 .. Len(s) + 1
  OBVIOUS
<1>2. \A i \in 1 .. Len(s) : t[i] = s[i] /\ ~Refused(s[i])
  BY DEF AllHonoured
<1>3. t[Len(s) + 1] = l
  OBVIOUS
<1> HIDE DEF t
<1>4. HonouredOf(s) = 1 .. Len(s)
  BY <1>1, <1>2 DEF HonouredOf
<1>5. ASSUME ~Refused(l) PROVE AllHonoured(t)
  BY <1>1, <1>2, <1>3, <1>5 DEF AllHonoured
<1>6. ASSUME ~Refused(l) PROVE HonouredOf(t) = 1 .. Len(s) + 1
  BY <1>1, <1>5, <1>6 DEF HonouredOf, AllHonoured
<1>7. ASSUME Refused(l) PROVE HonouredOf(t) = 1 .. Len(s)
  <2>1. \A j \in 1 .. Len(s) + 1 : Refused(t[j]) <=> j = Len(s) + 1
    BY <1>1, <1>2, <1>3, <1>7
  <2>2. \A i \in 1 .. Len(s) + 1 :
           (\A j \in 1 .. Len(s) + 1 : Refused(t[j]) => i < j) <=> i < Len(s) + 1
    BY <1>1, <2>1
  <2>3. HonouredOf(t) = {i \in 1 .. Len(s) + 1 : i < Len(s) + 1}
    BY <1>1, <2>2 DEF HonouredOf
  <2> QED BY <1>1, <2>3
<1> QED BY <1>4, <1>5, <1>6, <1>7 DEF t

\* The devices of the lines that were there are where they were.
LEMMA LinesKept ==
    ASSUME NEW s \in Seq(ConfigLines), NEW l \in ConfigLines, NEW values, NEW att
    PROVE  /\ DevicesOf(Append(s, l), 1 .. Len(s)) = DevicesOf(s, 1 .. Len(s))
           /\ ValuesOf(Append(s, l), 1 .. Len(s), values) <=> ValuesOf(s, 1 .. Len(s), values)
           /\ AttachedOf(Append(s, l), 1 .. Len(s), att) <=> AttachedOf(s, 1 .. Len(s), att)
<1> DEFINE t == Append(s, l)
<1>1. \A i \in 1 .. Len(s) : t[i] = s[i]
  OBVIOUS
<1> HIDE DEF t
<1>2. DevicesOf(t, 1 .. Len(s)) = DevicesOf(s, 1 .. Len(s))
  BY <1>1 DEF DevicesOf
<1>3. \A i \in DevicesOf(s, 1 .. Len(s)) : t[i] = s[i]
  BY <1>1 DEF DevicesOf
<1>4. AttachedOf(t, 1 .. Len(s), att) <=> AttachedOf(s, 1 .. Len(s), att)
  BY <1>2, <1>3 DEF AttachedOf
<1> DEFINE Of(q, n) == {i \in 1 .. Len(s) : IsOption(q[i]) /\ q[i].token = n /\ OptionTypes[n] # "button"}
           LastLine(q, n) == Of(q, n) # {} =>
                           \E i \in Of(q, n) : (\A j \in Of(q, n) : j <= i) /\ Says(q[i], values[n])
<1>5. ASSUME NEW n PROVE LastLine(t, n) <=> LastLine(s, n)
  <2>1. Of(t, n) = Of(s, n) /\ \A i \in Of(s, n) : t[i] = s[i]
    BY <1>1
  <2> HIDE DEF Of
  <2> QED BY <2>1
<1>6. ValuesOf(t, 1 .. Len(s), values) <=> ValuesOf(s, 1 .. Len(s), values)
  <2>1. \A q : ValuesOf(q, 1 .. Len(s), values) <=> \A n \in OptionNames : LastLine(q, n)
    BY DEF ValuesOf
  <2> HIDE DEF LastLine
  <2> QED BY <1>5, <2>1
<1> QED BY <1>2, <1>4, <1>6 DEF t

LEMMA RankInRange ==
    ASSUME NEW m \in Nat, NEW D \in SUBSET (1 .. m), NEW i \in D
    PROVE  /\ IsFiniteSet(D) /\ IsFiniteSet(UpTo(D, i))
           /\ Cardinality(D) \in Nat
           /\ Cardinality(UpTo(D, i)) \in 1 .. Cardinality(D)
<1>0. IsFiniteSet(1 .. m)
  BY FS_Interval
<1>1. IsFiniteSet(D)
  BY <1>0, FS_Subset
<1>2. IsFiniteSet(UpTo(D, i)) /\ Cardinality(UpTo(D, i)) <= Cardinality(D)
  BY <1>1, FS_Subset DEF UpTo
<1>3. Cardinality(D) \in Nat /\ Cardinality(UpTo(D, i)) \in Nat
  BY <1>1, <1>2, FS_CardinalityType
<1>4. i \in UpTo(D, i)
  BY DEF UpTo
<1>5. Cardinality(UpTo(D, i)) # 0
  BY <1>2, <1>4, FS_EmptySet
<1> QED BY <1>1, <1>2, <1>3, <1>5

\* A line that is not refused: a device is attached, an option has its value.
LEMMA AttachedAppended ==
    ASSUME NEW s \in Seq(ConfigLines), NEW l \in ConfigLines,
           NEW att \in Seq(ConfigLines), AttachedOf(s, 1 .. Len(s), att)
    PROVE  AttachedOf(Append(s, l), 1 .. Len(s) + 1, IF IsDevice(l) THEN Append(att, l) ELSE att)
<1> DEFINE t == Append(s, l)
           D == DevicesOf(s, 1 .. Len(s))
           E == DevicesOf(t, 1 .. Len(s) + 1)
           n == Len(s)
<1>1. n \in Nat /\ \A i \in 1 .. n : t[i] = s[i] /\ t[n + 1] = l
  OBVIOUS
<1>0. t[n + 1] = l
  OBVIOUS
<1> HIDE DEF t, n
<1>2. D \subseteq 1 .. n /\ (\A i \in D : t[i] = s[i])
  BY <1>1 DEF DevicesOf, n
<1>3. E = (IF IsDevice(l) THEN D \cup {n + 1} ELSE D)
  <2>1. DevicesOf(t, 1 .. n + 1) = {i \in 1 .. n + 1 : IsDevice(t[i])}
    BY DEF DevicesOf
  <2>2. D = {i \in 1 .. n : IsDevice(s[i])}
    BY DEF DevicesOf, n
  <2>3. 1 .. n + 1 = (1 .. n) \cup {n + 1}
    BY <1>1
  <2>4. E = {i \in 1 .. n + 1 : IsDevice(t[i])}
    BY <2>1 DEF n
  <2> HIDE DEF D, E
  <2>5. \A i \in 1 .. n : i \in E <=> i \in D
    BY <1>1, <2>2, <2>3, <2>4
  <2>6. n + 1 \in E <=> IsDevice(l)
    BY <1>0, <2>3, <2>4
  <2>7. E \subseteq (1 .. n) \cup {n + 1} /\ D \subseteq 1 .. n
    BY <2>2, <2>3, <2>4
  <2>8. CASE IsDevice(l)
    BY <2>5, <2>6, <2>7, <2>8
  <2>9. CASE ~IsDevice(l)
    <3>1. \A i \in E : i \in D
      BY <2>5, <2>6, <2>7, <2>9
    <3>2. \A i \in D : i \in E
      BY <2>5, <2>7
    <3>3. E = D
      BY <3>1, <3>2
    <3> QED BY <2>9, <3>3
  <2> QED BY <2>8, <2>9
<1>4. IsFiniteSet(D) /\ Cardinality(D) \in Nat
  <2>0. 1 \in Int /\ n \in Int
    BY <1>1
  <2>1. IsFiniteSet(1 .. n)
    BY <2>0, FS_Interval
  <2>2. IsFiniteSet(D)
    BY <1>2, <2>1, FS_Subset
  <2> QED BY <2>2, FS_CardinalityType
<1>5. Len(att) = Cardinality(D) /\ \A i \in D : att[Cardinality(UpTo(D, i))] = s[i]
  BY DEF AttachedOf
<1> HIDE DEF D, E
<1>6. CASE ~IsDevice(l)
  BY <1>2, <1>3, <1>5, <1>6 DEF AttachedOf, E, t, n
<1>7. CASE IsDevice(l)
  <2>1. E = D \cup {n + 1}
    BY <1>3, <1>7
  <2>2. n + 1 \notin D
    BY <1>1, <1>2
  <2>3. Cardinality(E) = Cardinality(D) + 1
    BY <1>4, <2>1, <2>2, FS_AddElement
  <2>4. UpTo(E, n + 1) = E
    <3>1. \A j \in E : j <= n + 1
      BY <1>1, <1>2, <2>1
    <3> QED BY <3>1 DEF UpTo
  <2>5. \A i \in D : UpTo(E, i) = UpTo(D, i)
    BY <1>1, <1>2, <2>1 DEF UpTo
  <2>6. Len(Append(att, l)) = Cardinality(E)
    BY <1>5, <2>3
  <2>7. ASSUME NEW i \in E PROVE Append(att, l)[Cardinality(UpTo(E, i))] = t[i]
    <3>1. CASE i \in D
      <4>1. Cardinality(UpTo(D, i)) \in 1 .. Len(att)
        BY <1>1, <1>2, <1>5, <3>1, RankInRange
      <4>2. Append(att, l)[Cardinality(UpTo(D, i))] = att[Cardinality(UpTo(D, i))]
        BY <4>1
      <4> QED BY <1>2, <1>5, <2>5, <3>1, <4>2
    <3>2. CASE i = n + 1
      <4>1. Cardinality(UpTo(E, i)) = Len(att) + 1
        BY <1>5, <2>3, <2>4, <3>2
      <4>2. Append(att, l)[Len(att) + 1] = l
        OBVIOUS
      <4> QED BY <1>0, <3>2, <4>1, <4>2
    <3> QED BY <2>1, <3>1, <3>2
  <2>8. AttachedOf(t, 1 .. n + 1, Append(att, l))
    BY <2>6, <2>7 DEF AttachedOf, E, n
  <2> QED BY <1>7, <2>8 DEF t, n
<1> QED BY <1>6, <1>7

\* A line that is read last is the last word on its option.
LEMMA ValuesAppended ==
    ASSUME NEW s \in Seq(ConfigLines), NEW l \in ConfigLines,
           NEW old, NEW new,
           ValuesOf(s, 1 .. Len(s), old),
           IF IsOption(l) /\ OptionTypes[l.token] # "button"
           THEN Says(l, new[l.token]) /\ \A k \in OptionNames : k # l.token => new[k] = old[k]
           ELSE new = old
    PROVE  ValuesOf(Append(s, l), 1 .. Len(s) + 1, new)
<1> DEFINE t == Append(s, l)
           n == Len(s)
           Of(q, m, k) == {i \in 1 .. m : IsOption(q[i]) /\ q[i].token = k /\ OptionTypes[k] # "button"}
<1>1. n \in Nat /\ \A i \in 1 .. n : t[i] = s[i]
  OBVIOUS
<1>2. t[n + 1] = l
  OBVIOUS
<1>3. \A k \in OptionNames : Of(s, n, k) # {} =>
         \E i \in Of(s, n, k) : (\A j \in Of(s, n, k) : j <= i) /\ Says(s[i], old[k])
  BY DEF ValuesOf
<1> HIDE DEF t, n
<1>4. ASSUME NEW k \in OptionNames, Of(t, n + 1, k) # {}
      PROVE  \E i \in Of(t, n + 1, k) : (\A j \in Of(t, n + 1, k) : j <= i) /\ Says(t[i], new[k])
  <2>1. CASE IsOption(l) /\ l.token = k /\ OptionTypes[k] # "button"
    <3>1. n + 1 \in Of(t, n + 1, k) /\ \A j \in Of(t, n + 1, k) : j <= n + 1
      BY <1>1, <1>2, <2>1
    <3>2. Says(t[n + 1], new[k])
      BY <1>2, <2>1
    <3> QED BY <3>1, <3>2
  <2>2. CASE ~(IsOption(l) /\ l.token = k /\ OptionTypes[k] # "button")
    <3>1. Of(t, n + 1, k) = Of(s, n, k)
      <4>1. \A i \in 1 .. n + 1 : i \in 1 .. n \/ i = n + 1
        BY <1>1
      <4>2. \A i \in 1 .. n : i \in 1 .. n + 1
        BY <1>1
      <4> QED BY <1>1, <1>2, <2>2, <4>1, <4>2
    <3>2. new[k] = old[k]
      BY <2>2
    <3>3. PICK i \in Of(s, n, k) : (\A j \in Of(s, n, k) : j <= i) /\ Says(s[i], old[k])
      BY <1>3, <1>4, <3>1
    <3>4. t[i] = s[i]
      BY <1>1, <3>3
    <3> QED BY <3>1, <3>2, <3>3, <3>4
  <2> QED BY <2>1, <2>2
<1> QED BY <1>4 DEF ValuesOf, t, n

\* The lines that have been read are honoured up to the last one, and the last one
\* too while there is more to read.
ConfigInv ==
    /\ fileLines \in Seq(ConfigLines) /\ attached \in Seq(ConfigLines)
    /\ DOMAIN configValues = OptionNames
    /\ reading = "reading" => AllHonoured(fileLines)
    /\ FileIsHonoured /\ ConfigIsLegal

LEMMA ConfigInitInv == ConfigInit => ConfigInv
<1> SUFFICES ASSUME ConfigInit PROVE ConfigInv
  OBVIOUS
<1>1. fileLines = <<>> /\ attached = <<>> /\ reading = "idle" /\ configValues = ConfigDefaults
  BY DEF ConfigInit
<1>2. HonouredOf(fileLines) = {} /\ DevicesOf(fileLines, {}) = {}
  BY <1>1 DEF HonouredOf, DevicesOf
<1>3. Cardinality({}) = 0 /\ Len(attached) = 0
  BY <1>1, FS_EmptySet
<1>4. FileIsHonoured
  BY <1>1, <1>2, <1>3, FileIsHonouredParts DEF ValuesOf, AttachedOf, LastByte
<1>5. ConfigIsLegal /\ DOMAIN configValues = OptionNames
  BY <1>1, SaneiConfigAssumption DEF ConfigIsLegal
<1> QED BY <1>1, <1>4, <1>5 DEF ConfigInv

LEMMA HonouredPrimed ==
    ASSUME ValuesOf(fileLines', HonouredOf(fileLines'), configValues'), LastByte(configValues'),
           AttachedOf(fileLines', HonouredOf(fileLines'), attached')
    PROVE  FileIsHonoured'
BY DEF FileIsHonoured, ValuesOf, AttachedOf, HonouredOf, Honoured, DevicesOf, UpTo, LastByte

LEMMA NoFileIsHonoured ==
    ASSUME fileLines' = <<>>, attached' = <<>>, LastByte(configValues')
    PROVE  FileIsHonoured'
<1>1. HonouredOf(fileLines') = {} /\ DevicesOf(fileLines', {}) = {}
  BY DEF HonouredOf, DevicesOf
<1>2. Cardinality({}) = 0 /\ Len(attached') = 0
  BY FS_EmptySet
<1>3. /\ ValuesOf(fileLines', HonouredOf(fileLines'), configValues')
      /\ AttachedOf(fileLines', HonouredOf(fileLines'), attached')
  BY <1>1, <1>2 DEF ValuesOf, AttachedOf
<1> QED BY <1>3, HonouredPrimed

LEMMA SameFileIsHonoured ==
    ASSUME FileIsHonoured, fileLines' = fileLines, attached' = attached, configValues' = configValues
    PROVE  FileIsHonoured'
<1>1. /\ ValuesOf(fileLines, HonouredOf(fileLines), configValues) /\ LastByte(configValues)
      /\ AttachedOf(fileLines, HonouredOf(fileLines), attached)
  BY FileIsHonouredParts
<1> QED BY <1>1, HonouredPrimed

LEMMA AllHonouredPrimed ==
    ASSUME NEW s, AllHonoured(s), fileLines' = s
    PROVE  AllHonoured(fileLines)'
BY DEF AllHonoured

\* A line that is read, whatever it is: what holds of the lines before it and of it.
LEMMA LineIsHonoured ==
    ASSUME ConfigInv, reading = "reading", NEW l \in ConfigLines, LineTaken(l),
           \/ /\ Refused(l) /\ reading' # "reading" /\ UNCHANGED <<configValues, attached>>
           \/ /\ ~Refused(l)
              /\ attached' = (IF IsDevice(l) THEN Append(attached, l) ELSE attached)
              /\ IF IsOption(l) /\ OptionTypes[l.token] # "button"
                 THEN configValues' = [configValues EXCEPT ![l.token] = CopiedInto(l, @)]
                 ELSE configValues' = configValues
    PROVE  /\ fileLines' \in Seq(ConfigLines) /\ attached' \in Seq(ConfigLines)
           /\ DOMAIN configValues' = OptionNames
           /\ reading' = "reading" => AllHonoured(fileLines)'
           /\ FileIsHonoured'
<1> DEFINE s == fileLines
           t == Append(s, l)
<1>1. /\ s \in Seq(ConfigLines) /\ attached \in Seq(ConfigLines) /\ DOMAIN configValues = OptionNames
      /\ AllHonoured(s) /\ fileLines' = t
  BY DEF ConfigInv, LineTaken
<1>2. /\ HonouredOf(s) = 1 .. Len(s)
      /\ HonouredOf(t) = (IF Refused(l) THEN 1 .. Len(s) ELSE 1 .. Len(s) + 1)
      /\ ~Refused(l) => AllHonoured(t)
  BY <1>1, HonouredAppended
<1>3. /\ ValuesOf(s, 1 .. Len(s), configValues) /\ LastByte(configValues)
      /\ AttachedOf(s, 1 .. Len(s), attached)
  BY <1>2, FileIsHonouredParts DEF ConfigInv
<1>4. t \in Seq(ConfigLines) /\ attached' \in Seq(ConfigLines) /\ DOMAIN configValues' = OptionNames
  <2>1. t \in Seq(ConfigLines) /\ Append(attached, l) \in Seq(ConfigLines)
    BY <1>1
  <2> QED BY <1>1, <2>1
<1>5. CASE Refused(l)
  <2>1. ValuesOf(t, 1 .. Len(s), configValues) /\ AttachedOf(t, 1 .. Len(s), attached)
    BY <1>1, <1>3, LinesKept
  <2>2. FileIsHonoured'
    BY <1>1, <1>2, <1>3, <1>5, <2>1, HonouredPrimed
  <2> QED BY <1>1, <1>4, <1>5, <2>2
<1>6. CASE ~Refused(l)
  <2>1. AttachedOf(t, 1 .. Len(s) + 1, attached')
    BY <1>1, <1>3, <1>6, AttachedAppended
  <2>2. ASSUME IsOption(l), OptionTypes[l.token] # "button" PROVE FileIsHonoured'
    <3> DEFINE c == CopiedInto(l, configValues[l.token])
    <3>1. l.token \in OptionNames /\ configValues' = [configValues EXCEPT ![l.token] = c]
      BY <1>6, <2>2 DEF IsOption
    <3>2. /\ Says(l, c)
          /\ TypeOf(l) = "string" => c[SizeOfValue(l)] \in {configValues[l.token][SizeOfValue(l)], NUL}
      BY <2>2, CopiedSays
    <3> HIDE DEF c
    <3>3. configValues'[l.token] = c /\ \A k \in OptionNames : k # l.token => configValues'[k] = configValues[k]
      BY <1>1, <3>1
    <3>4. ValuesOf(t, 1 .. Len(s) + 1, configValues')
      BY <1>1, <1>3, <2>2, <3>2, <3>3, ValuesAppended
    <3>5. LastByte(configValues')
      BY <1>3, <3>2, <3>3 DEF LastByte, TypeOf, SizeOfValue
    <3> QED BY <1>1, <1>2, <1>6, <2>1, <3>4, <3>5, HonouredPrimed
  <2>3. ASSUME ~(IsOption(l) /\ OptionTypes[l.token] # "button") PROVE FileIsHonoured'
    <3>1. configValues' = configValues
      BY <1>6, <2>3
    <3>2. ValuesOf(t, 1 .. Len(s) + 1, configValues')
      BY <1>1, <1>3, <2>3, <3>1, ValuesAppended
    <3> QED BY <1>1, <1>2, <1>3, <1>6, <2>1, <3>1, <3>2, HonouredPrimed
  <2>4. FileIsHonoured'
    BY <2>2, <2>3
  <2>5. AllHonoured(fileLines)'
    BY <1>1, <1>2, <1>6, AllHonouredPrimed
  <2> QED BY <1>1, <1>4, <2>4, <2>5
<1> QED BY <1>5, <1>6

\* What sanei_check_value accepts is legal once it has been copied.
LEMMA AcceptedIsLegal ==
    ASSUME ConfigInv, NEW l \in ConfigLines, IsOption(l), Accepted(l),
           configValues' = [configValues EXCEPT ![l.token] = CopiedInto(l, @)]
    PROVE  ConfigIsLegal'
<1> DEFINE n == l.token
           c == CopiedInto(l, configValues[n])
           size == OptionSizes[n]
           Legal(k, m) == \/ m = ConfigDefaults[k]
                          \/ /\ OptionChecks[k] = "each" => \A e \in 1 .. OptionSizes[k] : m[e] \in LegalValues[k]
                             /\ OptionChecks[k] = "first" => m[1] \in LegalValues[k]
                             /\ OptionChecks[k] = "text" /\ ConfigDefaults[k][OptionSizes[k]] = NUL
                                  => \E w \in LegalValues[k] : ReadsAs(m, w)
<1>1. n \in OptionNames /\ DOMAIN configValues = OptionNames
  BY DEF IsOption, ConfigInv
<1>2. \A k \in OptionNames : Legal(k, configValues[k])
  BY DEF ConfigInv, ConfigIsLegal
<1>3. /\ TypeOf(l) # "string" => c = Parsed(l)
      /\ TypeOf(l) = "string" => c[size] \in {configValues[n][size], NUL}
      /\ (TypeOf(l) = "string" /\ c[size] = NUL) => ReadsAs(c, TextOf(l))
  BY CopiedSays DEF SizeOfValue
<1>4. /\ OptionChecks[n] = "text" => OptionTypes[n] = "string"
      /\ OptionChecks[n] \in {"each", "first"} => OptionTypes[n] \in {"int", "bool"}
  BY <1>1, SaneiConfigAssumption
<1>5. configValues' = [configValues EXCEPT ![n] = c]
  BY DEF n, c
<1>6. ConfigIsLegal' <=> \A k \in OptionNames : Legal(k, configValues'[k])
  BY DEF ConfigIsLegal
<1> HIDE DEF c
<1>7. Legal(n, c)
  <2>1. ASSUME OptionChecks[n] = "each" PROVE \A e \in 1 .. size : c[e] \in LegalValues[n]
    BY <1>3, <1>4, <2>1 DEF Accepted, TypeOf, SizeOfValue
  <2>2. ASSUME OptionChecks[n] = "first" PROVE c[1] \in LegalValues[n]
    BY <1>3, <1>4, <2>2 DEF Accepted, TypeOf
  <2>3. ASSUME OptionChecks[n] = "text", ConfigDefaults[n][size] = NUL
        PROVE  \E w \in LegalValues[n] : ReadsAs(c, w)
    <3>1. TypeOf(l) = "string" /\ OptionTypes[n] = "string" /\ TextOf(l) \in LegalValues[n]
      BY <1>4, <2>3 DEF Accepted, TypeOf
    <3>2. configValues[n][size] = NUL
      BY <1>1, <2>3, <3>1, FileIsHonouredParts DEF ConfigInv, LastByte
    <3> QED BY <1>3, <3>1, <3>2
  <2> QED BY <2>1, <2>2, <2>3
<1> HIDE DEF Legal
<1> QED BY <1>1, <1>2, <1>5, <1>6, <1>7

\* Reading one line keeps what was honoured of the lines before.
LEMMA ConfigNextInv == ConfigInv /\ [ConfigNext]_configVars => ConfigInv'
<1> SUFFICES ASSUME ConfigInv, [ConfigNext]_configVars PROVE ConfigInv'
  OBVIOUS
<1> USE DEF ConfigInv
<1>1. CASE ConfigureAttach
  <2>0. LastByte(configValues')
    BY <1>1, FileIsHonouredParts DEF ConfigureAttach
  <2>1. FileIsHonoured' /\ ConfigIsLegal'
    BY <1>1, <2>0, NoFileIsHonoured DEF ConfigureAttach, ConfigIsLegal
  <2>2. fileLines' = <<>> /\ attached' = <<>> /\ configValues' = configValues
    BY <1>1 DEF ConfigureAttach
  <2>3. AllHonoured(fileLines)'
    BY <2>2 DEF AllHonoured
  <2> QED BY <2>1, <2>2, <2>3
<1>2. CASE ReadLine
  <2>1. PICK l \in ConfigLines : SkipLine(l) \/ CrashLine(l) \/ BadLine(l) \/ OptionLine(l) \/ DeviceLine(l)
    BY <1>2 DEF ReadLine
  <2>2. reading = "reading"
    BY <1>2 DEF ReadLine
  <2>3. CASE SkipLine(l)
    <3>1. ~Refused(l) /\ ~IsDevice(l) /\ ~IsOption(l)
      BY <2>3 DEF SkipLine, Refused, IsDevice, IsOption
    <3>2. LineTaken(l) /\ UNCHANGED <<attached, configValues, reading>>
      BY <2>3 DEF SkipLine
    <3> QED BY <2>2, <3>1, <3>2, LineIsHonoured DEF ConfigIsLegal
  <2>4. CASE CrashLine(l)
    <3>1. Crashes(l) /\ LineTaken(l) /\ UNCHANGED <<attached, configValues>> /\ reading' = "crashed"
      BY <2>4 DEF CrashLine
    <3>2. ~Refused(l) /\ ~IsDevice(l) /\ ~(IsOption(l) /\ OptionTypes[l.token] # "button")
      BY <3>1, SaneiConfigAssumption DEF Crashes, Refused, IsDevice, IsOption, TypeOf
    <3> QED BY <2>2, <3>1, <3>2, LineIsHonoured DEF ConfigIsLegal
  <2>5. CASE BadLine(l)
    <3>1. Refused(l) /\ LineTaken(l) /\ UNCHANGED <<attached, configValues>> /\ reading' # "reading"
      BY <2>5 DEF BadLine, Refused, CannotParse
    <3> QED BY <2>2, <3>1, LineIsHonoured DEF ConfigIsLegal
  <2>6. CASE OptionLine(l)
    <3>1. IsOption(l) /\ ~CannotParse(l) /\ LineTaken(l) /\ attached' = attached /\ ~IsDevice(l)
      BY <2>6 DEF OptionLine, IsOption, IsDevice
    <3>2. CASE OptionTypes[l.token] = "button"
      <4>1. ~Refused(l) /\ UNCHANGED <<configValues, reading>>
        BY <2>6, <3>2 DEF OptionLine, Refused, TypeOf
      <4> QED BY <2>2, <3>1, <3>2, <4>1, LineIsHonoured DEF ConfigIsLegal
    <3>3. CASE OptionTypes[l.token] # "button" /\ Accepted(l)
      <4>1. ~Refused(l) /\ configValues' = [configValues EXCEPT ![l.token] = CopiedInto(l, @)]
        BY <2>6, <3>1, <3>3 DEF OptionLine, Refused, TypeOf
      <4>2. ConfigIsLegal'
        BY <3>1, <3>3, <4>1, AcceptedIsLegal
      <4> QED BY <2>2, <3>1, <3>3, <4>1, <4>2, LineIsHonoured
    <3>4. CASE OptionTypes[l.token] # "button" /\ ~Accepted(l)
      <4>1. Refused(l) /\ configValues' = configValues /\ reading' # "reading"
        BY <2>6, <3>1, <3>4 DEF OptionLine, Refused, TypeOf
      <4> QED BY <2>2, <3>1, <4>1, LineIsHonoured DEF ConfigIsLegal
    <3> QED BY <3>2, <3>3, <3>4
  <2>7. CASE DeviceLine(l)
    <3>1. IsDevice(l) /\ ~IsOption(l) /\ ~Refused(l)
      BY <2>7 DEF DeviceLine, IsDevice, IsOption, Refused
    <3>2. LineTaken(l) /\ attached' = Append(attached, l) /\ configValues' = configValues
      BY <2>7 DEF DeviceLine
    <3> QED BY <2>2, <3>1, <3>2, LineIsHonoured DEF ConfigIsLegal
  <2> QED BY <2>1, <2>3, <2>4, <2>5, <2>6, <2>7
<1>3. CASE EndOfFile
  <2>1. UNCHANGED <<fileLines, attached, configValues>> /\ reading' # "reading"
    BY <1>3 DEF EndOfFile
  <2>2. FileIsHonoured' /\ ConfigIsLegal'
    BY <2>1, SameFileIsHonoured DEF ConfigIsLegal
  <2> QED BY <2>1, <2>2
<1>4. CASE UNCHANGED configVars
  <2>1. UNCHANGED <<fileLines, attached, configValues, reading>>
    BY <1>4 DEF configVars
  <2>2. FileIsHonoured' /\ ConfigIsLegal'
    BY <2>1, SameFileIsHonoured DEF ConfigIsLegal
  <2>3. reading = "reading" => AllHonoured(fileLines)'
    BY <2>1 DEF AllHonoured
  <2> QED BY <2>1, <2>2, <2>3
<1> QED BY <1>1, <1>2, <1>3, <1>4 DEF ConfigNext

\* Of a description of devices: what it leaves open is a star for the comparison.
MatchInv == DescribedIsFound

\* A device that is described by a line is among those that were found.
LEMMA MatchNextInv == MatchInv /\ [AttachMatching]_matchVars => MatchInv'
<1> SUFFICES ASSUME MatchInv, [AttachMatching]_matchVars PROVE MatchInv'
  OBVIOUS
<1>1. CASE AttachMatching
  <2>1. PICK ws \in ScsiWords :
          /\ wanted' = ws
          /\ found' = {d \in ScsiDevices : \A k \in 1 .. 7 : Criteria(ws)[k] \in {Wildcard, d[k]}}
    BY <1>1 DEF AttachMatching
  <2>2. ASSUME NEW d \in ScsiDevices, \A k \in 1 .. 7 : k <= Len(ws) => ws[k] \in {Wildcard, Unquoted, d[k]},
               NEW k \in 1 .. 7
        PROVE  Criteria(ws)[k] \in {Wildcard, d[k]}
    BY <2>2 DEF Criteria
  <2>3. \A d \in ScsiDevices : (\A k \in 1 .. 7 : k <= Len(ws) => ws[k] \in {Wildcard, Unquoted, d[k]}) => d \in found'
    BY <2>1, <2>2
  <2> QED BY <2>1, <2>3 DEF MatchInv, DescribedIsFound
<1>2. CASE UNCHANGED matchVars
  BY <1>2 DEF matchVars, MatchInv, DescribedIsFound
<1> QED BY <1>1, <1>2

MatchSpec == MatchInit /\ [][AttachMatching]_matchVars

\* At every step of reading a configuration file, the lines before the first that is
\* refused are honoured: an option has, element by element, what its last line says,
\* but for the end of a text that its memory has no room for, and the devices are
\* attached in order; no value is in it but the backend's own and those that
\* sanei_check_value accepts, a text as far as the memory has an end for it; and no
\* SCSI device that a description fits is left out.
THEOREM ConfigurationIsSafe == ConfigSpec /\ MatchSpec => []ConfigSafe
<1>1. ConfigSpec => []ConfigInv
  BY ConfigInitInv, ConfigNextInv, PTL DEF ConfigSpec
<1>2. MatchInit => MatchInv
  BY DEF MatchInit, MatchInv, DescribedIsFound
<1>3. MatchSpec => []MatchInv
  BY <1>2, MatchNextInv, PTL DEF MatchSpec
<1>4. ConfigInv /\ MatchInv => ConfigSafe
  BY DEF ConfigInv, MatchInv, ConfigSafe
<1> QED BY <1>1, <1>3, <1>4, PTL

-----------------------------------------------------------------------------
(* ConstrainValue.  What a value is made of is the nearest one there is,   *)
(* as far as the numbers stay within a word.                               *)

LEMMA WidthIsNat == Width \in Nat \ {0}
BY ConstrainValueAssumption DEF Width

\* What a C integer holds of a number.
LEMMA SignedIsInt == \A x \in Int : Signed(x) \in Int /\ Unsigned(x) \in Nat
<1> SUFFICES ASSUME NEW x \in Int PROVE Signed(x) \in Int /\ Unsigned(x) \in Nat
  OBVIOUS
<1> DEFINE w == Width
<1>1. w \in Nat \ {0}
  BY WidthIsNat
<1> HIDE DEF w
<1>2. x % w \in Nat
  BY <1>1
<1> QED BY <1>1, <1>2 DEF Signed, Unsigned, w

\* What fits into a word is kept as it is.
LEMMA SignedKeeps ==
    ASSUME NEW x \in Int, -Width <= 2 * x, 2 * x < Width
    PROVE  Signed(x) = x
<1> DEFINE w == Width
<1>1. w \in Nat \ {0} /\ -w <= 2 * x /\ 2 * x < w
  BY WidthIsNat
<1> HIDE DEF w
<1>2. x % w = (IF x >= 0 THEN x ELSE x + w)
  BY <1>1
<1> QED BY <1>1, <1>2 DEF Signed, Unsigned, w

LEMMA UnsignedKeeps ==
    ASSUME NEW x \in Nat, 2 * x < Width
    PROVE  Unsigned(x) = x
<1> DEFINE w == Width
<1>1. w \in Nat \ {0} /\ 2 * x < w
  BY WidthIsNat
<1> HIDE DEF w
<1> QED BY <1>1 DEF Unsigned, w

LEMMA Quotient ==
    ASSUME NEW a \in Nat, NEW q \in Nat \ {0}
    PROVE  /\ a \div q \in Nat
           /\ (a \div q) * q <= a
           /\ a < (a \div q) * q + q
OBVIOUS

LEMMA QuotientIs ==
    ASSUME NEW a \in Nat, NEW q \in Nat \ {0}, NEW k \in Nat, k * q <= a, a < k * q + q
    PROVE  a \div q = k
<1> DEFINE m == a \div q
<1>1. m \in Nat /\ m * q <= a /\ a < m * q + q
  BY Quotient
<1> HIDE DEF m
<1>2. ASSUME m < k PROVE FALSE
  <2>1. m + 1 <= k
    BY <1>1, <1>2
  <2>2. (m + 1) * q <= k * q
    BY <1>1, <2>1
  <2>3. (m + 1) * q = m * q + q
    BY <1>1
  <2> QED BY <1>1, <2>2, <2>3
<1>3. ASSUME k < m PROVE FALSE
  <2>1. k + 1 <= m
    BY <1>1, <1>3
  <2>2. (k + 1) * q <= m * q
    BY <1>1, <2>1
  <2>3. (k + 1) * q = k * q + q
    OBVIOUS
  <2> QED BY <1>1, <2>2, <2>3
<1> QED BY <1>1, <1>2, <1>3 DEF m

LEMMA HalfOf == \A q \in Nat \ {0} : q \div 2 \in Nat /\ 2 * (q \div 2) <= q /\ q <= 2 * (q \div 2) + 1 /\ q \div 2 < q
OBVIOUS

LEMMA Remainder0 ==
    ASSUME NEW a \in Nat, NEW q \in Nat \ {0}, a % q = 0
    PROVE  a = (a \div q) * q
OBVIOUS

\* Division by a quant keeps the order.
LEMMA Monotone ==
    ASSUME NEW j \in Int, NEW k \in Int, NEW q \in Nat, j + 1 <= k
    PROVE  j * q + q <= k * q
<1>1. (j + 1) * q <= k * q
  OBVIOUS
<1>2. (j + 1) * q = j * q + q
  OBVIOUS
<1> QED BY <1>1, <1>2

\* A range whose quant is q, which max - min is a multiple of.
Grid(mn, mx, q) ==
    /\ mn \in Int /\ mx \in Int /\ q \in Nat \ {0} /\ mn <= mx /\ (mx - mn) % q = 0
    /\ -Width <= 2 * mn /\ 2 * mx < Width
    /\ 2 * (mx - mn + (q \div 2)) < Width

Step(mn, q, c) == ((c - mn) + (q \div 2)) \div q

OnGrid(mn, q, c) ==
    Signed((Unsigned(Signed((c - mn) + (q \div 2))) \div q) * q + mn)

\* Where a value lies between two steps of a range.
LEMMA StepOf ==
    ASSUME NEW mn \in Int, NEW q \in Nat \ {0}, NEW c \in Int, mn <= c
    PROVE  /\ Step(mn, q, c) \in Nat
           /\ Step(mn, q, c) * q <= (c - mn) + (q \div 2)
           /\ (c - mn) + (q \div 2) < Step(mn, q, c) * q + q
<1>1. q \div 2 \in Nat
  BY HalfOf
<1>2. (c - mn) + (q \div 2) \in Nat
  BY <1>1
<1> QED BY <1>2, Quotient DEF Step

\* Rounding from min on does not pass max.
LEMMA OnGridInRange ==
    ASSUME NEW mn, NEW mx, NEW q, Grid(mn, mx, q), NEW c \in Int, mn <= c, c <= mx
    PROVE  /\ OnGrid(mn, q, c) = Step(mn, q, c) * q + mn
           /\ mn <= OnGrid(mn, q, c) /\ OnGrid(mn, q, c) <= mx
<1> DEFINE h == q \div 2
           k == Step(mn, q, c)
           m == (mx - mn) \div q
           w == Width
<1>1. /\ mn \in Int /\ mx \in Int /\ q \in Nat \ {0} /\ mn <= mx /\ (mx - mn) % q = 0
      /\ -w <= 2 * mn /\ 2 * mx < w /\ 2 * (mx - mn + h) < w /\ w \in Nat
  BY WidthIsNat DEF Grid
<1>2. h \in Nat /\ 2 * h <= q /\ h < q
  BY <1>1, HalfOf
<1>3. k \in Nat /\ k * q <= (c - mn) + h /\ (c - mn) + h < k * q + q
  BY <1>1, StepOf
<1>4. m \in Nat /\ mx - mn = m * q
  <2>1. mx - mn \in Nat
    BY <1>1
  <2> QED BY <1>1, <2>1, Quotient, Remainder0
<1>5. (c - mn) + h \in Nat /\ 2 * ((c - mn) + h) < w
  BY <1>1, <1>2
<1> HIDE DEF h, k, m, w
<1>6. k <= m
  <2>1. SUFFICES ASSUME m + 1 <= k PROVE FALSE
    BY <1>3, <1>4
  <2>2. m * q + q <= k * q
    BY <1>1, <1>3, <1>4, <2>1, Monotone
  <2> QED BY <1>1, <1>2, <1>3, <1>4, <2>2
<1>7. k * q \in Nat /\ k * q <= m * q
  <2>1. CASE k = m
    BY <1>1, <1>3, <2>1
  <2>2. CASE k + 1 <= m
    <3>1. k * q + q <= m * q
      BY <1>1, <1>3, <1>4, <2>2, Monotone
    <3>2. k * q \in Nat
      BY <1>1, <1>3
    <3>3. m * q \in Nat
      BY <1>1, <1>4
    <3> QED BY <1>1, <3>1, <3>2, <3>3
  <2> QED BY <1>3, <1>4, <1>6, <2>1, <2>2
<1>8. Signed((c - mn) + h) = (c - mn) + h
  BY <1>1, <1>5, SignedKeeps DEF w
<1>9. Unsigned((c - mn) + h) = (c - mn) + h
  BY <1>5, UnsignedKeeps DEF w
<1>10. Unsigned(Signed((c - mn) + h)) \div q = k
  BY <1>8, <1>9 DEF k, h, Step
<1>11. k * q + mn \in Int /\ mn <= k * q + mn /\ k * q + mn <= mx
  BY <1>1, <1>4, <1>7
<1>12. -w <= 2 * (k * q + mn) /\ 2 * (k * q + mn) < w
  BY <1>1, <1>11
<1>13. Signed(k * q + mn) = k * q + mn
  BY <1>11, <1>12, SignedKeeps DEF w
<1>14. OnGrid(mn, q, c) = k * q + mn
  BY <1>10, <1>13 DEF OnGrid, h
<1> QED BY <1>11, <1>14 DEF k

\* What is on the grid stays where it is.
LEMMA OnGridStays ==
    ASSUME NEW mn, NEW mx, NEW q, Grid(mn, mx, q), NEW k \in Nat, k * q + mn <= mx
    PROVE  OnGrid(mn, q, k * q + mn) = k * q + mn
<1> DEFINE h == q \div 2
           c == k * q + mn
<1>1. /\ mn \in Int /\ mx \in Int /\ q \in Nat \ {0}
  BY DEF Grid
<1>2. h \in Nat /\ h < q
  BY <1>1, HalfOf
<1>3. k * q \in Nat
  BY <1>1
<1>4. c \in Int /\ mn <= c /\ c <= mx /\ c - mn = k * q
  BY <1>1, <1>3
<1> HIDE DEF h
<1>5. (c - mn) + h \in Nat /\ k * q <= (c - mn) + h /\ (c - mn) + h < k * q + q
  BY <1>1, <1>2, <1>3, <1>4
<1> HIDE DEF c
<1>6. ((c - mn) + h) \div q = k
  BY <1>1, <1>5, QuotientIs
<1>7. Step(mn, q, c) = k
  BY <1>6 DEF Step, h
<1>8. OnGrid(mn, q, c) = Step(mn, q, c) * q + mn
  BY <1>4, OnGridInRange
<1> QED BY <1>7, <1>8 DEF c

Away(x, y) == AbsoluteValue(x - y)

\* No other place of the grid is nearer.
LEMMA OnGridNearest ==
    ASSUME NEW mn \in Int, NEW q \in Nat \ {0}, NEW c \in Int, mn <= c, NEW j \in Nat
    PROVE  Away(Step(mn, q, c) * q + mn, c) <= Away(j * q + mn, c)
<1> DEFINE h == q \div 2
           k == Step(mn, q, c)
           e == c - mn
           d == k * q
           g == j * q
<1>1. h \in Nat /\ 2 * h <= q /\ q <= 2 * h + 1
  BY HalfOf
<1>2. k \in Nat /\ d <= e + h /\ e + h < d + q
  BY StepOf
<1>3. d \in Nat /\ g \in Nat /\ e \in Nat
  BY <1>2
<1>4. CASE j = k
  <2>1. Away(d + mn, c) \in Int /\ d = g
    BY <1>3, <1>4 DEF Away, AbsoluteValue
  <2> QED BY <2>1
<1>5. CASE j + 1 <= k
  <2>1. g + q <= d
    BY <1>2, <1>5, Monotone
  <2> HIDE DEF g, d, k, h
  <2> QED BY <1>1, <1>2, <1>3, <2>1 DEF Away, AbsoluteValue, g, d, k
<1>6. CASE k + 1 <= j
  <2>1. d + q <= g
    BY <1>2, <1>6, Monotone
  <2> HIDE DEF g, d, k, h
  <2> QED BY <1>1, <1>2, <1>3, <2>1 DEF Away, AbsoluteValue, g, d, k
<1>7. j = k \/ j + 1 <= k \/ k + 1 <= j
  <2> HIDE DEF k
  <2> QED BY <1>2
<1> QED BY <1>4, <1>5, <1>6, <1>7

\* Range: what an element becomes.
LEMMA RangedNearest ==
    ASSUME NEW d \in Descriptors, d.constraint = "range", NEW v, Regular(d, v), NEW a \in Int
    PROVE  /\ InRange(d, Ranged(d, a))
           /\ \A x \in Int : InRange(d, x) => Away(Ranged(d, a), a) <= Away(x, a)
<1> DEFINE mn == d.min
           mx == d.max
           q == d.quant
           c == Clamped(d, a)
<1>1. mn \in Int /\ mx \in Int /\ q \in Nat /\ mn <= mx
  BY ConstrainValueAssumption DEF Regular
<1>2. c \in Int /\ mn <= c /\ c <= mx /\ c = (IF a < mn THEN mn ELSE IF a > mx THEN mx ELSE a)
  BY <1>1 DEF Clamped
<1> HIDE DEF c
<1>3. CASE q = 0
  <2>1. Ranged(d, a) = c
    BY <1>3 DEF Ranged, c
  <2>2. \A x \in Int : mn <= x /\ x <= mx => Away(c, a) <= Away(x, a)
    <3> HIDE DEF mn, mx
    <3> QED BY <1>1, <1>2 DEF Away, AbsoluteValue
  <2> QED BY <1>2, <1>3, <2>1, <2>2 DEF InRange
<1>4. CASE q # 0
  <2> DEFINE k == Step(mn, q, c)
             y == k * q + mn
  <2>1. Grid(mn, mx, q)
    <3>1. (mx - mn) % q = 0 /\ \A z \in {mn, mx, mx - mn + (q \div 2)} : -Width <= 2 * z /\ 2 * z < Width
      BY <1>4 DEF Regular, Fit
    <3> QED BY <1>1, <1>4, <3>1 DEF Grid
  <2>2. q \in Nat \ {0} /\ k \in Nat
    BY <1>1, <1>2, <1>4, StepOf
  <2>3. \A z : Quantized(d, z) = OnGrid(mn, q, z)
    BY DEF Quantized, OnGrid
  <2>4. Ranged(d, a) = y /\ mn <= y /\ y <= mx
    BY <1>2, <1>4, <2>1, <2>3, OnGridInRange DEF Ranged, c
  <2>5. OnGrid(mn, q, y) = y
    BY <2>1, <2>2, <2>4, OnGridStays
  <2>6. InRange(d, Ranged(d, a))
    BY <2>3, <2>4, <2>5 DEF InRange
  <2>7. ASSUME NEW x \in Int, InRange(d, x) PROVE Away(y, a) <= Away(x, a)
    <3> DEFINE j == Step(mn, q, x)
    <3>1. mn <= x /\ x <= mx /\ OnGrid(mn, q, x) = x
      BY <1>4, <2>3, <2>7 DEF InRange
    <3>2. x = j * q + mn
      BY <2>1, <3>1, OnGridInRange
    <3>3. j \in Nat
      BY <1>1, <2>2, <3>1, StepOf
    <3>4. Away(y, c) <= Away(x, c)
      <4> HIDE DEF j
      <4> QED BY <1>1, <1>2, <2>2, <3>2, <3>3, OnGridNearest
    <3>5. y \in Int
      <4> HIDE DEF k
      <4>1. k * q \in Nat
        BY <2>2
      <4> QED BY <1>1, <4>1
    <3> HIDE DEF y, j, mn, mx
    <3>6. CASE a < mn
      \* c = mn: x is the nearer to it the nearer it is to a
      BY <1>1, <1>2, <2>4, <3>1, <3>4, <3>5, <3>6 DEF Away, AbsoluteValue
    <3>7. CASE ~(a < mn) /\ a > mx
      BY <1>1, <1>2, <2>4, <3>1, <3>4, <3>5, <3>7 DEF Away, AbsoluteValue
    <3>8. CASE ~(a < mn) /\ ~(a > mx)
      BY <1>2, <3>4, <3>8
    <3> QED BY <3>6, <3>7, <3>8
  <2> QED BY <2>4, <2>6, <2>7
<1> QED BY <1>3, <1>4

LEMMA InRangeStays ==
    ASSUME NEW d \in Descriptors, d.constraint = "range", NEW a \in Int, InRange(d, a)
    PROVE  Ranged(d, a) = a /\ ~Moved(d, a)
<1>1. d.min \in Int /\ d.max \in Int
  BY ConstrainValueAssumption
<1>2. Clamped(d, a) = a
  BY <1>1 DEF InRange, Clamped
<1> QED BY <1>2 DEF InRange, Ranged, Moved

-----------------------------------------------------------------------------
\* Words: there is a first one among the nearest.

\* Induction over the numbers, as a fact about sets.
LEMMA NatSetInduction ==
    ASSUME NEW S, 0 \in S, \A n \in Nat : n \in S => n + 1 \in S
    PROVE  Nat \subseteq S
<1> SUFFICES ASSUME Nat \ S # {} PROVE FALSE
    OBVIOUS
<1> DEFINE T == {1 .. n : n \in Nat \ S}
<1>1. T \subseteq FiniteSubsetsOf(Nat) /\ T # {}
  <2>1. ASSUME NEW n \in Nat PROVE (1 .. n) \in FiniteSubsetsOf(Nat)
    <3>1. IsFiniteSet(1 .. n)
          BY FS_Interval
    <3>2. (1 .. n) \subseteq Nat
          OBVIOUS
    <3> QED BY <3>1, <3>2 DEF FiniteSubsetsOf
  <2> QED BY <2>1
<1>2. IsWellFoundedOn(StrictSubsetOrdering(Nat), FiniteSubsetsOf(Nat))
      BY FS_StrictSubsetOrderingWellFounded
<1> HIDE DEF T
<1>3. PICK x \in T : \A y \in T : <<y, x>> \notin StrictSubsetOrdering(Nat)
      BY <1>1, <1>2, WFMin
<1>4. PICK n \in Nat \ S : x = 1 .. n
      BY DEF T
<1>5. n # 0 /\ n - 1 \in Nat \ S
      OBVIOUS
<1>6. (1 .. (n - 1)) \in T
      BY <1>5 DEF T
<1>7. <<1 .. (n - 1), 1 .. n>> \in StrictSubsetOrdering(Nat)
  <2>1. n \in 1 .. n /\ n \notin 1 .. (n - 1)
        BY <1>5
  <2>2. (1 .. (n - 1)) \subseteq 1 .. n
        OBVIOUS
  <2> QED BY <2>1, <2>2, <1>5 DEF StrictSubsetOrdering
<1> QED BY <1>3, <1>4, <1>6, <1>7

First(f, n, i) == \A j \in 1 .. n : IF j < i THEN f[i] < f[j] ELSE f[i] <= f[j]

\* Of finitely many numbers there is a first smallest.
LEMMA FirstLeast ==
    ASSUME NEW m \in Nat \ {0}, NEW f \in [1 .. m -> Int]
    PROVE  \E i \in 1 .. m : First(f, m, i)
<1> DEFINE T == {n \in Nat : n \in 1 .. m => \E i \in 1 .. n : First(f, n, i)}
<1>1. 0 \in T
  OBVIOUS
<1>2. ASSUME NEW n \in Nat, n \in T PROVE n + 1 \in T
  <2>1. CASE n + 1 > m
    BY <2>1
  <2>2. CASE n = 0 /\ n + 1 <= m
    <3>1. \A j \in 1 .. 1 : j = 1
      OBVIOUS
    <3>2. First(f, 1, 1)
      BY <3>1 DEF First
    <3> QED BY <2>2, <3>2
  <2>3. CASE n # 0 /\ n + 1 <= m
    <3>1. PICK i \in 1 .. n : First(f, n, i)
      BY <1>2, <2>3
    <3>2. \A j \in 1 .. n + 1 : f[j] \in Int /\ (j \in 1 .. n \/ j = n + 1)
      BY <2>3
    <3>3. CASE f[n + 1] < f[i]
      <4>1. \A j \in 1 .. n : f[n + 1] < f[j]
        BY <3>1, <3>2, <3>3 DEF First
      <4>2. First(f, n + 1, n + 1)
        BY <3>2, <4>1 DEF First
      <4> QED BY <2>3, <4>2
    <3>4. CASE ~(f[n + 1] < f[i])
      <4>1. First(f, n + 1, i)
        BY <3>1, <3>2, <3>4 DEF First
      <4> QED BY <2>3, <4>1
    <3> QED BY <3>3, <3>4
  <2> QED BY <2>1, <2>2, <2>3
<1> HIDE DEF T
<1>3. m \in T
  BY <1>1, <1>2, NatSetInduction
<1> QED BY <1>3 DEF T

LEMMA DistanceIsInt == \A w, x \in Int : Distance(w, x) \in Int
BY SignedIsInt DEF Distance

\* The word that the code ends with is the first among the nearest.
LEMMA NearestIs ==
    ASSUME NEW list \in Seq(Int), list # <<>>, NEW w \in Int
    PROVE  /\ Nearest(list, w) \in DOMAIN list
           /\ \A j \in DOMAIN list : Distance(w, list[Nearest(list, w)]) <= Distance(w, list[j])
<1> DEFINE f == [i \in 1 .. Len(list) |-> Distance(w, list[i])]
           P(i) == \A j \in DOMAIN list : IF j < i THEN Distance(w, list[i]) < Distance(w, list[j])
                                                   ELSE Distance(w, list[i]) <= Distance(w, list[j])
<1>1. Len(list) \in Nat \ {0} /\ DOMAIN list = 1 .. Len(list) /\ \A i \in 1 .. Len(list) : list[i] \in Int
  OBVIOUS
<1>2. f \in [1 .. Len(list) -> Int]
  BY <1>1, DistanceIsInt
<1>3. PICK i \in 1 .. Len(list) : First(f, Len(list), i)
  <2> HIDE DEF f
  <2> QED BY <1>1, <1>2, FirstLeast
<1>4. \E k \in DOMAIN list : P(k)
  <2>1. P(i)
    BY <1>1, <1>3 DEF First
  <2> QED BY <1>1, <2>1
<1>5. Nearest(list, w) \in DOMAIN list /\ P(Nearest(list, w))
  <2>1. Nearest(list, w) = CHOOSE k \in DOMAIN list : P(k)
    BY DEF Nearest
  <2> HIDE DEF P
  <2> QED BY <1>4, <2>1
<1> DEFINE u == Nearest(list, w)
<1> HIDE DEF u
<1>6. u \in DOMAIN list /\ P(u)
  BY <1>5 DEF u
<1>7. \A j \in DOMAIN list : Distance(w, list[u]) \in Int /\ Distance(w, list[j]) \in Int
  BY <1>1, <1>6, DistanceIsInt
<1>8. \A j \in DOMAIN list : Distance(w, list[u]) <= Distance(w, list[j])
  BY <1>1, <1>6, <1>7
<1> QED BY <1>6, <1>8 DEF u

\* The distance that the code takes is the distance, where it fits into a word.
LEMMA DistanceIsAway ==
    ASSUME NEW w \in Int, NEW x \in Int, Fit({w - x, x - w})
    PROVE  Distance(w, x) = Away(x, w)
<1>1. Signed(w - x) = w - x /\ Signed(x - w) = x - w
  BY SignedKeeps DEF Fit
<1>2. -(w - x) = x - w
  OBVIOUS
<1> QED BY <1>1, <1>2 DEF Distance, Away, AbsoluteValue

-----------------------------------------------------------------------------
\* What a value is made of: the elements the descriptor asks for.
ConstrainInv ==
    /\ option \in Descriptors /\ inexact \in BOOLEAN
    /\ option.constraint \in {"range", "bool"} => value \in [1 .. option.count -> Int]
    /\ option.constraint = "words" => value \in [1 .. 1 -> Int]
    /\ option.constraint = "strings" => value \in Seq(Int)

LEMMA RangedIsInt ==
    ASSUME NEW d \in Descriptors, d.constraint = "range", NEW a \in Int
    PROVE  Ranged(d, a) \in Int
<1>1. d.min \in Int /\ d.max \in Int /\ d.quant \in Nat
  BY ConstrainValueAssumption
<1>2. Clamped(d, a) \in Int
  BY <1>1 DEF Clamped
<1>3. ASSUME d.quant # 0 PROVE Quantized(d, Clamped(d, a)) \in Int
  <2> DEFINE u == Unsigned(Signed((Clamped(d, a) - d.min) + (d.quant \div 2)))
  <2>1. d.quant \div 2 \in Nat
    BY <1>1, <1>3, HalfOf
  <2>2. u \in Nat
    BY <1>1, <1>2, <2>1, SignedIsInt
  <2> HIDE DEF u
  <2>3. u \div d.quant \in Nat
    BY <1>1, <1>3, <2>2, Quotient
  <2>4. (u \div d.quant) * d.quant + d.min \in Int
    BY <1>1, <2>3
  <2>5. Quantized(d, Clamped(d, a)) = Signed((u \div d.quant) * d.quant + d.min)
    BY DEF Quantized, u
  <2> QED BY <2>4, <2>5, SignedIsInt
<1> QED BY <1>2, <1>3 DEF Ranged

LEMMA ConstrainInitInv == ConstrainInit => ConstrainInv
<1> SUFFICES ASSUME ConstrainInit PROVE ConstrainInv
  OBVIOUS
<1>1. option \in Descriptors /\ inexact \in BOOLEAN /\ value \in Inputs(option)
  BY DEF ConstrainInit
<1>2. WordInputs \subseteq Int /\ Letters \subseteq Int /\ MaxLetters \in Nat
  BY ConstrainValueAssumption
<1>3. CASE option.constraint \in {"range", "bool"}
  BY <1>1, <1>2, <1>3 DEF Inputs, ConstrainInv
<1>4. CASE option.constraint = "words"
  BY <1>1, <1>2, <1>4 DEF Inputs, ConstrainInv
<1>5. CASE option.constraint = "strings"
  <2>1. PICK n \in 0 .. MaxLetters : value \in [1 .. n -> Letters]
    BY <1>1, <1>5 DEF Inputs
  <2>2. value \in Seq(Int)
    <3>0. \A i \in 1 .. n : value[i] \in Letters
      BY <2>1
    <3>1. n \in Nat /\ \A i \in 1 .. n : value[i] \in Int
      <4>1. n \in Nat
        BY <1>2
      <4>2. \A i \in 1 .. n : value[i] \in Int
        BY <1>2, <3>0
      <4> QED BY <4>1, <4>2
    <3>2. value = [i \in 1 .. n |-> value[i]]
      BY <2>1
    <3>3. value \in [1 .. n -> Int]
      BY <3>1, <3>2
    <3> QED BY <3>1, <3>3
  <2> QED BY <1>1, <1>5, <2>2 DEF ConstrainInv
<1> QED BY <1>1, <1>3, <1>4, <1>5, ConstrainValueAssumption

LEMMA ChosenMatches == \A list, s : Chosen(list, s) \subseteq Matches(list, s)
BY DEF Chosen

LEMMA ConstrainNextInv == ConstrainInv /\ [ConstrainNext]_constrainVars => ConstrainInv'
<1> SUFFICES ASSUME ConstrainInv, [ConstrainNext]_constrainVars PROVE ConstrainInv'
  OBVIOUS
<1> USE DEF ConstrainInv
<1>1. CASE UNCHANGED <<option, value, inexact>>
  BY <1>1
<1>2. CASE ConstrainRange /\ UNCHANGED option
  <2>1. value \in [1 .. option.count -> Int]
    BY <1>2 DEF ConstrainRange
  <2>2. value' \in [1 .. option.count -> Int]
    BY <1>2, <2>1, RangedIsInt DEF ConstrainRange
  <2> QED BY <1>2, <2>2 DEF ConstrainRange
<1>3. CASE ConstrainWord /\ UNCHANGED option
  <2> DEFINE list == option.list
  <2>1. list \in Seq(Int) /\ list # <<>> /\ value[1] \in Int
    BY <1>3, ConstrainValueAssumption DEF ConstrainWord
  <2>2. list[Nearest(list, value[1])] \in Int
    <3>1. Nearest(list, value[1]) \in DOMAIN list
      BY <2>1, NearestIs
    <3> HIDE DEF list
    <3> QED BY <2>1, <3>1
  <2>3. value' = <<list[Nearest(list, value[1])]>>
    BY <1>3 DEF ConstrainWord
  <2> HIDE DEF list
  <2>4. value' \in [1 .. 1 -> Int]
    BY <2>2, <2>3
  <2> QED BY <1>3, <2>4 DEF ConstrainWord
<1>4. CASE ConstrainString /\ UNCHANGED option
  <2>1. option.list \in Seq(Seq(Int)) /\ value \in Seq(Int)
    BY <1>4, ConstrainValueAssumption DEF ConstrainString
  <2>2. \A i \in Chosen(option.list, value) : i \in DOMAIN option.list
    BY ChosenMatches DEF Matches
  <2>3. value' \in Seq(Int)
    BY <1>4, <2>1, <2>2 DEF ConstrainString
  <2> QED BY <1>4, <2>3 DEF ConstrainString
<1>5. CASE ConstrainBool /\ UNCHANGED option
  BY <1>5 DEF ConstrainBool
<1> QED BY <1>1, <1>2, <1>3, <1>4, <1>5 DEF ConstrainNext, CheckValue, ConstrainValue, constrainVars

\* One lemma for each kind of constraint.
StepIsSafe == MadeNearest /\ ChangeTold /\ Resolved /\ AcceptedKept

\* The steps of sanei_constrain_value, one for each kind of constraint.
LEMMA RangeIsSafe == ConstrainInv /\ ConstrainRange => StepIsSafe
<1> SUFFICES ASSUME ConstrainInv, ConstrainRange PROVE StepIsSafe
  OBVIOUS
<1> DEFINE n == option.count
<1>1. option \in Descriptors /\ option.constraint = "range" /\ value \in [1 .. n -> Int]
  BY DEF ConstrainInv, ConstrainRange
<1>2. /\ value' = [i \in 1 .. n |-> Ranged(option, value[i])]
      /\ inexact' = (inexact \/ \E i \in 1 .. n : Moved(option, value[i]))
      /\ verdict' = "GOOD"
  BY <1>1 DEF ConstrainRange
<1> HIDE DEF n
<1>3. \A i \in 1 .. n : value[i] \in Int
  BY <1>1
<1>4. \A i \in 1 .. n : value'[i] = Ranged(option, value[i])
  BY <1>2
<1>5. MadeNearest
  <2> SUFFICES ASSUME Regular(option, value)
               PROVE  /\ Check(option, value') = "GOOD"
                      /\ \A i \in DOMAIN value : \A x \in {w \in WordInputs : Admits(option, w)} :
                           AbsoluteValue(value'[i] - value[i]) <= AbsoluteValue(x - value[i])
    BY DEF MadeNearest
  <2>1. \A i \in 1 .. n : /\ InRange(option, Ranged(option, value[i]))
                          /\ \A x \in Int : InRange(option, x) => Away(Ranged(option, value[i]), value[i]) <= Away(x, value[i])
    BY <1>1, <1>3, RangedNearest
  <2>2. DOMAIN value' = 1 .. n /\ DOMAIN value = 1 .. n
    BY <1>1, <1>2
  <2>3. Check(option, value') = "GOOD"
    BY <1>1, <1>4, <2>1, <2>2 DEF Check
  <2>4. \A x \in {w \in WordInputs : Admits(option, w)} : x \in Int /\ InRange(option, x)
    BY <1>1, ConstrainValueAssumption DEF Admits
  <2> QED BY <1>4, <2>1, <2>2, <2>3, <2>4 DEF Away
<1>6. ChangeTold
  <2> SUFFICES ASSUME \A i \in 1 .. n : ~Moved(option, value[i]) PROVE value' = value
    BY <1>2 DEF ChangeTold
  <2>1. ASSUME NEW i \in 1 .. n PROVE value'[i] = value[i]
    BY <1>4, <2>1 DEF Moved
  <2> QED BY <1>1, <1>2, <2>1
<1>7. Resolved
  BY <1>1 DEF Resolved
<1>8. AcceptedKept
  <2> SUFFICES ASSUME Check(option, value) = "GOOD" PROVE value' = value /\ inexact' = inexact
    BY <1>2 DEF AcceptedKept
  <2>1. \A i \in 1 .. n : InRange(option, value[i])
    BY <1>1 DEF Check
  <2>2. \A i \in 1 .. n : Ranged(option, value[i]) = value[i] /\ ~Moved(option, value[i])
    BY <1>1, <1>3, <2>1, InRangeStays
  <2>3. value' = value
    BY <1>1, <1>2, <2>2
  <2>4. inexact' = inexact
    <3>1. ~\E i \in 1 .. n : Moved(option, value[i])
      BY <2>2
    <3>2. inexact \in BOOLEAN
      BY DEF ConstrainInv
    <3> QED BY <1>2, <3>1, <3>2
  <2> QED BY <2>3, <2>4
<1> QED BY <1>5, <1>6, <1>7, <1>8 DEF StepIsSafe

LEMMA WordIsSafe == ConstrainInv /\ ConstrainWord => StepIsSafe
<1> SUFFICES ASSUME ConstrainInv, ConstrainWord PROVE StepIsSafe
  OBVIOUS
<1> DEFINE list == option.list
           w == value[1]
           k == Nearest(list, w)
<1>1. /\ option \in Descriptors /\ option.constraint = "words" /\ value \in [1 .. 1 -> Int]
      /\ list \in Seq(Int) /\ list # <<>> /\ w \in Int
  BY ConstrainValueAssumption DEF ConstrainInv, ConstrainWord
<1>2. k \in DOMAIN list /\ \A j \in DOMAIN list : Distance(w, list[k]) <= Distance(w, list[j])
  <2> HIDE DEF list, w
  <2> QED BY <1>1, NearestIs
<1>3. \A j \in DOMAIN list : list[j] \in Int
  BY <1>1
<1>4. value' = <<list[k]>> /\ inexact' = (inexact \/ value' # value) /\ verdict' = "GOOD"
  BY DEF ConstrainWord
<1>5. DOMAIN value = {1} /\ value'[1] = list[k] /\ DOMAIN value' = {1}
  BY <1>1, <1>4
<1>6. ASSUME Regular(option, value)
      PROVE  \A j \in DOMAIN list : Distance(w, list[j]) = Away(list[j], w)
  <2>1. \A j \in DOMAIN list : Fit({w - list[j], list[j] - w})
    BY <1>1, <1>6 DEF Regular
  <2> HIDE DEF list, w
  <2> QED BY <1>1, <1>3, <2>1, DistanceIsAway
<1> HIDE DEF list, w, k
<1>7. MadeNearest
  <2> SUFFICES ASSUME Regular(option, value)
               PROVE  /\ Check(option, value') = "GOOD"
                      /\ \A i \in DOMAIN value : \A x \in {y \in WordInputs : Admits(option, y)} :
                           AbsoluteValue(value'[i] - value[i]) <= AbsoluteValue(x - value[i])
    BY DEF MadeNearest
  <2>1. Check(option, value') = "GOOD"
    BY <1>1, <1>2, <1>5 DEF Check, list
  <2>2. \A j \in DOMAIN list : Away(list[k], w) <= Away(list[j], w)
    BY <1>2, <1>6
  <2>3. \A x \in {y \in WordInputs : Admits(option, y)} : \E j \in DOMAIN list : x = list[j]
    BY <1>1 DEF Admits, list
  <2>4. \A x \in {y \in WordInputs : Admits(option, y)} : Away(list[k], w) <= Away(x, w)
    BY <2>2, <2>3
  <2> QED BY <1>5, <2>1, <2>4 DEF Away, w
<1>8. ChangeTold
  BY <1>4 DEF ChangeTold
<1>9. Resolved
  BY <1>1 DEF Resolved
<1>10. AcceptedKept
  <2> SUFFICES ASSUME Regular(option, value), Check(option, value) = "GOOD"
               PROVE  value' = value /\ inexact' = inexact
    BY <1>4 DEF AcceptedKept
  <2>1. PICK j \in DOMAIN list : list[j] = w
    BY <1>1 DEF Check, list, w
  <2>2. Away(list[k], w) <= Away(w, w)
    BY <1>2, <1>6, <2>1
  <2>3. list[k] = w
    BY <1>1, <1>2, <1>3, <2>2 DEF Away, AbsoluteValue
  <2>4. value' = <<value[1]>>
    BY <1>4, <2>3 DEF w
  <2>5. value' = value
    BY <1>1, <2>4
  <2>6. inexact \in BOOLEAN
    BY DEF ConstrainInv
  <2> QED BY <1>4, <2>5, <2>6
<1> QED BY <1>7, <1>8, <1>9, <1>10 DEF StepIsSafe

\* Folding the case of a string keeps its length.
LEMMA FoldedLength ==
    ASSUME NEW s \in Seq(Int), NEW t \in Seq(Int), Folded(s) = Folded(t)
    PROVE  Len(s) = Len(t)
<1>1. DOMAIN Folded(s) = 1 .. Len(s) /\ DOMAIN Folded(t) = 1 .. Len(t)
  BY DEF Folded
<1> QED BY <1>1

\* Of strings that differ in more than case, one at most is the whole of s.
LEMMA WholeIsOne ==
    ASSUME NEW list \in Seq(Seq(Int)), NEW s \in Seq(Int),
           \A i, j \in DOMAIN list : Folded(list[i]) = Folded(list[j]) => i = j
    PROVE  \/ \E i \in DOMAIN list : Chosen(list, s) = {i} /\ Len(list[i]) = Len(s) /\ Folded(list[i]) = Folded(s)
           \/ /\ \A i \in DOMAIN list : Folded(list[i]) # Folded(s)
              /\ Chosen(list, s) = IF Cardinality(Matches(list, s)) = 1 THEN Matches(list, s) ELSE {}
<1> DEFINE exact == {i \in Matches(list, s) : Len(list[i]) = Len(s)}
<1>1. \A i \in DOMAIN list : list[i] \in Seq(Int)
  OBVIOUS
<1>2. \A i \in DOMAIN list : Len(list[i]) = Len(s) => SubSeq(list[i], 1, Len(s)) = list[i]
  BY <1>1
<1>3. \A i \in DOMAIN list : i \in exact <=> Folded(list[i]) = Folded(s)
  <2>1. \A i \in DOMAIN list : i \in exact => Folded(list[i]) = Folded(s)
    BY <1>2 DEF Matches
  <2>2. ASSUME NEW i \in DOMAIN list, Folded(list[i]) = Folded(s) PROVE i \in exact
    <3>1. Len(list[i]) = Len(s)
      BY <1>1, <2>2, FoldedLength
    <3>2. Len(s) <= Len(list[i])
      BY <1>1, <3>1
    <3> QED BY <1>2, <2>2, <3>1, <3>2 DEF Matches
  <2> QED BY <2>1, <2>2
<1>4. exact \subseteq DOMAIN list
  BY DEF Matches
<1>5. Chosen(list, s) = IF exact # {} THEN {i \in exact : \A j \in exact : i <= j}
                        ELSE IF Cardinality(Matches(list, s)) = 1 THEN Matches(list, s) ELSE {}
  BY DEF Chosen
<1>6. CASE exact = {}
  <2>1. \A i \in DOMAIN list : Folded(list[i]) # Folded(s)
    <3> HIDE DEF exact
    <3> QED BY <1>3, <1>6
  <2> QED BY <1>5, <1>6, <2>1
<1>7. CASE exact # {}
  <2>1. PICK i : i \in exact
    BY <1>7
  <2>2. i \in DOMAIN list /\ Len(list[i]) = Len(s) /\ i \in Int
    BY <2>1 DEF Matches
  <2> HIDE DEF exact
  <2>3. \A j \in exact : j = i
    BY <1>3, <1>4, <2>1, <2>2
  <2>4. Chosen(list, s) = {i}
    BY <1>5, <1>7, <2>1, <2>2, <2>3
  <2> QED BY <1>3, <2>1, <2>2, <2>4
<1> QED BY <1>6, <1>7

LEMMA StringIsSafe == ConstrainInv /\ ConstrainString => StepIsSafe
<1> SUFFICES ASSUME ConstrainInv, ConstrainString PROVE StepIsSafe
  OBVIOUS
<1> DEFINE list == option.list
<1>1. /\ option \in Descriptors /\ option.constraint = "strings" /\ value \in Seq(Int)
      /\ list \in Seq(Seq(Int)) /\ inexact' = inexact
  BY ConstrainValueAssumption DEF ConstrainInv, ConstrainString
<1>2. \/ /\ \E i \in Chosen(list, value) : value' = list[i]
         /\ verdict' = "GOOD"
      \/ /\ Chosen(list, value) = {}
         /\ verdict' = "INVAL" /\ value' = value
  BY DEF ConstrainString
<1>3. ASSUME verdict' = "GOOD"
      PROVE  \E i \in DOMAIN list : i \in Chosen(list, value) /\ i \in Matches(list, value) /\ value' = list[i]
  <2>1. PICK i \in Chosen(list, value) : value' = list[i]
    BY <1>2, <1>3
  <2>2. i \in Matches(list, value)
    BY <2>1, ChosenMatches
  <2> QED BY <2>1, <2>2 DEF Matches
<1>4. ASSUME Regular(option, value)
      PROVE  \A i, j \in DOMAIN list : Folded(list[i]) = Folded(list[j]) => i = j
  BY <1>1, <1>4 DEF Regular
<1> HIDE DEF list
<1>5. ASSUME Regular(option, value)
      PROVE  \/ \E i \in DOMAIN list : Chosen(list, value) = {i} /\ Len(list[i]) = Len(value) /\ Folded(list[i]) = Folded(value)
             \/ /\ \A i \in DOMAIN list : Folded(list[i]) # Folded(value)
                /\ Chosen(list, value) = IF Cardinality(Matches(list, value)) = 1 THEN Matches(list, value) ELSE {}
  BY <1>1, <1>4, <1>5, WholeIsOne
<1>6. MadeNearest
  BY <1>1, <1>3 DEF MadeNearest, Check, list
<1>7. ChangeTold
  BY <1>1 DEF ChangeTold
<1>8. Resolved
  <2> SUFFICES ASSUME Regular(option, value)
               PROVE  IF verdict' = "GOOD"
                      THEN /\ Len(value) <= Len(value') /\ \E i \in DOMAIN list : list[i] = value'
                           /\ Folded(SubSeq(value', 1, Len(value))) = Folded(value)
                           /\ Folded(value') = Folded(value) \/ Cardinality(Matches(list, value)) = 1
                      ELSE /\ value' = value /\ Cardinality(Matches(list, value)) # 1
                           /\ \A i \in DOMAIN list : Folded(list[i]) # Folded(value)
    BY <1>1 DEF Resolved, list
  <2>1. CASE verdict' = "GOOD"
    <3>1. PICK i \in DOMAIN list : i \in Chosen(list, value) /\ i \in Matches(list, value) /\ value' = list[i]
      BY <1>3, <2>1
    <3>2. Len(value) <= Len(value') /\ Folded(SubSeq(value', 1, Len(value))) = Folded(value)
      BY <3>1 DEF Matches
    <3>3. Folded(value') = Folded(value) \/ Cardinality(Matches(list, value)) = 1
      BY <1>5, <3>1
    <3> QED BY <2>1, <3>1, <3>2, <3>3
  <2>2. CASE verdict' # "GOOD"
    <3>1. Chosen(list, value) = {} /\ value' = value
      BY <1>2, <2>2
    <3>2. \A i \in DOMAIN list : Folded(list[i]) # Folded(value)
      BY <1>5, <3>1
    <3>3. Cardinality(Matches(list, value)) # 1
      <4>1. SUFFICES ASSUME Cardinality(Matches(list, value)) = 1 PROVE FALSE
        OBVIOUS
      <4>2. Matches(list, value) = {}
        BY <1>5, <3>1, <4>1
      <4> QED BY <4>1, <4>2, FS_EmptySet
    <3> QED BY <2>2, <3>1, <3>2, <3>3
  <2> QED BY <2>1, <2>2
<1>9. AcceptedKept
  <2> SUFFICES ASSUME Regular(option, value), Check(option, value) = "GOOD"
               PROVE  value' = value /\ verdict' = "GOOD"
    BY <1>1 DEF AcceptedKept
  <2>1. PICK i \in DOMAIN list : list[i] = value
    BY <1>1 DEF Check, list
  <2>2. PICK j \in DOMAIN list : Chosen(list, value) = {j} /\ Folded(list[j]) = Folded(value)
    BY <1>5, <2>1
  <2>3. i = j
    BY <1>4, <2>1, <2>2
  <2> QED BY <1>2, <2>1, <2>2, <2>3
<1> QED BY <1>6, <1>7, <1>8, <1>9 DEF StepIsSafe

LEMMA BoolIsSafe == ConstrainInv /\ ConstrainBool => StepIsSafe
<1> SUFFICES ASSUME ConstrainInv, ConstrainBool PROVE StepIsSafe
  OBVIOUS
<1>1. /\ option \in Descriptors /\ option.constraint = "bool" /\ value \in [1 .. option.count -> Int]
      /\ option.count \in Nat \ {0}
      /\ value' = value /\ inexact' = inexact
      /\ verdict' = (IF value[1] \in {0, 1} THEN "GOOD" ELSE "INVAL")
  BY ConstrainValueAssumption DEF ConstrainInv, ConstrainBool
<1>2. 1 \in DOMAIN value
  BY <1>1
<1>3. Check(option, value) = "GOOD" => verdict' = "GOOD"
  BY <1>1, <1>2 DEF Check
<1>4. ASSUME Regular(option, value), verdict' = "GOOD" PROVE Check(option, value') = "GOOD"
  <2>1. DOMAIN value = {1}
    BY <1>1, <1>4 DEF Regular
  <2> QED BY <1>1, <1>4, <2>1 DEF Check
<1> QED BY <1>1, <1>3, <1>4 DEF StepIsSafe, MadeNearest, ChangeTold, Resolved, AcceptedKept

\* For any width of a word, any option that is Regular and any value: constrain_value
\* makes of it the nearest legal one, completes abbreviations and agrees with
\* check_value; of any option at all, it tells when it changed a number.  Not Regular
\* is, above all, a range whose maximum is off its grid (216-227).
THEOREM ConstrainingIsSafe == ConstrainSpec => ConstrainSafe
<1>1. ConstrainInv /\ [ConstrainNext]_constrainVars => [StepIsSafe]_constrainVars
  <2> SUFFICES ASSUME ConstrainInv, ConstrainNext PROVE StepIsSafe \/ UNCHANGED constrainVars
    OBVIOUS
  <2>1. CASE ConstrainValue
    BY <2>1, RangeIsSafe, WordIsSafe, StringIsSafe, BoolIsSafe DEF ConstrainValue
  <2>2. CASE CheckValue /\ ~ConstrainValue
    BY <2>2 DEF StepIsSafe, MadeNearest, ChangeTold, Resolved, AcceptedKept
  <2> QED BY <2>1, <2>2 DEF ConstrainNext
<1>2. ConstrainSpec => []ConstrainInv
  BY ConstrainInitInv, ConstrainNextInv, PTL DEF ConstrainSpec
<1>3. ConstrainSpec => [][StepIsSafe]_constrainVars
  BY <1>1, <1>2, PTL DEF ConstrainSpec
<1> QED BY <1>3 DEF ConstrainSafe, StepIsSafe

-----------------------------------------------------------------------------
(* Steps and sequences, whatever is in them.                               *)

\* All the numbers up to n, when 0 has the property and each passes it on.
LEMMA Upwards ==
    ASSUME NEW n \in Nat, NEW S, 0 \in S, \A i \in 0 .. n - 1 : i \in S => i + 1 \in S
    PROVE  0 .. n \subseteq S
<1> DEFINE T == {i \in Nat : i <= n => i \in S}
<1>1. 0 \in T /\ \A i \in Nat : i \in T => i + 1 \in T
      OBVIOUS
<1> HIDE DEF T
<1>2. Nat \subseteq T
      BY <1>1, NatSetInduction
<1> QED BY <1>2 DEF T

Follows(g, n, D, a, F) == g \in [0 .. n -> D] /\ g[0] = a /\ \A i \in 1 .. n : g[i] = F[i][g[i - 1]]

\* A function that is defined by its value at 0 and from each place to the next.
LEMMA StepByStep ==
    ASSUME NEW n \in Nat, NEW D, NEW a \in D, NEW F \in [1 .. n -> [D -> D]]
    PROVE  \E g : Follows(g, n, D, a, F)
<1> DEFINE Up(k, g) == g \in [0 .. k -> D] /\ g[0] = a /\ \A i \in 1 .. k : g[i] = F[i][g[i - 1]]
           S == {k \in 0 .. n : \E g \in [0 .. k -> D] : Up(k, g)}
<1>1. 0 \in S
  <2>1. [i \in 0 .. 0 |-> a] \in [0 .. 0 -> D] /\ Up(0, [i \in 0 .. 0 |-> a])
        OBVIOUS
  <2> HIDE DEF Up
  <2>2. \E g \in [0 .. 0 -> D] : Up(0, g)
        BY <2>1
  <2> QED BY <2>2
<1>2. ASSUME NEW k \in 0 .. n - 1, k \in S PROVE k + 1 \in S
  <2>1. PICK g \in [0 .. k -> D] : Up(k, g)
        BY <1>2
  <2> DEFINE v == F[k + 1][g[k]]
             h == [i \in 0 .. k + 1 |-> IF i = k + 1 THEN v ELSE g[i]]
  <2>2. v \in D
    <3>1. F[k + 1] \in [D -> D] /\ g[k] \in D
          OBVIOUS
    <3> QED BY <3>1
  <2> HIDE DEF v
  <2>3. h \in [0 .. k + 1 -> D] /\ h[0] = a
        BY <2>1, <2>2
  <2>4. ASSUME NEW i \in 1 .. k + 1 PROVE h[i] = F[i][h[i - 1]]
    <3>1. CASE i = k + 1
      <4>1. h[i] = v /\ h[i - 1] = g[k]
            BY <3>1
      <4> QED BY <4>1, <3>1 DEF v
    <3>2. CASE i # k + 1
      <4>1. h[i] = g[i] /\ h[i - 1] = g[i - 1] /\ i \in 1 .. k
            BY <3>2
      <4> QED BY <4>1, <2>1
    <3> QED BY <3>1, <3>2
  <2> HIDE DEF h
  <2>5. Up(k + 1, h)
        BY <2>3, <2>4
  <2> HIDE DEF Up
  <2> QED BY <2>3, <2>5
<1> HIDE DEF S
<1>3. n \in S
  <2>1. \A i \in 0 .. n - 1 : i \in S => i + 1 \in S
        BY <1>2
  <2>2. 0 .. n \subseteq S
        BY <1>1, <2>1, Upwards
  <2> QED BY <2>2
<1>4. PICK g \in [0 .. n -> D] : Up(n, g)
      BY <1>3 DEF S
<1> QED BY <1>4 DEF Follows

\* A set of numbers that is not empty has a smallest.
\* A set of numbers that is not empty has a smallest.
LEMMA SomeSmallest ==
    ASSUME NEW S \in SUBSET Nat, S # {}
    PROVE  \E x \in S : \A y \in S : x <= y
<1> SUFFICES ASSUME \A x \in S : \E y \in S : y < x PROVE FALSE
    OBVIOUS
<1> DEFINE T == {k \in Nat : \A x \in S : x >= k}
<1>1. 0 \in T /\ \A k \in Nat : k \in T => k + 1 \in T
  <2>1. 0 \in T
        OBVIOUS
  <2>2. ASSUME NEW k \in Nat, k \in T PROVE k + 1 \in T
    <3>1. ASSUME NEW x \in S, x = k PROVE FALSE
          BY <2>2, <3>1
    <3> QED BY <2>2, <3>1
  <2> QED BY <2>1, <2>2
<1> HIDE DEF T
<1>2. \A k \in Nat : k \in T
      BY <1>1, NatSetInduction
<1>3. \A x \in S : x + 1 \in T
      BY <1>2
<1>4. PICK x \in S : TRUE
      OBVIOUS
<1>5. x >= x + 1 /\ x \in Nat
      BY <1>3 DEF T
<1> QED BY <1>5

-----------------------------------------------------------------------------
-----------------------------------------------------------------------------
(* Magic.                                                                  *)

\* Something that is a sequence, whatever its elements are.
IsSeq(b) == \E T : b \in Seq(T)

LEMMA SeqOfBoth ==
    ASSUME NEW a, NEW b, IsSeq(a), IsSeq(b)
    PROVE  \E T : a \in Seq(T) /\ b \in Seq(T)
<1>1. PICK A : a \in Seq(A)
  BY DEF IsSeq
<1>2. PICK B : b \in Seq(B)
  BY DEF IsSeq
<1>3. A \subseteq A \cup B /\ B \subseteq A \cup B
  OBVIOUS
<1>4. a \in Seq(A \cup B)
  BY <1>1, <1>3, SeqMonotonic
<1>5. b \in Seq(A \cup B)
  BY <1>2, <1>3, SeqMonotonic
<1> QED BY <1>4, <1>5

LEMMA SeqLen ==
    ASSUME NEW b, IsSeq(b)
    PROVE  Len(b) \in Nat /\ DOMAIN b = 1 .. Len(b)
BY DEF IsSeq

\* What is listed from 1 on is a sequence.
LEMMA ListedIsSeq ==
    ASSUME NEW n \in Nat, NEW f, f = [i \in 1 .. n |-> f[i]]
    PROVE  IsSeq(f) /\ Len(f) = n
<1> DEFINE T == {f[i] : i \in 1 .. n}
<1>1. f \in [1 .. n -> T]
  OBVIOUS
<1> HIDE DEF T
<1>2. f \in Seq(T)
  BY <1>1, SeqDef
<1>3. Len(f) = n
  <2>1. DOMAIN f = 1 .. n /\ DOMAIN f = 1 .. Len(f) /\ Len(f) \in Nat
    BY <1>1, <1>2
  <2> QED BY <2>1
<1> QED BY <1>2, <1>3 DEF IsSeq

\* The parts of a line of samples.
LEMMA CopiedIs ==
    ASSUME NEW buf, IsSeq(buf), NEW piece, IsSeq(piece), NEW to \in Nat, to + Len(piece) <= Len(buf)
    PROVE  /\ IsSeq(Copied(buf, to, piece)) /\ Len(Copied(buf, to, piece)) = Len(buf)
           /\ \A i \in 1 .. Len(buf) : Copied(buf, to, piece)[i]
                = IF i <= to \/ i > to + Len(piece) THEN buf[i] ELSE piece[i - to]
<1> DEFINE n == Len(buf)
           m == Len(piece)
           h == SubSeq(buf, 1, to)
           t == SubSeq(buf, to + m + 1, n)
<1>1. PICK T : buf \in Seq(T) /\ piece \in Seq(T)
  BY SeqOfBoth
<1>2. n \in Nat /\ m \in Nat /\ to + m <= n
  BY <1>1
<1>3. h \in Seq(T) /\ Len(h) = to /\ \A i \in 1 .. to : h[i] = buf[i]
  <2>1. \A i \in 1 .. to : buf[i] \in T
    BY <1>1, <1>2, ElementOfSeq
  <2>2. /\ h \in Seq(T) /\ Len(h) = (IF 1 <= to THEN to - 1 + 1 ELSE 0)
        /\ \A i \in 1 .. to - 1 + 1 : h[i] = buf[1 + i - 1]
    BY <2>1, SubSeqProperties
  <2> HIDE DEF h
  <2> QED BY <2>2
<1>4. t \in Seq(T) /\ Len(t) = n - (to + m) /\ \A i \in 1 .. n - (to + m) : t[i] = buf[to + m + i]
  <2> DEFINE k == to + m + 1
  <2>1. \A i \in k .. n : buf[i] \in T
    BY <1>1, <1>2, ElementOfSeq
  <2>2. k \in Nat /\ k <= n + 1
    BY <1>2
  <2> HIDE DEF k
  <2>3. /\ SubSeq(buf, k, n) \in Seq(T)
        /\ Len(SubSeq(buf, k, n)) = (IF k <= n THEN n - k + 1 ELSE 0)
        /\ \A i \in 1 .. n - k + 1 : SubSeq(buf, k, n)[i] = buf[k + i - 1]
    <3> HIDE DEF n
    <3> QED BY <2>1, <2>2, <1>2, SubSeqProperties
  <2>4. t = SubSeq(buf, k, n)
    BY DEF k
  <2> HIDE DEF t
  <2>5. t \in Seq(T) /\ Len(t) = n - k + 1
    BY <2>2, <2>3, <2>4, <1>2
  <2>6. \A i \in 1 .. n - k + 1 : t[i] = buf[k + i - 1]
    BY <2>3, <2>4
  <2>7. n - k + 1 = n - (to + m) /\ \A i \in Int : k + i - 1 = to + m + i
    BY <1>2 DEF k
  <2> HIDE DEF n
  <2> QED BY <2>5, <2>6, <2>7
<1> HIDE DEF h, t
<1> DEFINE hp == h \o piece
           all == hp \o t
<1>5. /\ hp \in Seq(T) /\ Len(hp) = to + m
      /\ \A i \in 1 .. to + m : hp[i] = IF i <= to THEN h[i] ELSE piece[i - to]
  BY <1>1, <1>3, ConcatProperties
<1> HIDE DEF hp
<1>6. /\ all \in Seq(T) /\ Len(all) = Len(hp) + Len(t)
      /\ \A i \in 1 .. Len(hp) + Len(t) : all[i] = IF i <= Len(hp) THEN hp[i] ELSE t[i - Len(hp)]
  <2>1. hp \in Seq(T) /\ t \in Seq(T)
    BY <1>4, <1>5
  <2> QED BY <2>1, ConcatProperties
<1>7. Copied(buf, to, piece) = all
  BY DEF Copied, all, hp, h, t
<1> HIDE DEF all, m
<1>8. Len(all) = n
  BY <1>2, <1>4, <1>5, <1>6
<1>9. ASSUME NEW i \in 1 .. n PROVE all[i] = IF i <= to \/ i > to + m THEN buf[i] ELSE piece[i - to]
  <2>1. all[i] = IF i <= to + m THEN hp[i] ELSE t[i - (to + m)]
    BY <1>2, <1>4, <1>5, <1>6, <1>8
  <2>2. CASE i <= to
    BY <2>1, <2>2, <1>2, <1>3, <1>5
  <2>3. CASE i > to /\ i <= to + m
    BY <2>1, <2>3, <1>2, <1>5
  <2>4. CASE i > to + m
    <3>1. i - (to + m) \in 1 .. n - (to + m) /\ to + m + (i - (to + m)) = i
      BY <2>4, <1>2
    <3>2. t[i - (to + m)] = buf[i]
      BY <3>1, <1>4
    <3> QED BY <2>1, <2>4, <3>2, <1>2
  <2> QED BY <2>2, <2>3, <2>4, <1>2
<1>10. IsSeq(all)
  BY <1>6 DEF IsSeq
<1> QED BY <1>7, <1>8, <1>9, <1>10 DEF m


LEMMA PieceIs ==
    ASSUME NEW b, IsSeq(b), NEW f \in Nat, NEW w \in Nat, f + w <= Len(b)
    PROVE  /\ IsSeq(SubSeq(b, f + 1, f + w)) /\ Len(SubSeq(b, f + 1, f + w)) = w
           /\ \A x \in 1 .. w : SubSeq(b, f + 1, f + w)[x] = b[f + x]
<1> DEFINE k == f + 1
           l == f + w
<1>1. PICK T : b \in Seq(T)
  BY DEF IsSeq
<1>2. \A i \in k .. l : b[i] \in T
  BY <1>1, ElementOfSeq
<1>3. k \in Nat /\ l \in Nat /\ l - k + 1 = w /\ (~(k <= l) => w = 0) /\ \A x \in Int : k + x - 1 = f + x
  OBVIOUS
<1> HIDE DEF k, l
<1> DEFINE piece == SubSeq(b, k, l)
<1>4. /\ piece \in Seq(T)
      /\ Len(piece) = (IF k <= l THEN l - k + 1 ELSE 0)
      /\ \A i \in 1 .. l - k + 1 : piece[i] = b[k + i - 1]
  <2>1. k \in Int /\ l \in Int
    BY <1>3
  <2> QED BY <1>2, <2>1, SubSeqProperties
<1> HIDE DEF piece
<1>5. IsSeq(piece)
  BY <1>4 DEF IsSeq
<1>6. Len(piece) = w
  BY <1>3, <1>4
<1>7. \A i \in 1 .. w : piece[i] = b[f + i]
  BY <1>3, <1>4
<1> QED BY <1>5, <1>6, <1>7 DEF piece, k, l

\* A buffer of so many samples.
BufferOf(n, T) == [1 .. n -> T]

LEMMA BufferIs ==
    ASSUME NEW n \in Nat, NEW T, NEW b
    PROVE  b \in BufferOf(n, T) <=> IsSeq(b) /\ Len(b) = n /\ \A i \in 1 .. n : b[i] \in T
<1>1. ASSUME b \in BufferOf(n, T) PROVE IsSeq(b) /\ Len(b) = n /\ \A i \in 1 .. n : b[i] \in T
  <2>1. b = [i \in 1 .. n |-> b[i]] /\ \A i \in 1 .. n : b[i] \in T
    BY <1>1 DEF BufferOf
  <2> QED BY <2>1, ListedIsSeq
<1>2. ASSUME IsSeq(b), Len(b) = n, \A i \in 1 .. n : b[i] \in T PROVE b \in BufferOf(n, T)
  <2>1. PICK A : b \in Seq(A)
    BY <1>2 DEF IsSeq
  <2>2. b \in [1 .. n -> A]
    BY <1>2, <2>1, LenProperties
  <2> QED BY <1>2, <2>2 DEF BufferOf
<1> QED BY <1>1, <1>2

LEMMA CopiedBuffer ==
    ASSUME NEW n \in Nat, NEW T, NEW buf \in BufferOf(n, T), NEW piece, IsSeq(piece),
           \A i \in 1 .. Len(piece) : piece[i] \in T, NEW to \in Nat, to + Len(piece) <= n
    PROVE  Copied(buf, to, piece) \in BufferOf(n, T)
<1> DEFINE c == Copied(buf, to, piece)
<1>1. IsSeq(buf) /\ Len(buf) = n /\ \A i \in 1 .. n : buf[i] \in T
  BY BufferIs
<1>2. /\ IsSeq(c) /\ Len(c) = n
      /\ \A i \in 1 .. n : c[i] = IF i <= to \/ i > to + Len(piece) THEN buf[i] ELSE piece[i - to]
  BY <1>1, CopiedIs
<1> HIDE DEF c
<1>3. Len(piece) \in Nat
  BY SeqLen
<1>4. ASSUME NEW i \in 1 .. n PROVE c[i] \in T
  <2>1. CASE i <= to \/ i > to + Len(piece)
    BY <2>1, <1>1, <1>2
  <2>2. CASE ~(i <= to \/ i > to + Len(piece))
    <3>1. i - to \in 1 .. Len(piece)
      BY <2>2, <1>3
    <3> QED BY <3>1, <2>2, <1>2
  <2> QED BY <2>1, <2>2
<1>5. c \in BufferOf(n, T)
  BY <1>2, <1>4, BufferIs
<1> QED BY <1>5 DEF c

-----------------------------------------------------------------------------
(* The crop: each line is read before the ones in front of it are written. *)

LineMoved(p, b, top, n, part) ==
    LET from == (top + n - 1) * SamplesPerLine(p) + part.from
    IN Copied(b, (n - 1) * part.samples, SubSeq(b, from + 1, from + part.samples))

\* What is cropped of a buffer is in it.
CropFits(p, buf, top, count, part) ==
    /\ SamplesPerLine(p) \in Nat /\ IsSeq(buf)
    /\ top \in Nat /\ count \in Nat /\ part.from \in Nat /\ part.samples \in Nat
    /\ part.from + part.samples <= SamplesPerLine(p)
    /\ (top + count) * SamplesPerLine(p) <= Len(buf)

PlacesFit(s, top, count, from, w, len) ==
    /\ s \in Nat /\ top \in Nat /\ count \in Nat /\ from \in Nat /\ w \in Nat /\ len \in Nat
    /\ from + w <= s /\ (top + count) * s <= len

\* Where a line is and where it goes.
LEMMA LinePlaces ==
    ASSUME NEW s, NEW top, NEW count, NEW from, NEW w, NEW len, PlacesFit(s, top, count, from, w, len),
           NEW n \in 1 .. count
    PROVE  /\ (n - 1) * w \in Nat /\ (n - 1) * w + w = n * w
           /\ (top + n - 1) * s + from \in Nat
           /\ (n - 1) * w <= (top + n - 1) * s + from
           /\ ((top + n - 1) * s + from) + w <= len
           /\ n * w <= len
<1> DEFINE r == top + n - 1
           k == n - 1
<1>0. /\ s \in Nat /\ top \in Nat /\ count \in Nat /\ from \in Nat /\ w \in Nat /\ len \in Nat
      /\ from + w <= s /\ (top + count) * s <= len
  BY DEF PlacesFit
<1>1. r \in Nat /\ k \in Nat /\ k <= r /\ r + 1 <= top + count /\ k + 1 = n /\ w <= s
  BY <1>0
<1> HIDE DEF r, k
<1>2. r * s \in Nat /\ k * w \in Nat /\ (k + 1) * w = k * w + w
  BY <1>0, <1>1
<1>3. r * s + s <= (top + count) * s
  BY <1>0, <1>1, Monotone
<1>4. k * w <= r * s
  <2>1. k * w <= r * w
    BY <1>0, <1>1
  <2>2. r * w <= r * s
    BY <1>0, <1>1
  <2>3. r * w \in Nat
    BY <1>0, <1>1
  <2> QED BY <2>1, <2>2, <2>3, <1>2
<1>5. (top + count) * s \in Nat
  BY <1>0
<1> DEFINE rs == r * s
           kw == k * w
           all == (top + count) * s
<1>6. rs \in Nat /\ kw \in Nat /\ all \in Nat /\ kw <= rs /\ rs + s <= all /\ all <= len /\ n * w = kw + w
  BY <1>0, <1>1, <1>2, <1>3, <1>4, <1>5
<1> HIDE DEF rs, kw, all
<1>7. /\ kw \in Nat /\ kw + w = n * w /\ rs + from \in Nat /\ kw <= rs + from
      /\ (rs + from) + w <= len /\ n * w <= len
  BY <1>0, <1>1, <1>6
<1> QED BY <1>7 DEF rs, kw, r, k

\* One line moved, the ones in front of it having been: those stay, it is there, and
\* what is behind it is untouched.
LEMMA LineMovedIs ==
    ASSUME NEW p, NEW buf, NEW top, NEW count, NEW part, CropFits(p, buf, top, count, part),
           NEW n \in 1 .. count, NEW b, IsSeq(b), Len(b) = Len(buf)
    PROVE  LET s == SamplesPerLine(p)
               w == part.samples
               c == LineMoved(p, b, top, n, part)
           IN /\ IsSeq(c) /\ Len(c) = Len(buf)
              /\ \A i \in 1 .. Len(buf) : i <= (n - 1) * w \/ i > n * w => c[i] = b[i]
              /\ \A x \in 1 .. w : /\ (n - 1) * w + x \in 1 .. Len(buf)
                                   /\ (top + n - 1) * s + part.from + x \in 1 .. Len(buf)
                                   /\ (top + n - 1) * s + part.from + x > (n - 1) * w
                                   /\ c[(n - 1) * w + x] = b[(top + n - 1) * s + part.from + x]
<1> DEFINE s == SamplesPerLine(p)
           w == part.samples
           f == (top + n - 1) * s + part.from
           to == (n - 1) * w
           c == LineMoved(p, b, top, n, part)
           piece == SubSeq(b, f + 1, f + w)
           len == Len(buf)
           end == n * w
<1>1. /\ s \in Nat /\ top \in Nat /\ count \in Nat /\ part.from \in Nat /\ w \in Nat
      /\ part.from + w <= s /\ (top + count) * s <= len /\ len \in Nat
  BY SeqLen DEF CropFits
<1>2. c = Copied(b, to, piece)
  BY DEF LineMoved
<1>3. to \in Nat /\ to + w = end /\ f \in Nat /\ to <= f /\ f + w <= len /\ end <= len
  <2> HIDE DEF s, w, len
  <2>1. PlacesFit(s, top, count, part.from, w, len)
    BY <1>1 DEF PlacesFit
  <2> QED BY <2>1, LinePlaces
<1> HIDE DEF s, w, f, to, c, len, end
<1>4. IsSeq(piece) /\ Len(piece) = w /\ \A x \in 1 .. w : piece[x] = b[f + x]
  BY <1>1, <1>3, PieceIs DEF len
<1> HIDE DEF piece
<1>5. /\ IsSeq(c) /\ Len(c) = len
      /\ \A i \in 1 .. len : c[i] = IF i <= to \/ i > to + w THEN b[i] ELSE piece[i - to]
  <2>1. Len(b) = len /\ to + Len(piece) <= Len(b)
    BY <1>3, <1>4 DEF len
  <2>2. to \in Nat /\ IsSeq(piece)
    BY <1>3, <1>4
  <2> DEFINE new == Copied(b, to, piece)
  <2>3. /\ IsSeq(new) /\ Len(new) = Len(b)
        /\ \A i \in 1 .. Len(b) : new[i] = IF i <= to \/ i > to + Len(piece) THEN b[i] ELSE piece[i - to]
    BY <2>1, <2>2, CopiedIs
  <2> HIDE DEF new
  <2>4. c = new /\ Len(b) = len /\ Len(piece) = w
    BY <2>1, <1>2, <1>4 DEF new
  <2> QED BY <2>3, <2>4
<1>6. \A i \in 1 .. len : i <= to \/ i > end => c[i] = b[i]
  BY <1>3, <1>5
<1>7. ASSUME NEW x \in 1 .. w
      PROVE  to + x \in 1 .. len /\ f + x \in 1 .. len /\ f + x > to /\ c[to + x] = b[f + x]
  <2>1. to + x \in 1 .. len /\ f + x \in 1 .. len /\ f + x > to
    BY <1>1, <1>3
  <2>2. ~(to + x <= to \/ to + x > to + w) /\ (to + x) - to = x
    BY <1>1, <1>3
  <2>3. c[to + x] = piece[x]
    BY <2>1, <2>2, <1>5
  <2> QED BY <2>1, <2>3, <1>4
<1> QED BY <1>5, <1>6, <1>7 DEF s, w, f, to, c, len, end

\* So many lines moved, of a buffer that is now b: they are in front, and nothing
\* behind them has been written.
LinesMoved(p, buf, top, n, part, b) ==
    /\ IsSeq(b) /\ Len(b) = Len(buf)
    /\ \A i \in 1 .. Len(buf) : i > n * part.samples => b[i] = buf[i]
    /\ \A y \in 0 .. n - 1, x \in 1 .. part.samples :
         b[y * part.samples + x] = buf[(top + y) * SamplesPerLine(p) + part.from + x]

LEMMA NextLineMoved ==
    ASSUME NEW p, NEW buf, NEW top, NEW count, NEW part, CropFits(p, buf, top, count, part),
           NEW n \in 1 .. count, NEW b, LinesMoved(p, buf, top, n - 1, part, b)
    PROVE  LinesMoved(p, buf, top, n, part, LineMoved(p, b, top, n, part))
<1> DEFINE s == SamplesPerLine(p)
           w == part.samples
           c == LineMoved(p, b, top, n, part)
           len == Len(buf)
           to == (n - 1) * w
           end == n * w
           f == (top + n - 1) * s + part.from
<1>1. IsSeq(b) /\ Len(b) = len
  BY DEF LinesMoved
<1>2. /\ IsSeq(c) /\ Len(c) = len
      /\ \A i \in 1 .. len : i <= to \/ i > end => c[i] = b[i]
      /\ \A x \in 1 .. w : to + x \in 1 .. len /\ f + x \in 1 .. len /\ f + x > to /\ c[to + x] = b[f + x]
  BY <1>1, LineMovedIs
<1>3. /\ \A i \in 1 .. len : i > to => b[i] = buf[i]
      /\ \A y \in 0 .. n - 2, x \in 1 .. w : b[y * w + x] = buf[(top + y) * s + part.from + x]
  <2>1. (n - 1) - 1 = n - 2
    OBVIOUS
  <2> QED BY <2>1 DEF LinesMoved
<1>4. w \in Nat /\ s \in Nat /\ top \in Nat /\ part.from \in Nat /\ len \in Nat /\ n \in Nat /\ n >= 1
  BY SeqLen DEF CropFits
<1>5. to \in Nat /\ end = to + w /\ end <= len
  <2>1. PlacesFit(s, top, count, part.from, w, len)
    BY <1>4 DEF CropFits, PlacesFit
  <2> HIDE DEF s, w, len
  <2> QED BY <2>1, LinePlaces
<1>6. ASSUME NEW i \in 1 .. len, i > end PROVE c[i] = buf[i]
  <2> HIDE DEF c, w, len, to, end, f, s
  <2>1. i > to
    BY <1>4, <1>5, <1>6
  <2> QED BY <2>1, <1>2, <1>3, <1>6
<1>7. ASSUME NEW y \in 0 .. n - 1, NEW x \in 1 .. w
      PROVE  c[y * w + x] = buf[(top + y) * s + part.from + x]
  <2>1. CASE y = n - 1
    <3>1. y * w = to /\ (top + y) * s + part.from = f
      <4>1. top + y = top + n - 1
        BY <2>1, <1>4
      <4> QED BY <2>1, <4>1
    <3> HIDE DEF c, w, len, to, end, f, s
    <3>2. c[to + x] = b[f + x] /\ f + x \in 1 .. len /\ f + x > to
      BY <1>2
    <3>3. b[f + x] = buf[f + x]
      BY <3>2, <1>3
    <3>4. c[y * w + x] = buf[f + x]
      BY <3>1, <3>2, <3>3
    <3>5. (top + y) * s + part.from + x = f + x
      BY <3>1
    <3> QED BY <3>4, <3>5
  <2>2. CASE y # n - 1
    <3> DEFINE at == y * w + x
    <3>1. y \in 0 .. n - 2 /\ y \in Int /\ n - 1 \in Int /\ y + 1 <= n - 1
      BY <2>2, <1>4
    <3>2. y * w + w <= to /\ y * w \in Nat
      <4>1. y * w + w <= to
        BY <3>1, <1>4, Monotone
      <4>2. y * w \in Nat
        BY <3>1, <1>4
      <4> QED BY <4>1, <4>2
    <3>3. at \in 1 .. len /\ at <= to
      <4> DEFINE k == y * w
      <4> HIDE DEF k, w, to, end, len
      <4>1. k + x \in 1 .. len /\ k + x <= to
        BY <3>2, <1>4, <1>5 DEF k
      <4> QED BY <4>1 DEF k
    <3>4. c[at] = b[at]
      <4> HIDE DEF c, w, len, to, end, f, s, at
      <4> QED BY <3>3, <1>2
    <3>5. b[at] = buf[(top + y) * s + part.from + x]
      BY <3>1, <1>3
    <3> QED BY <3>4, <3>5
  <2> QED BY <2>1, <2>2
<1>8. LinesMoved(p, buf, top, n, part, c)
  <2> HIDE DEF c
  <2> QED BY <1>2, <1>6, <1>7 DEF LinesMoved
<1> QED BY <1>8

LEMMA MovedToFrontIs ==
    ASSUME NEW p, NEW buf, NEW top, NEW count, NEW part, CropFits(p, buf, top, count, part)
    PROVE  LinesMoved(p, buf, top, count, part, MovedToFront(p, buf, top, count, part))
<1> DEFINE len == Len(buf)
           T == {buf[i] : i \in 1 .. len}
           D == BufferOf(len, T)
           F == [n \in 1 .. count |-> [b \in D |-> LineMoved(p, b, top, n, part)]]
           Is(h) == h = [n \in 0 .. count |->
                          IF n = 0 THEN buf
                          ELSE LET from == (top + n - 1) * SamplesPerLine(p) + part.from
                               IN Copied(h[n - 1], (n - 1) * part.samples,
                                         SubSeq(h[n - 1], from + 1, from + part.samples))]
           lines == CHOOSE h : Is(h)
<1>1. count \in Nat /\ len \in Nat /\ IsSeq(buf)
  BY SeqLen DEF CropFits
<1>2. buf \in D
  <2>1. \A i \in 1 .. len : buf[i] \in T
    OBVIOUS
  <2> HIDE DEF T, D
  <2> QED BY <2>1, <1>1, BufferIs DEF D
<1>3. F \in [1 .. count -> [D -> D]]
  <2>1. ASSUME NEW n \in 1 .. count, NEW b \in D PROVE LineMoved(p, b, top, n, part) \in D
    <3> HIDE DEF T
    <3>1. IsSeq(b) /\ Len(b) = len /\ \A i \in 1 .. len : b[i] \in T
      BY <1>1, BufferIs
    <3> DEFINE c == LineMoved(p, b, top, n, part)
               w == part.samples
               to == (n - 1) * w
               f == (top + n - 1) * SamplesPerLine(p) + part.from
               end == n * w
    <3>2. /\ IsSeq(c) /\ Len(c) = len
          /\ \A i \in 1 .. len : i <= to \/ i > end => c[i] = b[i]
          /\ \A x \in 1 .. w : to + x \in 1 .. len /\ f + x \in 1 .. len /\ f + x > to /\ c[to + x] = b[f + x]
      BY <3>1, LineMovedIs
    <3>3. w \in Nat /\ to \in Nat /\ end = to + w
      <4>1. PlacesFit(SamplesPerLine(p), top, count, part.from, w, len)
        BY <1>1 DEF CropFits, PlacesFit
      <4> HIDE DEF w, len
      <4>2. w \in Nat
        BY <4>1 DEF PlacesFit
      <4> QED BY <4>1, <4>2, LinePlaces
    <3> HIDE DEF c, w, to, f, end
    <3>4. ASSUME NEW i \in 1 .. len PROVE c[i] \in T
      <4>1. CASE i <= to \/ i > end
        BY <4>1, <3>1, <3>2
      <4>2. CASE ~(i <= to \/ i > end)
        <5>1. i - to \in 1 .. w /\ to + (i - to) = i
          BY <4>2, <3>3, <1>1
        <5>2. c[to + (i - to)] = b[f + (i - to)] /\ f + (i - to) \in 1 .. len
          BY <5>1, <3>2
        <5> QED BY <5>1, <5>2, <3>1
      <4> QED BY <4>1, <4>2
    <3>5. c \in D
      BY <1>1, <3>2, <3>4, BufferIs
    <3> QED BY <3>5 DEF c
  <2> HIDE DEF D
  <2> QED BY <2>1
<1>4. PICK g : Follows(g, count, D, buf, F)
  <2> HIDE DEF D, F
  <2> QED BY <1>1, <1>2, <1>3, StepByStep
<1>5. \A n \in 1 .. count : g[n] = LineMoved(p, g[n - 1], top, n, part)
  <2>1. ASSUME NEW n \in 1 .. count PROVE g[n] = LineMoved(p, g[n - 1], top, n, part)
    <3>1. n - 1 \in 0 .. count
      BY <1>1
    <3>2. g[n - 1] \in D
      <4> HIDE DEF D, F
      <4> QED BY <1>4, <3>1 DEF Follows
    <3>3. g[n] = F[n][g[n - 1]]
      <4> HIDE DEF D, F
      <4> QED BY <1>4 DEF Follows
    <3> HIDE DEF D
    <3> QED BY <3>2, <3>3
  <2> QED BY <2>1
<1>6. Is(g)
  <2>1. g = [n \in 0 .. count |-> g[n]] /\ g[0] = buf
    <3> HIDE DEF D, F
    <3> QED BY <1>4 DEF Follows
  <2>2. \A n \in 0 .. count : n # 0 => n \in 1 .. count
    BY <1>1
  <2> QED BY <2>1, <2>2, <1>5 DEF LineMoved
<1>7. Is(lines)
  <2> HIDE DEF Is
  <2> QED BY <1>6
<1>8. MovedToFront(p, buf, top, count, part) = lines[count]
  BY DEF MovedToFront
<1> HIDE DEF lines, D, F, T, len
<1>9. lines[0] = buf /\ \A n \in 1 .. count : lines[n] = LineMoved(p, lines[n - 1], top, n, part)
  <2>1. 0 \in 0 .. count /\ \A n \in 1 .. count : n \in 0 .. count /\ n # 0
    BY <1>1
  <2> QED BY <2>1, <1>7 DEF LineMoved
<1> DEFINE S == {n \in 0 .. count : LinesMoved(p, buf, top, n, part, lines[n])}
<1>10. 0 \in S
  <2>1. LinesMoved(p, buf, top, 0, part, buf)
    <3>1. 0 * part.samples = 0 /\ 0 .. 0 - 1 = {}
      BY DEF CropFits
    <3>2. IsSeq(buf)
      BY <1>1
    <3> QED BY <3>1, <3>2 DEF LinesMoved
  <2> QED BY <2>1, <1>1, <1>9
<1>11. ASSUME NEW n \in 0 .. count - 1, n \in S PROVE n + 1 \in S
  <2>1. n + 1 \in 1 .. count /\ (n + 1) - 1 = n /\ n + 1 \in 0 .. count
    BY <1>1
  <2>2. LinesMoved(p, buf, top, (n + 1) - 1, part, lines[n])
    BY <2>1, <1>11
  <2>3. lines[n + 1] = LineMoved(p, lines[n], top, n + 1, part)
    <3>1. lines[n + 1] = LineMoved(p, lines[(n + 1) - 1], top, n + 1, part)
      BY <2>1, <1>9
    <3> QED BY <3>1, <2>1
  <2>4. LinesMoved(p, buf, top, n + 1, part, lines[n + 1])
    BY <2>1, <2>2, <2>3, NextLineMoved
  <2> QED BY <2>1, <2>4
<1> HIDE DEF S
<1>12. count \in S
  <2>1. 0 .. count \subseteq S
    BY <1>1, <1>10, <1>11, Upwards
  <2> QED BY <2>1, <1>1
<1> QED BY <1>8, <1>12 DEF S

\* The part of a line that is kept is in the line, and it is what a line is afterwards.
\* A part of the lines, and the parameters of what is left.
PartOfLine(p, part, lines, new) ==
    /\ part.from \in Nat /\ part.samples \in Nat
    /\ part.from + part.samples <= SamplesPerLine(p)
    /\ new \in ParameterSet /\ new.lines = lines
    /\ new.format = p.format /\ SamplesPerLine(new) = part.samples
    /\ new.ppl * Depth(new) <= SamplesPerLine(new)

LEMMA CroppedFits ==
    ASSUME NEW p \in ParameterSet, Supported(p), p.ppl * Depth(p) <= SamplesPerLine(p),
           NEW leftEdge \in Nat, NEW right \in Nat, leftEdge <= right, right < p.ppl, NEW lines \in Nat
    PROVE  LET part == Cropped(p, leftEdge, right)
               new == [p EXCEPT !.lines = lines, !.ppl = part.ppl, !.bpl = part.bpl]
           IN PartOfLine(p, part, lines, new)
<1> DEFINE part == Cropped(p, leftEdge, right)
           new == [p EXCEPT !.lines = lines, !.ppl = part.ppl, !.bpl = part.bpl]
<1>1. /\ p.format \in {"rgb", "gray", "lineart"} /\ p.ppl \in Nat /\ p.bpl \in Nat
      /\ DOMAIN p = {"format", "ppl", "bpl", "lines"}
  BY DEF ParameterSet, Supported
<1>2. /\ new.format = p.format /\ new.ppl = part.ppl /\ new.bpl = part.bpl /\ new.lines = lines
      /\ (part.ppl \in Nat /\ part.bpl \in Nat => new \in ParameterSet)
  <2> HIDE DEF part
  <2> QED BY DEF ParameterSet
<1>3. CASE p.format = "lineart"
  <2> DEFINE l == leftEdge \div 8
             r == (right + 7) \div 8
  <2>1. l \in Nat /\ r \in Nat /\ l <= r /\ (right <= 8 * p.bpl => r <= p.bpl)
    BY <1>1
  <2>2. right <= 8 * p.bpl
    BY <1>1, <1>3 DEF Depth, SamplesPerLine
  <2>3. part = [from |-> 8 * l, samples |-> 8 * (r - l), ppl |-> 8 * (r - l), bpl |-> r - l]
    BY <1>3 DEF Cropped
  <2> HIDE DEF l, r, part, new
  <2>4. part.from = 8 * l /\ part.samples = 8 * (r - l) /\ part.ppl = 8 * (r - l) /\ part.bpl = r - l
    BY <2>3
  <2>5. SamplesPerLine(p) = 8 * p.bpl /\ SamplesPerLine(new) = 8 * new.bpl /\ Depth(new) = 1
    BY <1>2, <1>3 DEF SamplesPerLine, Depth
  <2> QED BY <1>1, <1>2, <2>1, <2>2, <2>4, <2>5 DEF PartOfLine, part, new
<1>4. CASE p.format # "lineart"
  <2> DEFINE d == Depth(p)
             w == right - leftEdge
  <2>1. d \in {1, 3} /\ w \in Nat /\ leftEdge + w = right
    BY DEF Depth
  <2>2. part = [from |-> leftEdge * d, samples |-> w * d, ppl |-> w, bpl |-> w * d]
    BY <1>4 DEF Cropped
  <2>3. SamplesPerLine(p) = p.bpl /\ SamplesPerLine(new) = new.bpl /\ Depth(new) = d
    BY <1>2, <1>4 DEF SamplesPerLine, Depth
  <2> HIDE DEF d, w, part, new
  <2>4. part.from = leftEdge * d /\ part.samples = w * d /\ part.ppl = w /\ part.bpl = w * d
    BY <2>2
  <2>5. p.ppl * d <= p.bpl
    BY <2>3 DEF d
  <2>6. leftEdge * d \in Nat /\ w * d \in Nat /\ leftEdge * d + w * d <= p.ppl * d
    <3>1. CASE d = 1
      BY <3>1, <1>1, <2>1
    <3>2. CASE d = 3
      BY <3>2, <1>1, <2>1
    <3> QED BY <3>1, <3>2, <2>1
  <2>7. p.ppl * d \in Nat
    BY <1>1, <2>1
  <2>8. part.from \in Nat /\ part.samples \in Nat /\ part.from + part.samples <= SamplesPerLine(p)
    <3> DEFINE a == leftEdge * d
               b == w * d
               c == p.ppl * d
    <3>1. a \in Nat /\ b \in Nat /\ c \in Nat /\ a + b <= c /\ c <= p.bpl /\ p.bpl \in Nat
      BY <1>1, <2>5, <2>6, <2>7
    <3> HIDE DEF a, b, c
    <3>2. a + b <= p.bpl
      BY <3>1
    <3> QED BY <3>1, <3>2, <2>3, <2>4 DEF a, b
  <2>9. new.ppl * Depth(new) = SamplesPerLine(new) /\ part.bpl \in Nat /\ part.ppl \in Nat
        /\ SamplesPerLine(new) = part.samples /\ part.samples <= part.samples
    BY <1>2, <2>1, <2>3, <2>4, <2>6
  <2> QED BY <1>2, <2>8, <2>9 DEF PartOfLine, part, new
<1> QED BY <1>3, <1>4

-----------------------------------------------------------------------------
(* The edges: whatever is taken for one is at most beside the image.       *)

LEMMA FirstRunIs ==
    ASSUME NEW good, Len(good) \in Nat
    PROVE  FirstRun(good, TRUE) \in 0 .. Len(good) /\ FirstRun(good, FALSE) \in -1 .. Len(good) - 1
<1> DEFINE n == Len(good)
           runs(up) == {k \in 0 .. n - 1 : \A i \in k .. Min({k + 3, n - 1}) : good[From(i, n, up) + 1]}
<1>1. ASSUME NEW up \in BOOLEAN
      PROVE  FirstRun(good, up) = Impossible(n, up) \/ \E k \in 0 .. n - 1 : FirstRun(good, up) = From(k, n, up)
  <2>1. runs(up) \subseteq 0 .. n - 1
    OBVIOUS
  <2>2. FirstRun(good, up) = IF runs(up) = {} THEN Impossible(n, up) ELSE From(Min(runs(up)), n, up)
    BY DEF FirstRun
  <2> HIDE DEF runs
  <2>3. ASSUME runs(up) # {} PROVE Min(runs(up)) \in 0 .. n - 1
    <3>1. \E x \in runs(up) : \A y \in runs(up) : x <= y
      BY <2>1, <2>3, SomeSmallest
    <3>2. Min(runs(up)) \in runs(up)
      BY <3>1 DEF Min
    <3> QED BY <3>2, <2>1
  <2> QED BY <2>2, <2>3
<1> HIDE DEF n
<1>2. n \in Nat
  BY DEF n
<1>3. FirstRun(good, TRUE) \in 0 .. n
  <2>1. FirstRun(good, TRUE) = Impossible(n, TRUE) \/ \E k \in 0 .. n - 1 : FirstRun(good, TRUE) = From(k, n, TRUE)
    BY <1>1, Zenon
  <2>2. Impossible(n, TRUE) = n /\ \A k : From(k, n, TRUE) = k
    BY DEF Impossible, From
  <2> DEFINE a == FirstRun(good, TRUE)
  <2>3. a = n \/ \E k \in 0 .. n - 1 : a = k
    BY <2>1, <2>2, Zenon
  <2> HIDE DEF a
  <2>4. a \in 0 .. n
    BY <2>3, <1>2
  <2> QED BY <2>4 DEF a
<1>4. FirstRun(good, FALSE) \in -1 .. n - 1
  <2>1. FirstRun(good, FALSE) = Impossible(n, FALSE) \/ \E k \in 0 .. n - 1 : FirstRun(good, FALSE) = From(k, n, FALSE)
    BY <1>1, Zenon
  <2>2. Impossible(n, FALSE) = -1 /\ \A k : From(k, n, FALSE) = n - 1 - k
    BY DEF Impossible, From
  <2> DEFINE a == FirstRun(good, FALSE)
  <2>3. a = -1 \/ \E k \in 0 .. n - 1 : a = n - 1 - k
    BY <2>1, <2>2, Zenon
  <2> HIDE DEF a
  <2>4. a \in -1 .. n - 1
    BY <2>3, <1>2
  <2> QED BY <2>4 DEF a
<1> QED BY <1>3, <1>4 DEF n

LEMMA ArrayOf ==
    ASSUME NEW n \in Nat, NEW f, f = [i \in 1 .. n |-> f[i]]
    PROVE  Len(<<>> \o f) = n
<1>1. PICK T : f \in Seq(T)
  BY ListedIsSeq DEF IsSeq
<1>2. <<>> \o f = f
  BY <1>1, ConcatEmptySeq
<1> QED BY <1>2, ListedIsSeq

EdgeSet == [top : Int, bot : Int, left : Int, right : Int]

LEMMA EdgesAre ==
    ASSUME NEW p \in ParameterSet, NEW buf, NEW dpi
    PROVE  LET e == EdgesOf(p, buf, dpi)
           IN /\ e \in EdgeSet
              /\ e.top \in 0 .. p.lines /\ e.bot \in -1 .. p.lines - 1
              /\ e.left \in 0 .. p.ppl /\ e.right \in -1 .. p.ppl - 1
<1> DEFINE topBuf == TransY(p, buf, dpi, TRUE)
           botBuf == TransY(p, buf, dpi, FALSE)
           leftBuf == TransX(p, buf, dpi, TRUE)
           rightBuf == TransX(p, buf, dpi, FALSE)
           rows == [i \in 1 .. p.lines |-> rightBuf[i - 1 + 1] > leftBuf[i - 1 + 1]]
           line == <<>> \o rows
           top == FirstRun(line, TRUE)
           bot == FirstRun(line, FALSE)
           columns == [i \in 1 .. p.ppl |->
                         /\ botBuf[i - 1 + 1] > topBuf[i - 1 + 1]
                         /\ botBuf[i - 1 + 1] - 10 < bot \/ topBuf[i - 1 + 1] + 10 > top]
           column == <<>> \o columns
<1>1. p.lines \in Nat /\ p.ppl \in Nat
  BY DEF ParameterSet
<1>2. EdgesOf(p, buf, dpi)
        = [top |-> top, bot |-> bot, left |-> FirstRun(column, TRUE), right |-> FirstRun(column, FALSE)]
  BY DEF EdgesOf, Array
<1>3. Len(line) = p.lines
  <2>1. rows = [i \in 1 .. p.lines |-> rows[i]]
    OBVIOUS
  <2> HIDE DEF rows
  <2> QED BY <1>1, <2>1, ArrayOf
<1>4. Len(column) = p.ppl
  <2> HIDE DEF top, bot
  <2>1. columns = [i \in 1 .. p.ppl |-> columns[i]]
    OBVIOUS
  <2> HIDE DEF columns
  <2> QED BY <1>1, <2>1, ArrayOf
<1> HIDE DEF line, column
<1>5. top \in 0 .. p.lines /\ bot \in -1 .. p.lines - 1
  BY <1>1, <1>3, FirstRunIs
<1> DEFINE leftEdge == FirstRun(column, TRUE)
           right == FirstRun(column, FALSE)
<1>6. leftEdge \in 0 .. p.ppl /\ right \in -1 .. p.ppl - 1
  BY <1>1, <1>4, FirstRunIs
<1> DEFINE e == EdgesOf(p, buf, dpi)
<1>7. e = [top |-> top, bot |-> bot, left |-> leftEdge, right |-> right]
  BY <1>2
<1> HIDE DEF top, bot, e, leftEdge, right
<1>8. e.top = top /\ e.bot = bot /\ e.left = leftEdge /\ e.right = right
  BY <1>7
<1>9. e \in EdgeSet
  <2>1. top \in Int /\ bot \in Int /\ leftEdge \in Int /\ right \in Int
    BY <1>1, <1>5, <1>6
  <2> QED BY <2>1, <1>7 DEF EdgeSet
<1> QED BY <1>5, <1>6, <1>8, <1>9 DEF e

-----------------------------------------------------------------------------
(* Marks: the least set of black pixels with one of them that has all the  *)
(* black ones beside those it has.                                         *)

ClosedIn(black, S) == \A s \in S, r \in black : Beside(r, s) => r \in S

LEMMA BesideIs ==
    ASSUME NEW r \in Int \X Int, NEW s \in Int \X Int
    PROVE  Beside(r, r) /\ (Beside(r, s) <=> Beside(s, r))
<1>1. r[1] \in Int /\ r[2] \in Int /\ s[1] \in Int /\ s[2] \in Int
  OBVIOUS
<1>2. \A a, b \in Int : Abs(a - b) = Abs(b - a) /\ Abs(a - a) <= 1
  BY DEF Abs
<1>3. Abs(r[1] - r[1]) <= 1 /\ Abs(r[2] - r[2]) <= 1
  BY <1>1, <1>2
<1>4. Abs(r[1] - s[1]) = Abs(s[1] - r[1]) /\ Abs(r[2] - s[2]) = Abs(s[2] - r[2])
  BY <1>1, <1>2
<1> QED BY <1>3, <1>4 DEF Beside

LEMMA WithIs ==
    ASSUME NEW black \in SUBSET (Int \X Int), NEW S \in SUBSET black
    PROVE  /\ S \subseteq With(black, S) /\ With(black, S) \subseteq black
           /\ (With(black, S) = S <=> ClosedIn(black, S))
<1>1. \A s \in S : s \in {r \in black : Beside(r, s)}
  BY BesideIs
<1>2. S \subseteq With(black, S)
  BY <1>1 DEF With
<1>3. With(black, S) \subseteq black
  BY DEF With
<1>4. ASSUME With(black, S) = S PROVE ClosedIn(black, S)
  BY <1>4 DEF With, ClosedIn
<1>5. ASSUME ClosedIn(black, S) PROVE With(black, S) \subseteq S
  BY <1>5 DEF With, ClosedIn
<1> QED BY <1>2, <1>3, <1>4, <1>5

LEMMA MarkIs ==
    ASSUME NEW black \in SUBSET (Int \X Int), IsFiniteSet(black), NEW q \in black
    PROVE  /\ q \in Mark(black, q) /\ Mark(black, q) \subseteq black
           /\ ClosedIn(black, Mark(black, q))
           /\ \A S \in SUBSET black : q \in S /\ ClosedIn(black, S) => Mark(black, q) \subseteq S
<1> DEFINE N == Cardinality(black)
           D == SUBSET black
           F == [n \in 1 .. N |-> [S \in D |-> With(black, S)]]
           Is(h) == h = [n \in 0 .. N |-> IF n = 0 THEN {q} ELSE With(black, h[n - 1])]
           grown == CHOOSE h : Is(h)
<1>1. N \in Nat
  BY FS_CardinalityType
<1>2. {q} \in D /\ F \in [1 .. N -> [D -> D]]
  <2>1. \A S \in D : With(black, S) \in D
    BY WithIs
  <2> QED BY <2>1
<1>3. PICK g : Follows(g, N, D, {q}, F)
  <2> HIDE DEF D, F, N
  <2> QED BY <1>1, <1>2, StepByStep
<1>4. g \in [0 .. N -> D] /\ g[0] = {q} /\ \A n \in 1 .. N : g[n] = F[n][g[n - 1]]
  <2> HIDE DEF D, F, N
  <2> QED BY <1>3 DEF Follows
<1>5. \A n \in 1 .. N : g[n] = With(black, g[n - 1])
  <2>1. ASSUME NEW n \in 1 .. N PROVE g[n] = With(black, g[n - 1])
    <3>1. n - 1 \in 0 .. N
      BY <1>1
    <3>2. g[n - 1] \in D
      <4> HIDE DEF D, N, F
      <4> QED BY <3>1, <1>4
    <3>3. g[n] = F[n][g[n - 1]]
      <4> HIDE DEF D, N, F
      <4> QED BY <1>4
    <3> HIDE DEF D, N
    <3> QED BY <3>2, <3>3
  <2> QED BY <2>1
<1>6. Is(g)
  <2>1. \A n \in 0 .. N : n # 0 => n \in 1 .. N
    BY <1>1
  <2>2. g = [n \in 0 .. N |-> g[n]]
    <3> HIDE DEF D, N, F
    <3> QED BY <1>4
  <2> HIDE DEF N, D, F
  <2> QED BY <2>1, <2>2, <1>4, <1>5
<1>7. Is(grown)
  <2> HIDE DEF Is
  <2> QED BY <1>6
<1>8. Mark(black, q) = grown[N]
  BY DEF Mark
<1> HIDE DEF grown, F, N
<1>9. grown[0] = {q} /\ \A n \in 1 .. N : grown[n] = With(black, grown[n - 1])
  <2>1. 0 \in 0 .. N /\ \A n \in 1 .. N : n \in 0 .. N /\ n # 0
    BY <1>1
  <2> QED BY <2>1, <1>7
\* With each step there are more, until it is closed.
<1> DEFINE More(n) == ClosedIn(black, grown[n]) \/ Cardinality(grown[n]) >= n + 1
           Least(n) == \A S \in SUBSET black : q \in S /\ ClosedIn(black, S) => grown[n] \subseteq S
           Up == {n \in 0 .. N : q \in grown[n] /\ grown[n] \subseteq black /\ More(n) /\ Least(n)}
<1>10. 0 \in Up
  <2>1. Cardinality({q}) = 1
    BY FS_Singleton
  <2>2. More(0)
    BY <2>1, <1>9
  <2>3. Least(0) /\ q \in grown[0] /\ grown[0] \subseteq black
    BY <1>9
  <2>4. 0 \in 0 .. N
    BY <1>1
  <2> HIDE DEF More, Least
  <2> QED BY <2>2, <2>3, <2>4
<1>11. ASSUME NEW n \in 0 .. N - 1, n \in Up PROVE n + 1 \in Up
  <2> DEFINE S == grown[n]
             T == grown[n + 1]
  <2>1. n + 1 \in 1 .. N /\ (n + 1) - 1 = n /\ n + 1 \in 0 .. N
    BY <1>1
  <2>2. T = With(black, S)
    BY <2>1, <1>9
  <2>3. q \in S /\ S \in SUBSET black /\ More(n) /\ Least(n)
    BY <1>11
  <2>4. S \subseteq T /\ T \subseteq black /\ (T = S <=> ClosedIn(black, S))
    BY <2>2, <2>3, WithIs
  <2>5. More(n + 1)
    <3>1. CASE ClosedIn(black, S)
      <4>1. T = S
        BY <3>1, <2>4
      <4> QED BY <4>1, <3>1
    <3>2. CASE ~ClosedIn(black, S)
      <4>1. Cardinality(S) >= n + 1
        BY <3>2, <2>3
      <4> HIDE DEF S, T
      <4>2. IsFiniteSet(T) /\ S \in SUBSET T /\ T # S
        BY <3>2, <2>4, FS_Subset
      <4>3. Cardinality(S) <= Cardinality(T) /\ Cardinality(T) # Cardinality(S) /\ IsFiniteSet(S)
        BY <4>2, FS_Subset
      <4>4. Cardinality(S) \in Nat /\ Cardinality(T) \in Nat
        BY <4>2, <4>3, FS_CardinalityType
      <4>5. Cardinality(T) >= n + 1 + 1
        BY <4>1, <4>3, <4>4
      <4> QED BY <4>5 DEF T
    <3> QED BY <3>1, <3>2
  <2>6. Least(n + 1)
    <3>1. ASSUME NEW R \in SUBSET black, q \in R, ClosedIn(black, R) PROVE T \subseteq R
      <4>1. S \subseteq R
        BY <2>3, <3>1
      <4> HIDE DEF S, T
      <4> QED BY <2>2, <3>1, <4>1 DEF With, ClosedIn
    <3> QED BY <3>1
  <2>7. q \in T
    BY <2>3, <2>4
  <2> HIDE DEF More, Least
  <2> QED BY <2>1, <2>4, <2>5, <2>6, <2>7
<1>12. N \in Up
  <2> HIDE DEF Up
  <2>1. 0 .. N \subseteq Up
    BY <1>1, <1>10, <1>11, Upwards
  <2> QED BY <2>1, <1>1
<1>13. q \in grown[N] /\ grown[N] \subseteq black /\ More(N) /\ Least(N)
  BY <1>12
<1>14. ClosedIn(black, grown[N])
  <2>1. Cardinality(grown[N]) <= N
    BY <1>13, FS_Subset DEF N
  <2>2. Cardinality(grown[N]) \in Nat
    BY <1>13, FS_Subset, FS_CardinalityType
  <2>3. ~(Cardinality(grown[N]) >= N + 1)
    BY <2>1, <2>2, <1>1
  <2> QED BY <2>3, <1>13
<1> QED BY <1>8, <1>13, <1>14

\* A mark is the mark of each of its pixels.
LEMMA OneMark ==
    ASSUME NEW black \in SUBSET (Int \X Int), IsFiniteSet(black), NEW q \in black, NEW r \in Mark(black, q)
    PROVE  r \in black /\ Mark(black, r) = Mark(black, q)
<1> DEFINE S == {s \in Mark(black, q) : q \in Mark(black, s)}
<1>1. /\ q \in Mark(black, q) /\ Mark(black, q) \subseteq black /\ ClosedIn(black, Mark(black, q))
  BY MarkIs
<1>2. r \in black
  BY <1>1
<1>3. Mark(black, r) \subseteq Mark(black, q)
  BY <1>1, <1>2, MarkIs
<1>4. q \in S /\ S \in SUBSET black
  BY <1>1
<1>5. ASSUME NEW s \in S, NEW t \in black, Beside(t, s) PROVE t \in S
  <2>1. s \in black /\ q \in Mark(black, s)
    BY <1>4
  <2>2. t \in Mark(black, q)
    BY <1>1, <1>5 DEF ClosedIn
  <2>3. t \in Mark(black, t) /\ ClosedIn(black, Mark(black, t)) /\ Mark(black, t) \in SUBSET black
    BY MarkIs
  <2>4. s \in Mark(black, t)
    <3>1. Beside(s, t)
      BY <1>5, <2>1, BesideIs
    <3> QED BY <2>1, <2>3, <3>1 DEF ClosedIn
  <2>5. Mark(black, s) \subseteq Mark(black, t)
    BY <2>1, <2>3, <2>4, MarkIs
  <2> QED BY <2>1, <2>2, <2>5
<1>6. ClosedIn(black, S)
  BY <1>5 DEF ClosedIn
<1>7. Mark(black, q) \subseteq S
  BY <1>4, <1>6, MarkIs
<1>8. q \in Mark(black, r)
  BY <1>7
<1>9. Mark(black, q) \subseteq Mark(black, r)
  BY <1>1, <1>2, <1>8, MarkIs
<1> QED BY <1>2, <1>3, <1>9

-----------------------------------------------------------------------------
(* A window painted: only samples of the window change, to those of the    *)
(* line.                                                                   *)

PaintFits(p, buf, at, diam, line, rows) ==
    /\ SamplesPerLine(p) \in Nat /\ at[1] \in Nat /\ at[2] * Depth(p) \in Nat /\ diam \in Nat /\ rows \in Nat
    /\ IsSeq(buf) /\ IsSeq(line) /\ at[1] + diam <= rows
    /\ at[2] * Depth(p) + Len(line) <= SamplesPerLine(p)
    /\ rows * SamplesPerLine(p) <= Len(buf)

\* So many lines of the window painted.
LinesPainted(p, buf, at, line, n, b) ==
    /\ IsSeq(b) /\ Len(b) = Len(buf)
    /\ \A i \in 1 .. Len(buf) :
         \/ b[i] = buf[i]
         \/ \E k \in 0 .. n - 1, x \in 1 .. Len(line) :
              i = (at[1] + k) * SamplesPerLine(p) + at[2] * Depth(p) + x /\ b[i] = line[x]

LinePainted(p, b, at, k, line) ==
    Copied(b, (at[1] + k - 1) * SamplesPerLine(p) + at[2] * Depth(p), line)

LEMMA LineStart ==
    ASSUME NEW s \in Nat, NEW a \in Nat, NEW o \in Nat, NEW m \in Nat, o + m <= s,
           NEW rows \in Nat, a + 1 <= rows, NEW len \in Nat, rows * s <= len
    PROVE  a * s + o \in Nat /\ (a * s + o) + m <= len
<1>1. a * s + s <= rows * s
  BY Monotone
<1>2. a * s \in Nat /\ rows * s \in Nat
  OBVIOUS
<1> DEFINE k == a * s
           l == rows * s
<1> HIDE DEF k, l
<1>3. k + o \in Nat /\ (k + o) + m <= len
  BY <1>1, <1>2 DEF k, l
<1> QED BY <1>3 DEF k

LEMMA LinePaintedIs ==
    ASSUME NEW p, NEW buf, NEW at, NEW diam, NEW line, NEW rows, PaintFits(p, buf, at, diam, line, rows),
           NEW n \in 1 .. diam, NEW b, IsSeq(b), Len(b) = Len(buf)
    PROVE  LET c == LinePainted(p, b, at, n, line)
               to == (at[1] + n - 1) * SamplesPerLine(p) + at[2] * Depth(p)
           IN /\ to \in Nat /\ to + Len(line) <= Len(buf)
              /\ IsSeq(c) /\ Len(c) = Len(buf)
              /\ \A i \in 1 .. Len(buf) : c[i] = IF i <= to \/ i > to + Len(line) THEN b[i] ELSE line[i - to]
<1> DEFINE c == LinePainted(p, b, at, n, line)
           s == SamplesPerLine(p)
           o == at[2] * Depth(p)
           a == at[1] + n - 1
           to == a * s + o
           m == Len(line)
           len == Len(buf)
<1>1. /\ s \in Nat /\ at[1] \in Nat /\ o \in Nat /\ diam \in Nat /\ rows \in Nat /\ m \in Nat /\ len \in Nat
      /\ at[1] + diam <= rows /\ o + m <= s /\ rows * s <= len /\ IsSeq(line)
  BY SeqLen DEF PaintFits
<1>2. a \in Nat /\ a + 1 <= rows
  <2>1. at[1] \in Nat /\ diam \in Nat /\ rows \in Nat /\ at[1] + diam <= rows
    BY <1>1
  <2> QED BY <2>1
<1>3. to \in Nat /\ to + m <= len
  <2> HIDE DEF s, o, a, m, len
  <2> QED BY <1>1, <1>2, LineStart
<1>4. c = Copied(b, to, line)
  BY DEF LinePainted
<1> HIDE DEF to
<1>5. /\ IsSeq(c) /\ Len(c) = len
      /\ \A i \in 1 .. len : c[i] = IF i <= to \/ i > to + m THEN b[i] ELSE line[i - to]
  <2>1. to + Len(line) <= Len(b) /\ Len(b) = len
    BY <1>3
  <2> HIDE DEF c
  <2> QED BY <2>1, <1>1, <1>3, <1>4, CopiedIs
<1> QED BY <1>3, <1>5 DEF to

LEMMA NextLinePainted ==
    ASSUME NEW p, NEW buf, NEW at, NEW diam, NEW line, NEW rows, PaintFits(p, buf, at, diam, line, rows),
           NEW n \in 1 .. diam, NEW b, LinesPainted(p, buf, at, line, n - 1, b)
    PROVE  LinesPainted(p, buf, at, line, n, LinePainted(p, b, at, n, line))
<1> DEFINE c == LinePainted(p, b, at, n, line)
           s == SamplesPerLine(p)
           o == at[2] * Depth(p)
           to == (at[1] + n - 1) * s + o
           m == Len(line)
           len == Len(buf)
<1>0. /\ IsSeq(b) /\ Len(b) = len
      /\ \A i \in 1 .. len :
           \/ b[i] = buf[i]
           \/ \E k \in 0 .. (n - 1) - 1, x \in 1 .. m : i = (at[1] + k) * s + o + x /\ b[i] = line[x]
  BY DEF LinesPainted
<1>1. /\ to \in Nat /\ to + m <= len
      /\ IsSeq(c) /\ Len(c) = len
      /\ \A i \in 1 .. len : c[i] = IF i <= to \/ i > to + m THEN b[i] ELSE line[i - to]
  BY <1>0, LinePaintedIs
<1>2. diam \in Nat /\ m \in Nat /\ len \in Nat /\ n \in Nat /\ at[1] \in Nat
  BY SeqLen DEF PaintFits
<1>3. ASSUME NEW i \in 1 .. len
      PROVE  c[i] = buf[i] \/ \E k \in 0 .. n - 1, x \in 1 .. m : i = (at[1] + k) * s + o + x /\ c[i] = line[x]
  <2>1. CASE i <= to \/ i > to + m
    <3>1. c[i] = b[i]
      BY <2>1, <1>1
    <3>2. 0 .. (n - 1) - 1 \subseteq 0 .. n - 1
      BY <1>2
    <3> HIDE DEF c, s, o, m, len
    <3> QED BY <3>1, <3>2, <1>0
  <2>2. CASE ~(i <= to \/ i > to + m)
    <3>1. i - to \in 1 .. m /\ to + (i - to) = i /\ n - 1 \in 0 .. n - 1 /\ at[1] + n - 1 = at[1] + (n - 1)
      <4> HIDE DEF to, m, len
      <4> QED BY <2>2, <1>1, <1>2
    <3>2. c[i] = line[i - to]
      BY <2>2, <1>1
    <3>3. to = (at[1] + (n - 1)) * s + o
      BY <3>1
    <3> HIDE DEF c, s, o, m, len, to
    <3>4. i = ((at[1] + (n - 1)) * s + o) + (i - to) /\ c[i] = line[i - to]
      BY <3>1, <3>2, <3>3
    <3> QED BY <3>1, <3>4
  <2> QED BY <2>1, <2>2
<1> HIDE DEF c
<1>4. LinesPainted(p, buf, at, line, n, c)
  BY <1>1, <1>3 DEF LinesPainted
<1> QED BY <1>4 DEF c

LEMMA PaintedIs ==
    ASSUME NEW p, NEW buf, NEW at, NEW diam, NEW line, NEW rows, PaintFits(p, buf, at, diam, line, rows)
    PROVE  LinesPainted(p, buf, at, line, diam, Painted(p, buf, at, diam, line))
<1> DEFINE len == Len(buf)
           T == {buf[i] : i \in 1 .. len} \cup {line[i] : i \in 1 .. Len(line)}
           D == BufferOf(len, T)
           F == [n \in 1 .. diam |-> [b \in D |-> LinePainted(p, b, at, n, line)]]
           Is(h) == h = [k \in 0 .. diam |->
                          IF k = 0 THEN buf
                          ELSE Copied(h[k - 1], (at[1] + k - 1) * SamplesPerLine(p) + at[2] * Depth(p), line)]
           lines == CHOOSE h : Is(h)
<1>1. diam \in Nat /\ len \in Nat /\ IsSeq(buf) /\ IsSeq(line) /\ Len(line) \in Nat
  BY SeqLen DEF PaintFits
<1>2. (\A i \in 1 .. len : buf[i] \in T) /\ (\A i \in 1 .. Len(line) : line[i] \in T)
  OBVIOUS
<1> HIDE DEF T
<1>3. buf \in D
  <2> HIDE DEF D
  <2> QED BY <1>1, <1>2, BufferIs DEF D
<1>4. F \in [1 .. diam -> [D -> D]]
  <2>1. ASSUME NEW n \in 1 .. diam, NEW b \in D PROVE LinePainted(p, b, at, n, line) \in D
    <3>1. IsSeq(b) /\ Len(b) = len
      BY <1>1, BufferIs
    <3> DEFINE to == (at[1] + n - 1) * SamplesPerLine(p) + at[2] * Depth(p)
    <3>2. to \in Nat /\ to + Len(line) <= len
      BY <3>1, LinePaintedIs
    <3> HIDE DEF to
    <3>3. Copied(b, to, line) \in D
      BY <1>1, <1>2, <3>2, CopiedBuffer
    <3> QED BY <3>3 DEF LinePainted, to
  <2> HIDE DEF D
  <2> QED BY <2>1
<1>5. PICK g : Follows(g, diam, D, buf, F)
  <2> HIDE DEF D, F
  <2> QED BY <1>1, <1>3, <1>4, StepByStep
<1>6. \A n \in 1 .. diam : g[n] = LinePainted(p, g[n - 1], at, n, line)
  <2>1. ASSUME NEW n \in 1 .. diam PROVE g[n] = LinePainted(p, g[n - 1], at, n, line)
    <3>1. n - 1 \in 0 .. diam
      BY <1>1
    <3>2. g[n - 1] \in D
      <4> HIDE DEF D, F
      <4> QED BY <1>5, <3>1 DEF Follows
    <3>3. g[n] = F[n][g[n - 1]]
      <4> HIDE DEF D, F
      <4> QED BY <1>5 DEF Follows
    <3> HIDE DEF D
    <3> QED BY <3>2, <3>3
  <2> QED BY <2>1
<1>7. Is(g)
  <2>1. g = [n \in 0 .. diam |-> g[n]] /\ g[0] = buf
    <3> HIDE DEF D, F
    <3> QED BY <1>5 DEF Follows
  <2>2. \A n \in 0 .. diam : n # 0 => n \in 1 .. diam
    BY <1>1
  <2> QED BY <2>1, <2>2, <1>6 DEF LinePainted
<1>8. Is(lines)
  <2> HIDE DEF Is
  <2> QED BY <1>7
<1>9. Painted(p, buf, at, diam, line) = lines[diam]
  BY DEF Painted
<1> HIDE DEF lines, D, F, len
<1>10. lines[0] = buf /\ \A n \in 1 .. diam : lines[n] = LinePainted(p, lines[n - 1], at, n, line)
  <2>1. 0 \in 0 .. diam /\ \A n \in 1 .. diam : n \in 0 .. diam /\ n # 0
    BY <1>1
  <2> QED BY <2>1, <1>8 DEF LinePainted
<1> DEFINE S == {n \in 0 .. diam : LinesPainted(p, buf, at, line, n, lines[n])}
<1>11. 0 \in S
  <2>1. LinesPainted(p, buf, at, line, 0, buf)
    BY <1>1 DEF LinesPainted
  <2> QED BY <2>1, <1>1, <1>10
<1>12. ASSUME NEW n \in 0 .. diam - 1, n \in S PROVE n + 1 \in S
  <2>1. n + 1 \in 1 .. diam /\ (n + 1) - 1 = n /\ n + 1 \in 0 .. diam
    BY <1>1
  <2>2. LinesPainted(p, buf, at, line, (n + 1) - 1, lines[n])
    BY <2>1, <1>12
  <2>3. lines[n + 1] = LinePainted(p, lines[n], at, n + 1, line)
    <3>1. lines[n + 1] = LinePainted(p, lines[(n + 1) - 1], at, n + 1, line)
      BY <2>1, <1>10
    <3> QED BY <3>1, <2>1
  <2>4. LinesPainted(p, buf, at, line, n + 1, lines[n + 1])
    BY <2>1, <2>2, <2>3, NextLinePainted
  <2> QED BY <2>1, <2>4
<1> HIDE DEF S
<1>13. diam \in S
  <2>1. 0 .. diam \subseteq S
    BY <1>1, <1>11, <1>12, Upwards
  <2> QED BY <2>1, <1>1
<1> QED BY <1>9, <1>13 DEF S

-----------------------------------------------------------------------------
(* Despeck.                                                                *)

\* A window with something around it on every side.
Inside(p, at, diam) ==
    /\ at[1] \in Nat /\ at[2] \in Nat /\ at[1] >= 1 /\ at[2] >= 1
    /\ at[1] + diam + 1 <= p.lines /\ at[2] + diam + 1 <= p.ppl

LEMMA MaxOfTwo == \A v \in Int : Max({0, v}) = IF v >= 0 THEN v ELSE 0
<1> SUFFICES ASSUME NEW v \in Int PROVE Max({0, v}) = IF v >= 0 THEN v ELSE 0
  OBVIOUS
<1>1. \E x \in {0, v} : \A y \in {0, v} : x >= y
  OBVIOUS
<1>2. Max({0, v}) \in {0, v} /\ \A y \in {0, v} : Max({0, v}) >= y
  BY <1>1 DEF Max
<1> QED BY <1>2

LEMMA WindowsAre ==
    ASSUME NEW p \in ParameterSet, NEW diam \in Nat
    PROVE  /\ Len(WindowsOf(p, diam)) \in Nat
           /\ \A i \in 1 .. Len(WindowsOf(p, diam)) : Inside(p, WindowsOf(p, diam)[i], diam)
<1> DEFINE w == Max({0, p.ppl - 2 - diam})
           h == Max({0, p.lines - 2 - diam})
           W == WindowsOf(p, diam)
<1>1. /\ w \in Nat /\ h \in Nat /\ p.ppl \in Nat /\ p.lines \in Nat
      /\ (w # 0 => w + diam + 2 = p.ppl) /\ (h # 0 => h + diam + 2 = p.lines)
  <2>1. p.ppl \in Nat /\ p.lines \in Nat
    BY DEF ParameterSet
  <2> QED BY <2>1, MaxOfTwo
<1>2. W = [i \in 1 .. w * h |-> <<1 + ((i - 1) \div w), 1 + ((i - 1) % w)>>]
  BY DEF WindowsOf
<1> HIDE DEF w, h, W
<1>3. w * h \in Nat
  BY <1>1
<1>4. IsSeq(W) /\ Len(W) = w * h
  <2>1. W = [i \in 1 .. w * h |-> W[i]]
    BY <1>2
  <2> QED BY <2>1, <1>3, ListedIsSeq
<1>5. ASSUME NEW i \in 1 .. w * h PROVE Inside(p, W[i], diam)
  <2> DEFINE j == i - 1
             y == j \div w
             x == j % w
  <2>1. w # 0 /\ h # 0
    BY <1>1, <1>3
  <2>2. j \in Nat /\ j < w * h
    BY <1>3
  <2>3. W[i] = <<1 + y, 1 + x>>
    BY <1>2
  <2> HIDE DEF j
  <2>4. y \in Nat /\ y * w <= j /\ x \in 0 .. w - 1
    <3>1. w \in Nat \ {0}
      BY <1>1, <2>1
    <3>2. y \in Nat /\ y * w <= j
      BY <3>1, <2>2, Quotient
    <3>3. \A q \in Nat \ {0}, a \in Nat : a % q \in 0 .. q - 1
      OBVIOUS
    <3> QED BY <3>1, <3>2, <3>3, <2>2
  <2> HIDE DEF x, y
  <2>5. y < h
    <3> SUFFICES ASSUME y >= h PROVE FALSE
      BY <1>1, <2>4
    <3>1. h * w <= y * w
      BY <1>1, <2>4
    <3>2. h * w = w * h
      BY <1>1
    <3> QED BY <3>1, <3>2, <1>1, <1>3, <2>2, <2>4
  <2>6. W[i][1] = 1 + y /\ W[i][2] = 1 + x
    BY <2>3
  <2> QED BY <1>1, <2>1, <2>4, <2>5, <2>6 DEF Inside
<1> QED BY <1>3, <1>4, <1>5 DEF W

\* The buffer of an image.
Buffer(p, buf) ==
    /\ p \in ParameterSet /\ p.ppl * Depth(p) <= SamplesPerLine(p)
    /\ IsSeq(buf) /\ Len(buf) = p.lines * SamplesPerLine(p)

\* Of a lineart image only the window has changed, if it was isolated, and to white.
OnlyTheWindow(p, buf, at, diam, new) ==
    \A i \in 1 .. Len(buf) :
      \/ new[i] = buf[i]
      \/ /\ Isolated(p, buf, at, diam) /\ new[i] = 0
         /\ \E k \in 0 .. diam - 1, x \in 1 .. diam : i = (at[1] + k) * SamplesPerLine(p) + at[2] + x

LEMMA DespeckedIs ==
    ASSUME NEW p, NEW buf, Buffer(p, buf), NEW diam \in Nat, NEW at, Inside(p, at, diam)
    PROVE  /\ Buffer(p, Despecked(p, buf, at, diam))
           /\ p.format = "lineart" => OnlyTheWindow(p, buf, at, diam, Despecked(p, buf, at, diam))
<1> DEFINE D == Despecked(p, buf, at, diam)
           d == Depth(p)
           paint == [n \in 0 .. d - 1 |->
                       IF p.format = "lineart" THEN 0 ELSE Average(p, buf, at, diam, n)]
           line == [i \in 1 .. diam * d |-> paint[(i - 1) % d]]
           s == SamplesPerLine(p)
<1>1. D = IF Isolated(p, buf, at, diam) THEN Painted(p, buf, at, diam, line) ELSE buf
  BY DEF Despecked
<1>2. /\ d \in {1, 3} /\ (p.format = "lineart" => d = 1) /\ s \in Nat
      /\ p.ppl \in Nat /\ p.lines \in Nat /\ p.ppl * d <= s
  <2>1. p.bpl \in Nat /\ p.ppl \in Nat /\ p.lines \in Nat
    BY DEF Buffer, ParameterSet
  <2>2. p.ppl * Depth(p) <= SamplesPerLine(p)
    BY DEF Buffer
  <2> QED BY <2>1, <2>2 DEF Depth, SamplesPerLine
<1>3. at[1] \in Nat /\ at[2] \in Nat /\ at[1] + diam + 1 <= p.lines /\ at[2] + diam + 1 <= p.ppl
  BY DEF Inside
<1> HIDE DEF d
<1>4. diam * d \in Nat /\ at[2] * d \in Nat /\ at[2] * d + diam * d <= p.ppl * d /\ p.ppl * d \in Nat
  <2>1. CASE d = 1
    BY <2>1, <1>2, <1>3
  <2>2. CASE d = 3
    BY <2>2, <1>2, <1>3
  <2> QED BY <2>1, <2>2, <1>2
<1>5. IsSeq(line) /\ Len(line) = diam * d
  <2>1. line = [i \in 1 .. diam * d |-> line[i]]
    OBVIOUS
  <2> HIDE DEF line
  <2> QED BY <1>4, <2>1, ListedIsSeq
<1>6. p.format = "lineart" => \A i \in 1 .. Len(line) : line[i] = 0
  <2> SUFFICES ASSUME p.format = "lineart", NEW i \in 1 .. diam PROVE line[i] = 0
    BY <1>2, <1>5
  <2>1. (i - 1) % 1 = 0
    OBVIOUS
  <2>2. d = 1 /\ diam * d = diam
    BY <1>2
  <2>3. paint[0] = 0
    BY <2>2
  <2>4. line[i] = paint[(i - 1) % d]
    BY <2>2
  <2> QED BY <2>1, <2>2, <2>3, <2>4
<1> HIDE DEF line
<1>7. PaintFits(p, buf, at, diam, line, p.lines)
  <2>1. at[2] * d + Len(line) <= s
    <3> DEFINE a == at[2] * d
               b == diam * d
               c == p.ppl * d
    <3>1. a \in Nat /\ b \in Nat /\ c \in Nat /\ a + b <= c /\ c <= s /\ s \in Nat
      BY <1>2, <1>4
    <3> HIDE DEF a, b, c, s
    <3>2. a + b <= s
      BY <3>1
    <3> QED BY <3>2, <1>5 DEF a, b
  <2>2. IsSeq(buf) /\ p.lines * s <= Len(buf)
    <3>1. IsSeq(buf) /\ Len(buf) = p.lines * s /\ Len(buf) \in Nat
      BY SeqLen DEF Buffer
    <3> QED BY <3>1
  <2>3. at[1] + diam <= p.lines
    BY <1>2, <1>3
  <2> QED BY <1>2, <1>3, <1>4, <1>5, <2>1, <2>2, <2>3 DEF PaintFits, d
<1>8. LinesPainted(p, buf, at, line, diam, Painted(p, buf, at, diam, line))
  BY <1>7, PaintedIs
<1>9. CASE ~Isolated(p, buf, at, diam)
  BY <1>1, <1>9 DEF OnlyTheWindow
<1>10. CASE Isolated(p, buf, at, diam)
  <2>1. D = Painted(p, buf, at, diam, line)
    BY <1>1, <1>10
  <2> HIDE DEF D
  <2>2. /\ IsSeq(D) /\ Len(D) = Len(buf)
        /\ \A i \in 1 .. Len(buf) :
             \/ D[i] = buf[i]
             \/ \E k \in 0 .. diam - 1, x \in 1 .. Len(line) : i = (at[1] + k) * s + at[2] * d + x /\ D[i] = line[x]
    BY <1>8, <2>1 DEF LinesPainted, d
  <2>3. Buffer(p, D)
    BY <2>2 DEF Buffer
  <2>4. ASSUME p.format = "lineart", NEW i \in 1 .. Len(buf), D[i] # buf[i]
        PROVE  D[i] = 0 /\ \E k \in 0 .. diam - 1, x \in 1 .. diam : i = (at[1] + k) * s + at[2] + x
    <3>1. PICK k \in 0 .. diam - 1, x \in 1 .. Len(line) : i = (at[1] + k) * s + at[2] * d + x /\ D[i] = line[x]
      BY <2>2, <2>4
    <3>2. at[2] * d = at[2] /\ Len(line) = diam
      BY <1>2, <1>3, <1>5, <2>4
    <3> HIDE DEF s
    <3>3. D[i] = 0
      BY <3>1, <1>6, <2>4
    <3> QED BY <3>1, <3>2, <3>3
  <2>5. p.format = "lineart" => OnlyTheWindow(p, buf, at, diam, D)
    BY <2>4, <1>10 DEF OnlyTheWindow
  <2> QED BY <2>3, <2>5 DEF D
<1> QED BY <1>9, <1>10

\* What the windows so far have left of an image: no pixel has become black, and a
\* mark that has lost one fits in a window.
PixelsOf(p) == (0 .. p.lines - 1) \X (0 .. p.ppl - 1)
SpotsGone(m, diam, buf) ==
    /\ Buffer(m.p, buf)
    /\ m.p.format = "lineart" =>
         /\ \A q \in PixelsOf(m.p) : Pixel(m.p, buf, q) \in {0, Pixel(m.p, m.buf, q)}
         /\ \A q \in Black(m) : Pixel(m.p, buf, q) = 0 => Fits(Mark(Black(m), q), diam)

LEMMA PixelPlace ==
    ASSUME NEW p, NEW buf, Buffer(p, buf), p.format = "lineart", NEW q \in PixelsOf(p)
    PROVE  /\ q[1] \in Nat /\ q[2] \in Nat /\ q[1] < p.lines /\ q[2] < p.ppl
           /\ SamplesPerLine(p) \in Nat /\ q[2] + 1 <= SamplesPerLine(p)
           /\ q[1] * SamplesPerLine(p) + q[2] + 1 \in 1 .. Len(buf)
           /\ Pixel(p, buf, q) = buf[q[1] * SamplesPerLine(p) + q[2] + 1]
<1> DEFINE s == SamplesPerLine(p)
           y == q[1]
           x == q[2]
<1>1. /\ p.lines \in Nat /\ p.ppl \in Nat /\ s \in Nat /\ Depth(p) = 1 /\ p.ppl <= s
      /\ Len(buf) = p.lines * s
  <2>1. p.bpl \in Nat /\ p.ppl \in Nat /\ p.lines \in Nat /\ Len(buf) = p.lines * s
        /\ p.ppl * Depth(p) <= s
    BY DEF Buffer, ParameterSet
  <2> QED BY <2>1 DEF Depth, SamplesPerLine
<1>2. y \in Nat /\ x \in Nat /\ y + 1 <= p.lines /\ x < p.ppl
  BY <1>1 DEF PixelsOf
<1>3. Pixel(p, buf, q) = buf[y * s + x + 1]
  <2>1. Pixel(p, buf, q) = buf[(y * s + x * Depth(p)) + 1]
    BY DEF Pixel, PixelAt
  <2>2. x * Depth(p) = x
    BY <1>1, <1>2
  <2> QED BY <2>1, <2>2
<1> HIDE DEF s, y, x
<1>4. y * s + s <= p.lines * s
  BY <1>1, <1>2, Monotone
<1>5. y * s + x + 1 \in 1 .. p.lines * s
  <2> DEFINE k == y * s
             l == p.lines * s
  <2>1. k \in Nat /\ l \in Nat /\ k + s <= l
    BY <1>1, <1>2, <1>4
  <2> HIDE DEF k, l
  <2>2. x \in Nat /\ x + 1 <= s /\ s \in Nat
    <3>1. \A i, n, m \in Nat : i < n /\ n <= m => i + 1 <= m
      OBVIOUS
    <3>2. x \in Nat /\ x < p.ppl /\ p.ppl \in Nat /\ p.ppl <= s /\ s \in Nat
      BY <1>1, <1>2
    <3> QED BY <3>1, <3>2
  <2>3. k + x + 1 \in 1 .. l
    BY <2>1, <2>2
  <2> QED BY <2>3 DEF k, l
<1>6. x + 1 <= s /\ y < p.lines
  <2>1. x \in Nat /\ x < p.ppl /\ p.ppl \in Nat /\ p.ppl <= s /\ s \in Nat
    BY <1>1, <1>2
  <2>2. y \in Nat /\ y + 1 <= p.lines /\ p.lines \in Nat
    BY <1>1, <1>2
  <2> QED BY <2>1, <2>2
<1>7. y * s + x + 1 \in 1 .. Len(buf)
  BY <1>1, <1>5
<1>8. y \in Nat /\ x \in Nat /\ x < p.ppl /\ s \in Nat
  BY <1>1, <1>2
<1> QED BY <1>3, <1>6, <1>7, <1>8 DEF s, y, x

\* A sample is in one line, at one place.
LEMMA OnePlace ==
    ASSUME NEW s \in Nat, NEW y \in Nat, NEW z \in Nat, NEW a \in 1 .. s, NEW b \in 1 .. s, y * s + a = z * s + b
    PROVE  y = z /\ a = b
<1> DEFINE k == y * s
           l == z * s
<1>1. k \in Nat /\ l \in Nat
  OBVIOUS
<1>2. ASSUME y < z PROVE FALSE
  <2>1. k + s <= l
    BY <1>2, Monotone
  <2> HIDE DEF k, l
  <2>2. k + a = l + b
    BY DEF k, l
  <2> QED BY <2>1, <2>2, <1>1
<1>3. ASSUME z < y PROVE FALSE
  <2>1. l + s <= k
    BY <1>3, Monotone
  <2> HIDE DEF k, l
  <2>2. k + a = l + b
    BY DEF k, l
  <2> QED BY <2>1, <2>2, <1>1
<1>4. y = z
  BY <1>2, <1>3
<1> QED BY <1>1, <1>4

LEMMA AroundWindow ==
    ASSUME NEW at, at[1] \in Int, at[2] \in Int, NEW diam \in Nat, NEW s \in Window(at, diam),
           NEW r \in Int \X Int, Beside(r, s)
    PROVE  r \in Window(at, diam) \/ r \in Ring(at, diam)
<1> DEFINE around == (at[1] - 1 .. at[1] + diam) \X (at[2] - 1 .. at[2] + diam)
<1>1. s[1] \in at[1] .. at[1] + diam - 1 /\ s[2] \in at[2] .. at[2] + diam - 1
  BY DEF Window
<1>2. r[1] \in Int /\ r[2] \in Int /\ r = <<r[1], r[2]>>
  OBVIOUS
<1>3. \A a \in Int, b \in Int, c \in Int :
        b \in a .. a + diam - 1 /\ Abs(c - b) <= 1 => c \in a - 1 .. a + diam
  BY DEF Abs
<1>4. r[1] \in at[1] - 1 .. at[1] + diam
  BY <1>1, <1>2, <1>3 DEF Beside
<1>5. r[2] \in at[2] - 1 .. at[2] + diam
  BY <1>1, <1>2, <1>3 DEF Beside
<1>6. r \in around
  BY <1>2, <1>4, <1>5
<1> QED BY <1>6 DEF Ring

LEMMA WindowFits ==
    ASSUME NEW at, at[1] \in Int, at[2] \in Int, NEW diam \in Nat, NEW S \in SUBSET Window(at, diam)
    PROVE  Fits(S, diam)
<1> SUFFICES ASSUME NEW r \in S, NEW s \in S PROVE Abs(r[1] - s[1]) < diam /\ Abs(r[2] - s[2]) < diam
  BY DEF Fits
<1>1. /\ r[1] \in at[1] .. at[1] + diam - 1 /\ r[2] \in at[2] .. at[2] + diam - 1
      /\ s[1] \in at[1] .. at[1] + diam - 1 /\ s[2] \in at[2] .. at[2] + diam - 1
  BY DEF Window
<1>2. \A a \in Int : \A b, c \in a .. a + diam - 1 : Abs(b - c) < diam
  BY DEF Abs
<1> QED BY <1>1, <1>2

\* The images: of a lineart one the pixels are 0 or 1, and the black ones are finite.
Image(m) == Buffer(m.p, m.buf) /\ m.buf \in Seq(SamplesOf(m.p))

LEMMA BlackIs ==
    ASSUME NEW m, Image(m)
    PROVE  /\ Black(m) \subseteq PixelsOf(m.p) /\ PixelsOf(m.p) \subseteq Int \X Int
           /\ IsFiniteSet(Black(m))
<1>1. m.p.lines \in Nat /\ m.p.ppl \in Nat
  BY DEF Image, Buffer, ParameterSet
<1>2. Black(m) \subseteq PixelsOf(m.p) /\ PixelsOf(m.p) \subseteq Int \X Int
  BY <1>1 DEF Black, PixelsOf
<1>3. IsFiniteSet(PixelsOf(m.p))
  <2> DEFINE y == m.p.lines - 1
             x == m.p.ppl - 1
  <2>1. 0 \in Int /\ y \in Int /\ x \in Int
    BY <1>1
  <2> HIDE DEF y, x
  <2>2. IsFiniteSet(0 .. y) /\ IsFiniteSet(0 .. x)
    BY <2>1, FS_Interval
  <2>3. IsFiniteSet((0 .. y) \X (0 .. x))
    BY <2>2, FS_Product
  <2> QED BY <2>3 DEF PixelsOf, y, x
<1> QED BY <1>2, <1>3, FS_Subset

\* A pixel of a window that is removed and was there before it.
LEMMA RemovedPixel ==
    ASSUME NEW p, NEW buf, Buffer(p, buf), p.format = "lineart", NEW diam \in Nat, NEW at, Inside(p, at, diam),
           NEW q \in PixelsOf(p)
    PROVE  LET D == Despecked(p, buf, at, diam)
           IN \/ Pixel(p, D, q) = Pixel(p, buf, q)
              \/ Pixel(p, D, q) = 0 /\ Isolated(p, buf, at, diam) /\ q \in Window(at, diam)
<1> DEFINE D == Despecked(p, buf, at, diam)
           s == SamplesPerLine(p)
           i == q[1] * s + q[2] + 1
<1>1. /\ q[1] \in Nat /\ q[2] \in Nat /\ q[1] < p.lines /\ q[2] < p.ppl /\ s \in Nat /\ q[2] + 1 <= s
      /\ i \in 1 .. Len(buf) /\ Pixel(p, buf, q) = buf[i]
  BY PixelPlace
<1>2. Buffer(p, D)
  BY DespeckedIs
<1>3. Pixel(p, D, q) = D[i]
  <2> HIDE DEF D
  <2> QED BY <1>2, PixelPlace
<1>4. \/ D[i] = buf[i]
      \/ /\ Isolated(p, buf, at, diam) /\ D[i] = 0
         /\ \E k \in 0 .. diam - 1, x \in 1 .. diam : i = (at[1] + k) * s + at[2] + x
  <2>1. \A j \in 1 .. Len(buf) :
          \/ D[j] = buf[j]
          \/ /\ Isolated(p, buf, at, diam) /\ D[j] = 0
             /\ \E k \in 0 .. diam - 1, x \in 1 .. diam : j = (at[1] + k) * s + at[2] + x
    <3>1. OnlyTheWindow(p, buf, at, diam, D)
      BY DespeckedIs
    <3> QED BY <3>1 DEF OnlyTheWindow
  <2> HIDE DEF i, D, s
  <2> QED BY <1>1, <2>1
<1>5. at[1] \in Nat /\ at[2] \in Nat /\ at[2] + diam <= s
  <2>1. p.ppl \in Nat /\ p.ppl * 1 <= s
    BY DEF Buffer, ParameterSet, Depth
  <2>2. at[1] \in Nat /\ at[2] \in Nat /\ at[2] + diam + 1 <= p.ppl
    BY DEF Inside
  <2>3. s \in Nat /\ p.ppl <= s
    BY <2>1, <1>1
  <2> HIDE DEF s
  <2> QED BY <2>1, <2>2, <2>3
<1> DEFINE y == q[1]
           c == q[2]
<1>6. ASSUME NEW k \in 0 .. diam - 1, NEW x \in 1 .. diam, i = (at[1] + k) * s + at[2] + x
      PROVE  q \in Window(at, diam)
  <2> DEFINE z == at[1] + k
             a == c + 1
             b == at[2] + x
             u == y * s
             v == z * s
  <2>1. y \in Nat /\ c \in Nat /\ c + 1 <= s /\ s \in Nat
    BY <1>1
  <2>2. u + c + 1 = v + at[2] + x
    BY <1>6
  <2> HIDE DEF y, c, s, i
  <2>3. z \in Nat /\ a \in 1 .. s /\ b \in 1 .. s
    BY <1>5, <2>1
  <2> HIDE DEF z
  <2>4. u \in Nat /\ v \in Nat
    BY <2>1, <2>3
  <2> HIDE DEF u, v
  <2>5. u + a = v + b
    BY <2>1, <2>2, <2>4, <1>5
  <2> HIDE DEF a, b
  <2>6. y = z /\ a = b
    <3>1. y * s + a = z * s + b
      BY <2>5 DEF u, v
    <3> QED BY <2>1, <2>3, <3>1, OnePlace
  <2>7. y \in at[1] .. at[1] + diam - 1 /\ c \in at[2] .. at[2] + diam - 1
    BY <2>1, <2>6, <1>5 DEF z, a, b
  <2>8. q = <<y, c>>
    BY DEF PixelsOf, y, c
  <2> QED BY <2>7, <2>8 DEF Window
<1> HIDE DEF D, i
<1> QED BY <1>1, <1>3, <1>4, <1>6 DEF D

LEMMA WindowKeeps ==
    ASSUME NEW m, Image(m), NEW diam \in Nat, NEW buf, SpotsGone(m, diam, buf), NEW at, Inside(m.p, at, diam)
    PROVE  SpotsGone(m, diam, Despecked(m.p, buf, at, diam))
<1> DEFINE p == m.p
           D == Despecked(p, buf, at, diam)
           black == Black(m)
<1>1. Buffer(p, buf) /\ Buffer(p, D)
  <2>1. Buffer(p, buf)
    BY DEF SpotsGone
  <2> QED BY <2>1, DespeckedIs
<1> SUFFICES ASSUME p.format = "lineart"
             PROVE  /\ \A q \in PixelsOf(p) : Pixel(p, D, q) \in {0, Pixel(p, m.buf, q)}
                    /\ \A q \in black : Pixel(p, D, q) = 0 => Fits(Mark(black, q), diam)
  BY <1>1 DEF SpotsGone
<1>2. /\ \A q \in PixelsOf(p) : Pixel(p, buf, q) \in {0, Pixel(p, m.buf, q)}
      /\ \A q \in black : Pixel(p, buf, q) = 0 => Fits(Mark(black, q), diam)
  BY DEF SpotsGone
<1>3. \A q \in PixelsOf(p) :
        \/ Pixel(p, D, q) = Pixel(p, buf, q)
        \/ Pixel(p, D, q) = 0 /\ Isolated(p, buf, at, diam) /\ q \in Window(at, diam)
  BY <1>1, RemovedPixel
<1>4. black \subseteq PixelsOf(p) /\ PixelsOf(p) \subseteq Int \X Int /\ IsFiniteSet(black)
  BY BlackIs
<1>5. \A q \in black : Pixel(p, m.buf, q) = 1
  BY DEF Black
<1>6. at[1] \in Int /\ at[2] \in Int
  BY DEF Inside
<1> HIDE DEF p, D, black
<1>7. ASSUME NEW q \in PixelsOf(p) PROVE Pixel(p, D, q) \in {0, Pixel(p, m.buf, q)}
  BY <1>2, <1>3
<1>8. ASSUME NEW q \in black, Pixel(p, D, q) = 0 PROVE Fits(Mark(black, q), diam)
  <2> DEFINE M == Mark(black, q)
  <2>1. black \in SUBSET (Int \X Int)
    BY <1>4
  <2>2. q \in M /\ M \subseteq black /\ ClosedIn(black, M)
    BY <2>1, <1>4, MarkIs
  <2>3. CASE \E r \in M : Pixel(p, buf, r) = 0
    <3>1. PICK r \in M : Pixel(p, buf, r) = 0
      BY <2>3
    <3>2. r \in black /\ Mark(black, r) = M
      BY <2>1, <1>4, OneMark
    <3>3. Fits(Mark(black, r), diam)
      BY <3>1, <3>2, <1>2
    <3> QED BY <3>2, <3>3
  <2>4. CASE \A r \in M : Pixel(p, buf, r) # 0
    <3>1. Isolated(p, buf, at, diam) /\ q \in Window(at, diam)
      <4>1. q \in PixelsOf(p) /\ Pixel(p, buf, q) # 0
        BY <1>4, <2>2, <2>4
      <4> QED BY <4>1, <1>3, <1>8
    <3>2. \A r \in Ring(at, diam) : Pixel(p, buf, r) = 0
      BY <3>1 DEF Isolated, p
    <3> DEFINE S == M \cap Window(at, diam)
    <3>3. q \in S /\ S \in SUBSET black
      BY <3>1, <2>2
    <3>4. ASSUME NEW s \in S, NEW r \in black, Beside(r, s) PROVE r \in S
      <4>1. s \in M /\ s \in Window(at, diam)
        OBVIOUS
      <4>2. r \in M
        BY <4>1, <2>2, <3>4 DEF ClosedIn
      <4>3. r \notin Ring(at, diam)
        BY <4>2, <2>4, <3>2
      <4>4. r \in Int \X Int
        BY <2>1
      <4>5. r \in Window(at, diam)
        BY <4>1, <4>3, <4>4, <3>4, <1>6, AroundWindow
      <4> QED BY <4>2, <4>5
    <3>5. ClosedIn(black, S)
      BY <3>4 DEF ClosedIn
    <3>6. M \subseteq S
      <4> HIDE DEF S
      <4> QED BY <2>1, <1>4, <3>3, <3>5, MarkIs
    <3>7. M \in SUBSET Window(at, diam)
      BY <3>6
    <3> QED BY <3>7, <1>6, WindowFits
  <2> QED BY <2>3, <2>4
<1> QED BY <1>7, <1>8 DEF p, D, black

\* What the windows leave one after the other, as a function of how many they are.
After(p, buf, diam, at, n, h) ==
    h = [i \in 0 .. n |->
           IF i = 0 THEN buf
           ELSE CHOOSE b \in {Despecked(p, before, at[i], diam) : before \in {h[i - 1]}} : TRUE]

LEMMA ThereIsAfter ==
    ASSUME NEW p, NEW buf, NEW diam, NEW at, NEW n \in Nat
    PROVE  \E h : After(p, buf, diam, at, n, h)
<1> DEFINE OneMore(i, b) == CHOOSE c \in {Despecked(p, before, at[i], diam) : before \in {b}} : TRUE
           Up(k, h) == h = [i \in 0 .. k |-> IF i = 0 THEN buf ELSE OneMore(i, h[i - 1])]
           S == {k \in 0 .. n : \E h : Up(k, h)}
<1> HIDE DEF OneMore
<1>1. 0 \in S
  <2> DEFINE h == [i \in 0 .. 0 |-> buf]
  <2>1. Up(0, h)
    <3>1. \A i \in 0 .. 0 : i = 0
      OBVIOUS
    <3> QED BY <3>1
  <2> HIDE DEF h, Up
  <2>2. \E g : Up(0, g)
    BY <2>1
  <2> QED BY <2>2
<1>2. ASSUME NEW k \in 0 .. n - 1, k \in S PROVE k + 1 \in S
  <2>1. PICK g : Up(k, g)
    BY <1>2
  <2> DEFINE v == OneMore(k + 1, g[k])
             h == [i \in 0 .. k + 1 |-> IF i = k + 1 THEN v ELSE g[i]]
  <2>2. k \in Nat /\ k + 1 \in 0 .. n
    OBVIOUS
  <2>3. \A i \in 0 .. k : g[i] = IF i = 0 THEN buf ELSE OneMore(i, g[i - 1])
    BY <2>1
  <2>4. ASSUME NEW i \in 0 .. k + 1 PROVE h[i] = IF i = 0 THEN buf ELSE OneMore(i, h[i - 1])
    <3>1. CASE i = k + 1
      <4>1. h[i] = v /\ h[i - 1] = g[k] /\ i # 0
        BY <3>1, <2>2
      <4> QED BY <4>1, <3>1
    <3>2. CASE i = 0
      <4>1. h[i] = g[0] /\ 0 \in 0 .. k
        BY <3>2, <2>2
      <4> QED BY <4>1, <3>2, <2>3
    <3>3. CASE i # k + 1 /\ i # 0
      <4>1. h[i] = g[i] /\ h[i - 1] = g[i - 1] /\ i \in 0 .. k
        BY <3>3, <2>2
      <4> QED BY <4>1, <3>3, <2>3
    <3> QED BY <3>1, <3>2, <3>3
  <2>5. h = [i \in 0 .. k + 1 |-> h[i]]
    OBVIOUS
  <2> HIDE DEF h
  <2>6. Up(k + 1, h)
    BY <2>4, <2>5
  <2> HIDE DEF Up
  <2> QED BY <2>2, <2>6
<1> HIDE DEF S
<1>3. n \in S
  <2>1. 0 .. n \subseteq S
    BY <1>1, <1>2, Upwards
  <2> QED BY <2>1
<1>4. PICK h : Up(n, h)
  BY <1>3 DEF S
<1>5. After(p, buf, diam, at, n, h)
  BY <1>4 DEF After, OneMore
<1> QED BY <1>5

LEMMA SpotsAreGone ==
    ASSUME NEW m, Image(m), NEW diam \in Nat
    PROVE  SpotsGone(m, diam, AllDespecked(m.p, m.buf, diam))
<1> DEFINE p == m.p
           buf == m.buf
           at == WindowsOf(p, diam)
           n == Len(at)
           after == CHOOSE h : After(p, buf, diam, at, n, h)
<1>1. p \in ParameterSet /\ Buffer(p, buf)
  BY DEF Image, Buffer
<1>2. n \in Nat /\ \A i \in 1 .. n : Inside(p, at[i], diam)
  BY <1>1, WindowsAre
<1>3. AllDespecked(p, buf, diam) = after[n]
  BY DEF AllDespecked, After
<1>4. After(p, buf, diam, at, n, after)
  <2> HIDE DEF at, n, p, buf
  <2> QED BY <1>2, ThereIsAfter
<1> HIDE DEF after, at, n
<1>5. after[0] = buf
  <2>1. 0 \in 0 .. n
    BY <1>2
  <2> QED BY <2>1, <1>4 DEF After
<1>6. ASSUME NEW i \in 1 .. n PROVE after[i] = Despecked(p, after[i - 1], at[i], diam)
  <2> DEFINE outcome == {Despecked(p, before, at[i], diam) : before \in {after[i - 1]}}
  <2>1. after[i] = CHOOSE b \in outcome : TRUE
    <3>1. i \in 0 .. n /\ i # 0
      BY <1>2
    <3> QED BY <3>1, <1>4 DEF After
  <2>2. outcome = {Despecked(p, after[i - 1], at[i], diam)}
    OBVIOUS
  <2> HIDE DEF outcome
  <2> QED BY <2>1, <2>2
<1> DEFINE S == {i \in 0 .. n : SpotsGone(m, diam, after[i])}
<1>7. 0 \in S
  <2>1. SpotsGone(m, diam, buf)
    <3>1. \A q \in Black(m) : Pixel(m.p, buf, q) # 0
      BY DEF Black
    <3> QED BY <3>1, <1>1 DEF SpotsGone
  <2> HIDE DEF buf
  <2> QED BY <2>1, <1>2, <1>5
<1>8. ASSUME NEW i \in 0 .. n - 1, i \in S PROVE i + 1 \in S
  <2>1. i + 1 \in 1 .. n /\ (i + 1) - 1 = i /\ i + 1 \in 0 .. n
    BY <1>2
  <2>2. after[i + 1] = Despecked(p, after[i], at[i + 1], diam)
    <3>1. after[i + 1] = Despecked(p, after[(i + 1) - 1], at[i + 1], diam)
      BY <2>1, <1>6
    <3> QED BY <3>1, <2>1
  <2>3. SpotsGone(m, diam, after[i]) /\ Inside(p, at[i + 1], diam)
    BY <2>1, <1>2, <1>8
  <2>4. SpotsGone(m, diam, Despecked(p, after[i], at[i + 1], diam))
    BY <2>3, WindowKeeps
  <2> QED BY <2>1, <2>2, <2>4
<1> HIDE DEF S
<1>9. n \in S
  <2>1. 0 .. n \subseteq S
    BY <1>2, <1>7, <1>8, Upwards
  <2> QED BY <2>1, <1>2
<1> QED BY <1>3, <1>9 DEF S

-----------------------------------------------------------------------------
(* The invariant.  Until the crop the parameters and the length of the     *)
(* buffer are those of the image, and until the despeck every sample is.   *)

MagicInv ==
    /\ image \in Images /\ edges \in EdgeSet /\ done \subseteq {"edges", "crop"}
    /\ "crop" \notin done => params = image.p /\ Buffer(params, buffer)
    /\ "crop" \notin done /\ spot = 0 => buffer = image.buf
    /\ MagicTypeOK /\ MarksKept /\ CropIsInPlace

LEMMA ImagesAre == \A m \in Images : Image(m)
<1> SUFFICES ASSUME NEW m \in Images PROVE Image(m)
  OBVIOUS
<1>1. /\ m.p \in ParameterSet /\ m.p.ppl * Depth(m.p) <= SamplesPerLine(m.p)
      /\ m.buf \in Seq(SamplesOf(m.p)) /\ Len(m.buf) = m.p.lines * SamplesPerLine(m.p)
  BY MagicAssumption
<1> QED BY <1>1 DEF Image, Buffer, IsSeq

LEMMA MagicInitInv == MagicInit => MagicInv
<1> SUFFICES ASSUME MagicInit PROVE MagicInv
  OBVIOUS
<1>1. /\ image \in Images /\ params = image.p /\ buffer = image.buf /\ magicStatus = "good"
      /\ spot = 0 /\ done = {}
  BY DEF MagicInit
<1>2. Buffer(params, buffer)
  BY <1>1, ImagesAre DEF Image
<1>3. MagicTypeOK
  <2>1. Len(buffer) \in Nat /\ Len(buffer) = params.lines * SamplesPerLine(params)
        /\ params.ppl * Depth(params) <= SamplesPerLine(params)
    BY <1>2, SeqLen DEF Buffer
  <2> QED BY <1>1, <2>1 DEF MagicTypeOK
<1>4. edges \in EdgeSet
  BY DEF MagicInit, NoEdges, EdgeSet
<1> QED BY <1>1, <1>2, <1>3, <1>4 DEF MagicInv, MarksKept, CropIsInPlace

LEMMA DespeckKeeps ==
    ASSUME MagicInv, NEW diam \in Diams, Despeck(diam)
    PROVE  MagicInv'
<1>1. /\ done = {} /\ spot = 0 /\ spot' = diam /\ magicStatus' \in {"good", "inval"}
      /\ buffer' = (IF Supported(params) THEN AllDespecked(params, buffer, diam) ELSE buffer)
      /\ image' = image /\ params' = params /\ edges' = edges /\ done' = done
  BY DEF Despeck
<1>2. image \in Images /\ params = image.p /\ Buffer(params, buffer) /\ buffer = image.buf
  BY <1>1 DEF MagicInv
<1>3. diam \in Nat \ {0}
  BY MagicAssumption
<1>4. SpotsGone(image, diam, AllDespecked(image.p, image.buf, diam))
  BY <1>2, <1>3, ImagesAre, SpotsAreGone
<1>5. Buffer(params, buffer')
  BY <1>1, <1>2, <1>4 DEF SpotsGone
<1>6. MagicTypeOK'
  <2>1. Len(buffer') \in Nat /\ Len(buffer') = params.lines * SamplesPerLine(params)
        /\ params.ppl * Depth(params) <= SamplesPerLine(params)
    BY <1>5, SeqLen DEF Buffer
  <2> QED BY <1>1, <2>1 DEF MagicTypeOK
<1>7. MarksKept'
  <2> SUFFICES ASSUME params.format = "lineart"
               PROVE  \A q \in Black(image) : Pixel(params, buffer', q) = 0 => Fits(Mark(Black(image), q), diam)
    BY <1>1 DEF MarksKept
  <2>1. buffer' = AllDespecked(image.p, image.buf, diam)
    BY <1>1, <1>2 DEF Supported
  <2> QED BY <2>1, <1>2, <1>4 DEF SpotsGone
<1>8. CropIsInPlace'
  BY <1>1, <1>3 DEF CropIsInPlace
<1> QED BY <1>1, <1>2, <1>3, <1>5, <1>6, <1>7, <1>8 DEF MagicInv

LEMMA FindEdgesKeeps ==
    ASSUME MagicInv, NEW dpi \in Dpis, "crop" \notin done, FindEdges(dpi)
    PROVE  MagicInv'
<1>1. /\ done' = done \cup {"edges"} /\ image' = image /\ params' = params /\ buffer' = buffer /\ spot' = spot
  BY DEF FindEdges
<1>2. image \in Images /\ params = image.p /\ Buffer(params, buffer) /\ done \subseteq {"edges", "crop"}
  BY DEF MagicInv
<1>3. params \in ParameterSet /\ params.lines \in Nat /\ params.ppl \in Nat
  BY <1>2 DEF Buffer, ParameterSet
<1>4. /\ magicStatus' \in {"good", "no_mem", "unsupported"} /\ edges' \in EdgeSet
      /\ magicStatus' = "good" =>
           /\ 0 <= edges'.top /\ edges'.top <= edges'.bot /\ edges'.bot < params.lines
           /\ 0 <= edges'.left /\ edges'.left <= edges'.right /\ edges'.right < params.ppl
  <2>1. CASE ~Supported(params)
    BY <2>1 DEF FindEdges, MagicInv
  <2>2. CASE Supported(params)
    <3> DEFINE e == EdgesOf(params, buffer, dpi)
    <3>0. edges \in EdgeSet
      BY DEF MagicInv
    <3>1. /\ e \in EdgeSet
          /\ e.top \in 0 .. params.lines /\ e.bot \in -1 .. params.lines - 1
          /\ e.left \in 0 .. params.ppl /\ e.right \in -1 .. params.ppl - 1
      BY <1>3, EdgesAre
    <3>2. IF e.top > e.bot
          THEN magicStatus' = "unsupported" /\ edges' = [edges EXCEPT !.top = e.top, !.bot = e.bot]
          ELSE magicStatus' = (IF e.left > e.right THEN "unsupported" ELSE "good") /\ edges' = e
      BY <2>2 DEF FindEdges
    <3> HIDE DEF e
    <3>3. CASE e.top > e.bot
      <4>1. edges' \in EdgeSet
        BY <3>0, <3>1, <3>2, <3>3 DEF EdgeSet
      <4> QED BY <3>2, <3>3, <4>1
    <3>4. CASE ~(e.top > e.bot)
      BY <1>3, <3>1, <3>2, <3>4
    <3> QED BY <3>3, <3>4
  <2> QED BY <2>1, <2>2
<1>5. MagicTypeOK'
  BY <1>1, <1>2, <1>4 DEF MagicInv, MagicTypeOK
<1>6. MarksKept' /\ CropIsInPlace'
  BY <1>1 DEF MarksKept, CropIsInPlace
<1> QED BY <1>1, <1>2, <1>4, <1>5, <1>6 DEF MagicInv

LEMMA CropKeeps ==
    ASSUME MagicInv, "edges" \in done, magicStatus = "good" \/ ~Supported(params),
           Crop(edges.top, edges.bot, edges.left, edges.right)
    PROVE  MagicInv'
<1> DEFINE part == Cropped(params, edges.left, edges.right)
           count == edges.bot - edges.top
           new == [params EXCEPT !.lines = count, !.ppl = part.ppl, !.bpl = part.bpl]
<1>1. /\ "crop" \notin done /\ done' = done \cup {"crop"} /\ image' = image /\ edges' = edges /\ spot' = spot
      /\ IF ~Supported(params) THEN magicStatus' = "inval" /\ params' = params /\ buffer' = buffer
         ELSE /\ magicStatus' = "good" /\ buffer' = MovedToFront(params, buffer, edges.top, count, part)
              /\ params' = new
  BY DEF Crop
<1>2. /\ image \in Images /\ params = image.p /\ Buffer(params, buffer) /\ done \subseteq {"edges", "crop"}
      /\ (spot = 0 => buffer = image.buf)
  BY <1>1 DEF MagicInv
<1>3. MarksKept'
  BY <1>1 DEF MarksKept
<1>4. CASE ~Supported(params)
  <2>1. magicStatus' = "inval" /\ params' = params /\ buffer' = buffer
    BY <1>1, <1>4
  <2>2. MagicTypeOK'
    BY <1>1, <1>2, <2>1 DEF MagicInv, MagicTypeOK
  <2>3. CropIsInPlace'
    BY <2>1 DEF CropIsInPlace
  <2> QED BY <1>1, <1>2, <1>3, <2>2, <2>3 DEF MagicInv
<1>5. CASE Supported(params)
  <2> DEFINE s == SamplesPerLine(params)
             w == part.samples
             top == edges.top
             bot == edges.bot
             leftEdge == edges.left
             right == edges.right
  <2>1. magicStatus' = "good" /\ buffer' = MovedToFront(params, buffer, top, count, part) /\ params' = new
    BY <1>1, <1>5
  <2>2. /\ 0 <= top /\ top <= bot /\ bot < params.lines
        /\ 0 <= leftEdge /\ leftEdge <= right /\ right < params.ppl
        /\ top \in Int /\ bot \in Int /\ leftEdge \in Int /\ right \in Int
    BY <1>2, <1>5 DEF MagicInv, MagicTypeOK, EdgeSet
  <2>3. /\ params \in ParameterSet /\ params.lines \in Nat /\ params.ppl * Depth(params) <= s
        /\ IsSeq(buffer) /\ Len(buffer) = params.lines * s /\ Len(buffer) \in Nat
    BY <1>2, SeqLen DEF Buffer, ParameterSet
  <2>4. s \in Nat
    BY <2>3 DEF ParameterSet, SamplesPerLine
  <2>5. count \in Nat /\ top \in Nat /\ leftEdge \in Nat /\ right \in Nat /\ top + count + 1 <= params.lines
    BY <2>2, <2>3
  <2>6. /\ part.from \in Nat /\ w \in Nat /\ part.from + w <= s
        /\ new \in ParameterSet /\ new.lines = count /\ new.format = params.format
        /\ SamplesPerLine(new) = w /\ new.ppl * Depth(new) <= SamplesPerLine(new)
    <3>1. PartOfLine(params, part, count, new)
      <4> HIDE DEF count
      <4> QED BY <1>5, <2>2, <2>3, <2>5, CroppedFits
    <3> HIDE DEF count, part, new
    <3> QED BY <3>1 DEF PartOfLine
  <2> HIDE DEF new
  <2>7. CropFits(params, buffer, top, count, part)
    <3>1. (top + count) * s + s <= params.lines * s
      <4> HIDE DEF count, s, top
      <4> QED BY <2>3, <2>4, <2>5, Monotone
    <3>2. (top + count) * s \in Nat
      BY <2>4, <2>5
    <3> DEFINE k == (top + count) * s
               l == params.lines * s
    <3>3. k \in Nat /\ k + s <= l /\ Len(buffer) = l /\ l \in Nat
      BY <2>3, <3>1, <3>2
    <3> HIDE DEF k, l, s
    <3>4. k <= Len(buffer)
      BY <3>3, <2>4
    <3> QED BY <2>3, <2>4, <2>5, <2>6, <3>4 DEF CropFits, k, s
  <2>8. LinesMoved(params, buffer, top, count, part, buffer')
    BY <2>1, <2>7, MovedToFrontIs
  <2>9. MagicTypeOK'
    <3>1. params'.lines = count /\ SamplesPerLine(params') = w /\ params'.ppl * Depth(params') <= w
      BY <2>1, <2>6
    <3>2. Len(buffer') = Len(buffer)
      BY <2>8 DEF LinesMoved
    <3>3. count * w <= Len(buffer)
      <4>1. count * w <= (top + count) * s
        <5> HIDE DEF count, w, s, top
        <5>1. w <= s
          BY <2>4, <2>6
        <5>2. count * w <= count * s
          BY <5>1, <2>4, <2>5, <2>6
        <5>3. (top + count) * s = top * s + count * s /\ top * s \in Nat /\ count * s \in Nat /\ count * w \in Nat
          BY <2>4, <2>5, <2>6
        <5> QED BY <5>2, <5>3
      <4>2. (top + count) * s <= Len(buffer)
        BY <2>7 DEF CropFits
      <4>3. count * w \in Nat /\ (top + count) * s \in Nat
        BY <2>4, <2>5, <2>6
      <4> QED BY <4>1, <4>2, <4>3, <2>3
    <3>4. params'.lines * SamplesPerLine(params') <= Len(buffer')
      BY <3>1, <3>2, <3>3
    <3>5. 0 <= edges.top /\ edges.top <= edges.bot /\ edges.bot < image.p.lines
          /\ 0 <= edges.left /\ edges.left <= edges.right /\ edges.right < image.p.ppl
      BY <1>2, <2>2
    <3>6. params'.ppl * Depth(params') <= SamplesPerLine(params')
      BY <3>1
    <3> QED BY <1>1, <2>1, <3>4, <3>5, <3>6 DEF MagicTypeOK
  <2>10. CropIsInPlace'
    <3> SUFFICES ASSUME spot = 0
                 PROVE  \A y \in 0 .. params'.lines - 1, x \in 0 .. SamplesPerLine(params') - 1 :
                          buffer'[y * SamplesPerLine(params') + x + 1]
                            = image.buf[(top + y) * s + part.from + x + 1]
      BY <1>1, <1>2 DEF CropIsInPlace
    <3>1. params'.lines = count /\ SamplesPerLine(params') = w
      BY <2>1, <2>6
    <3>2. \A y \in 0 .. count - 1, x \in 1 .. w : buffer'[y * w + x] = image.buf[(top + y) * s + part.from + x]
      BY <2>8, <1>2 DEF LinesMoved
    <3> HIDE DEF count, w, s, part, top
    <3>3. ASSUME NEW y \in 0 .. count - 1, NEW x \in 0 .. w - 1
          PROVE  buffer'[y * w + x + 1] = image.buf[(top + y) * s + part.from + x + 1]
      <4> DEFINE a == y * w
                 b == (top + y) * s
      <4>1. a \in Nat /\ b \in Nat /\ x + 1 \in 1 .. w /\ part.from \in Nat
        BY <2>4, <2>5, <2>6
      <4>2. buffer'[a + (x + 1)] = image.buf[b + part.from + (x + 1)]
        BY <4>1, <3>2
      <4> HIDE DEF a, b
      <4>3. a + (x + 1) = a + x + 1 /\ b + part.from + (x + 1) = b + part.from + x + 1
        <5>1. (\A i, k \in Int : i + (k + 1) = i + k + 1) /\ (\A i, j \in Int : i + j \in Int)
          OBVIOUS
        <5>2. x \in Int /\ a \in Int /\ b \in Int /\ part.from \in Int
          BY <4>1
        <5> DEFINE f == part.from
        <5> HIDE DEF f
        <5>3. f \in Int
          BY <5>2 DEF f
        <5>4. a + (x + 1) = a + x + 1 /\ b + f + (x + 1) = b + f + x + 1
          <6>1. a + (x + 1) = a + x + 1 /\ b + f \in Int
            BY <5>1, <5>2, <5>3
          <6>2. b + f + (x + 1) = b + f + x + 1
            BY <5>1, <5>2, <6>1
          <6> QED BY <6>1, <6>2
        <5> QED BY <5>4 DEF f
      <4>4. buffer'[a + x + 1] = image.buf[b + part.from + x + 1]
        BY <4>2, <4>3
      <4> QED BY <4>4 DEF a, b
    <3> QED BY <3>1, <3>3
  <2>11. edges \in EdgeSet
    BY DEF MagicInv
  <2> QED BY <1>1, <1>2, <1>3, <2>9, <2>10, <2>11 DEF MagicInv
<1> QED BY <1>4, <1>5

LEMMA MagicNextInv == MagicInv /\ [MagicNext]_magicVars => MagicInv'
<1> SUFFICES ASSUME MagicInv, [MagicNext]_magicVars PROVE MagicInv'
  OBVIOUS
<1>1. ASSUME NEW diam \in Diams, Despeck(diam) PROVE MagicInv'
  BY <1>1, DespeckKeeps
<1>2. ASSUME NEW dpi \in Dpis, "crop" \notin done, FindEdges(dpi) PROVE MagicInv'
  BY <1>2, FindEdgesKeeps
<1>3. CASE /\ "edges" \in done /\ (magicStatus = "good" \/ ~Supported(params))
           /\ Crop(edges.top, edges.bot, edges.left, edges.right)
  BY <1>3, CropKeeps
<1>4. CASE UNCHANGED magicVars
  BY <1>4 DEF magicVars, MagicInv, MagicTypeOK, MarksKept, CropIsInPlace
<1> QED BY <1>1, <1>2, <1>3, <1>4 DEF MagicNext

\* Of every image, whatever its size and its format, with spots of any diameter:
\* despeck removes nothing of a mark that does not fit in the diameter, whichever
\* windows come first, and a crop to edges that were found keeps exactly the samples
\* between them, in place (sanei_magic_despeck, findEdges, crop).
THEOREM ImagesAreSafe == MagicSpec => []MagicSafe
<1>1. MagicInv => MagicSafe
  BY DEF MagicInv, MagicSafe
<1> QED BY MagicInitInv, MagicNextInv, <1>1, PTL DEF MagicSpec
===============================================================================
