-------------------------------- MODULE MCData --------------------------------
(***************************************************************************)
(* The data structures and the conversions, side by side in one run: a     *)
(* behaviour is one of one part, and the variables of the others stay as   *)
(* they began.  The constants of each part are listed before the parts.    *)
(***************************************************************************)
EXTENDS Containers, Values, OutputFiles, Wire, AsciiCodec, Magic, ConstrainValue, SaneiConfig

\* Values: a value that fits in the static buffer of a property and one that does not.
MCPropValues == {<<1>>, <<1, 2>>}

\* OutputFiles: paths that fit, that just fit and that do not.
MCSize == [p \in Dirs \cup Names \cup Exts |->
             CASE p = "d1" -> 1 [] p = "d3" -> 3 [] p = "n2" -> 2 [] p = "n3" -> 3 [] OTHER -> 1]

\* Wire.
MCWordValues == {-1}
MCStringValues == {<<1, 2>>, Null}
MCProcNumbers == [init |-> 0, descriptor |-> 4, control |-> 5, auto |-> 6]

\* AsciiCodec: the numbers at the borders, and the characters that are escaped.
MCAsciiItems ==
    {[t |-> "word", v |-> <<n>>] : n \in {-128, -127, -1, 0, 9, 10, 127}}
    \cup {[t |-> "byte", v |-> <<n>>] : n \in {0, 26, 161}}
    \cup {[t |-> "char", v |-> <<c>>] : c \in {Apostrophe, Escape, 97}}
    \cup {[t |-> "string", v |-> s] : s \in {NullText, <<>>, <<Quote, Escape>>, <<Escape, NL, 97>>}}

-----------------------------------------------------------------------------
(* Magic: images, as params (format, pixels and samples per line, lines),  *)
(* the medium that lies in them, and the spots on it or beside it.         *)
MCEdges(t, b, l, r) == [top |-> t, bot |-> b, left |-> l, right |-> r]
MCParams(f, ppl, bpl, h) == [format |-> f, ppl |-> ppl, bpl |-> bpl, lines |-> h]
MCPicture(p, m, bg, fg, spots, dirt) ==
    [p |-> p, medium |-> m, dirt |-> dirt,
     buf |-> [j \in 1 .. p.lines * SamplesPerLine(p) |->
                LET y == (j - 1) \div SamplesPerLine(p)
                    x == ((j - 1) % SamplesPerLine(p)) \div Depth(p)
                    on == m # NoEdges /\ y \in m.top .. m.bot /\ x \in m.left .. m.right
                IN IF on # (<<y, x>> \in spots) THEN fg ELSE bg]]
MCMedia(p, fg) ==
    {MCPicture(p, MCEdges(t, 14, l, r), bg, 255 - bg, s, s # {}) :
       t \in {4, 5}, l \in {1, 3}, r \in {10, 12}, bg \in {0, 255}, s \in {{}, {<<2, 6>>}}}
MCImages ==
    {MCPicture(MCParams("lineart", 8, 1, 6), NoEdges, 0, 1, s, FALSE) :
       s \in {d \in SUBSET ((1 .. 4) \X (2 .. 5)) : Cardinality(d) \in {1, 2, 3}}}
    \cup {MCPicture(MCParams("lineart", 16, 2, 16), MCEdges(t, b, l, r), 0, 1, s, s = {<<2, 5>>}) :
            t \in {4, 5}, b \in {13, 14}, l \in {1, 3}, r \in {11, 14}, s \in {{}, {<<2, 5>>}, {<<7, 7>>}}}
    \cup MCMedia(MCParams("gray", 14, 14, 16), 255)
    \cup {m \in MCMedia(MCParams("rgb", 14, 42, 16), 255) : m.medium.left = 3}
    \cup {MCPicture(MCParams("gray", 14, 16, 14), MCEdges(2, 11, 3, 12), 0, 255, {}, FALSE),
          MCPicture(MCParams("other", 8, 8, 8), NoEdges, 0, 1, {}, FALSE)}
MCIdleImage == MCPicture(MCParams("other", 1, 1, 1), NoEdges, 0, 1, {}, FALSE)

-----------------------------------------------------------------------------
(* ConstrainValue: every kind of constraint, regular ones and odd ones.    *)
MCRange(mn, mx, q, c) == [constraint |-> "range", min |-> mn, max |-> mx, quant |-> q, count |-> c]
MCWords(l) == [constraint |-> "words", list |-> l]
MCStrings(l) == [constraint |-> "strings", list |-> l]
MCBool(c) == [constraint |-> "bool", count |-> c]
MCDescriptors ==
    {MCRange(-2, 4, 2, 2), MCRange(-3, 5, 3, 1), MCRange(0, 6, 3, 1), MCRange(-8, 7, 0, 1),
     MCRange(-8, 7, 5, 1), MCRange(1, 4, 0, 2), MCBool(1), MCBool(2),
     MCWords(<<3>>), MCWords(<<-5, 0, 4>>), MCWords(<<2, -1, 5, 5>>), MCWords(<<-8, 7>>),
     MCStrings(<< <<-1>>, <<-1, 2>>, <<-1, 2, 1>>, <<-2, 1>> >>),
     MCStrings(<< <<-1, 2>>, <<1, 2>>, <<2>> >>), MCStrings(<< <<1, 2>> >>),
     MCStrings(<< <<1, 2, 1>>, <<1, 2, 2>> >>)}
MCWordInputs == -8 .. 7
MCLetters == {-2, -1, 1, 2}

-----------------------------------------------------------------------------
(* SaneiConfig.                                                            *)
MCText(o, t, a) == [kind |-> "text", option |-> o, token |-> t, args |-> a]
MCConfigLines ==
    {[kind |-> "comment", option |-> FALSE, token |-> "", args |-> <<>>],
     MCText(FALSE, "dev1", <<>>), MCText(TRUE, "dev2", <<<<"1">>>>), MCText(FALSE, Unquoted, <<>>),
     MCText(TRUE, "n", <<<<"1">>, <<"0">>>>), MCText(FALSE, "n", <<<<"1">>, <<"3">>>>),
     MCText(TRUE, "n", <<<<"1">>, Unclosed>>), MCText(TRUE, "w", <<<<"1">>, <<"3">>>>),
     MCText(TRUE, "b", <<<<"true">>, <<"0">>>>), MCText(TRUE, "b", <<<<"1">>>>),
     MCText(TRUE, "s", <<<<"r", "e", "d">>>>), MCText(TRUE, "s", <<<<"x">>>>),
     MCText(TRUE, "u", <<<<"r", "e">>>>), MCText(TRUE, "u", <<<<"b">>>>), MCText(TRUE, "p", <<>>)}
MCOptionTypes == [n |-> "int", w |-> "int", b |-> "bool", s |-> "string", u |-> "string", p |-> "button"]
MCOptionSizes == [n |-> 2, w |-> 2, b |-> 2, s |-> 3, u |-> 2, p |-> 1]
MCOptionChecks == [n |-> "each", w |-> "first", b |-> "each", s |-> "text", u |-> "none", p |-> "none"]
MCLegalValues == [n |-> {"0", "1"}, w |-> {"1"}, b |-> {"true", "false"}, s |-> {<<"r", "e">>, <<"b">>},
                  u |-> {}, p |-> {}]
MCConfigDefaults == [n |-> <<"2", "2">>, w |-> <<"0", "0">>, b |-> <<"false", "false">>, s |-> <<"b", NUL, NUL>>,
                     u |-> <<NUL, "junk">>, p |-> <<"unset">>]
MCEnvPaths ==
    {[unset |-> TRUE, dirs |-> <<"etc">>, more |-> FALSE],
     [unset |-> FALSE, dirs |-> <<"home", "etc">>, more |-> TRUE],
     [unset |-> FALSE, dirs |-> <<"home">>, more |-> FALSE]}
MCDefaultDirs == <<"dot", "etc">>
MCScsiDevices == {<<v, "m", "t", b, "0", i, "0">> : v \in {"v", "w"}, b \in {"0", "1"}, i \in {"0", "1"}}
MCScsiWords ==
    {SubSeq(<<v, "m", Wildcard, b, c, i, "0">>, 1, n) :
       v \in {"v", "*", Unquoted}, b \in {"1", "*", "x"}, c \in {"0", "y"}, i \in {"1", "*"}, n \in {1, 5, 7}}

-----------------------------------------------------------------------------
(* The parts.                                                              *)
VARIABLE part

dataVars == <<containerVars, valuesVars, outputVars, wireVars, asciiVars>>
sharedVars == <<magicVars, constrainVars, configVars, matchVars>>
mcVars == <<part, dataVars, sharedVars>>

MCInit ==
    /\ ContainersInit /\ ValuesInit /\ OutputInit /\ WireInit /\ AsciiInit /\ MatchInit
    /\ part \in {"list", "chain", "storage", "properties", "path", "writer", "wire", "ascii",
                 "magic", "constrain", "config", "match"}
    /\ IF part = "magic" THEN MagicInit
       ELSE /\ image = MCIdleImage /\ params = image.p /\ buffer = image.buf
            /\ edges = NoEdges /\ magicStatus = "good" /\ spot = 0 /\ done = {}
    /\ IF part = "constrain" THEN ConstrainInit
       ELSE option = MCBool(1) /\ value = <<0>> /\ inexact = FALSE /\ verdict = "none"
    /\ ConfigInit /\ (part = "config" \/ configIn = {})

DataRest == UNCHANGED <<part, sharedVars>>
SharedRest == UNCHANGED <<part, dataVars>>

ListPart == part = "list" /\ ListNext /\ DataRest
            /\ UNCHANGED <<valuesVars, outputVars, wireVars, asciiVars>>
ChainPart == part = "chain" /\ ChainNext /\ DataRest
             /\ UNCHANGED <<valuesVars, outputVars, wireVars, asciiVars>>
StoragePart == part = "storage" /\ StorageNext /\ DataRest
               /\ UNCHANGED <<containerVars, outputVars, wireVars, asciiVars>>
PropertiesPart == part = "properties" /\ PropertyNext /\ DataRest
                  /\ UNCHANGED <<containerVars, outputVars, wireVars, asciiVars>>
PathPart == part = "path" /\ PathNext /\ DataRest
            /\ UNCHANGED <<containerVars, valuesVars, wireVars, asciiVars>>
WriterPart == part = "writer" /\ WriterNext /\ DataRest
              /\ UNCHANGED <<containerVars, valuesVars, wireVars, asciiVars>>
WirePart == part = "wire" /\ WireNext /\ DataRest
            /\ UNCHANGED <<containerVars, valuesVars, outputVars, asciiVars>>
AsciiPart == part = "ascii" /\ AsciiNext /\ DataRest
             /\ UNCHANGED <<containerVars, valuesVars, outputVars, wireVars>>
MagicPart == part = "magic" /\ MagicNext /\ SharedRest /\ UNCHANGED <<constrainVars, configVars, matchVars>>
ConstrainPart == part = "constrain" /\ ConstrainNext /\ SharedRest
                 /\ UNCHANGED <<magicVars, configVars, matchVars>>
ConfigPart == part = "config" /\ ConfigNext /\ SharedRest /\ UNCHANGED <<magicVars, constrainVars, matchVars>>
MatchPart == part = "match" /\ AttachMatching /\ SharedRest
             /\ UNCHANGED <<magicVars, constrainVars, configVars>>

MCNext ==
    \/ ListPart \/ ChainPart \/ StoragePart \/ PropertiesPart \/ PathPart \/ WriterPart
    \/ WirePart \/ AsciiPart \/ MagicPart \/ ConstrainPart \/ ConfigPart \/ MatchPart

MCSpec == MCInit /\ [][MCNext]_mcVars
=============================================================================
