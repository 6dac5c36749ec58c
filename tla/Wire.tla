--------------------------------- MODULE Wire ---------------------------------
(***************************************************************************)
(* The wire of sanei_wire.c: one side calls a procedure (sanei_w_call), the *)
(* other decodes the request and answers (sanei_w_reply), both over a      *)
(* buffer that is flushed and filled as it runs full or empty, with the    *)
(* messages of sanei_net.c in the binary codec (sanei_codec_bin.c).  The   *)
(* ASCII codec (sanei_codec_ascii.c) is in the module AsciiCodec.          *)
(*                                                                         *)
(* A byte is a number below Base and a word two of them, in two's          *)
(* complement; everything else keeps its form.  What is between the sides  *)
(* is a stream: writes and reads take pieces of any length.                *)
(***************************************************************************)
EXTENDS Integers, Sequences, SequencesExt, FiniteSetsExt

CONSTANTS
    Base,           \* values of a byte
    BufSize,        \* buffer.size
    MaxMem,         \* MAX_MEM
    WordValues, StringValues,   \* what messages are made of
    ProcNumbers,    \* per procedure that is called: its number
    Version,        \* version of the protocol
    MaxCalls        \* bound: calls

Procs == DOMAIN ProcNumbers
Bytes == 0 .. Base - 1
MaxWord == (Base * Base) \div 2 - 1
WordRange == (MaxWord + 1 - Base * Base) .. MaxWord

Null == <<-1>>          \* the NULL string
NullPtr == <<>>         \* the pointer to no word

\* The buffer holds a word, and a word the constants of the protocol.  A string ends
\* at the first zero, and has a length that a word can hold.
ASSUME WireAssumption ==
    /\ Base \in Nat /\ Base >= 3 /\ BufSize \in Nat \ {0, 1}
    /\ MaxMem \in Nat /\ MaxCalls \in Nat /\ Version \in Nat
    /\ WordValues \subseteq WordRange
    /\ \A s \in StringValues : s # Null => s \in Seq(1 .. Base - 1) /\ Len(s) < MaxWord
    /\ \A p \in Procs : ProcNumbers[p] \in 0 .. MaxWord
    /\ \A p, q \in Procs : ProcNumbers[p] = ProcNumbers[q] => p = q

Sides == {"client", "server"}
Peer(s) == IF s = "client" THEN "server" ELSE "client"

SetAuto == 2            \* SANE_ACTION_SET_AUTO
TypeInt == 1
TypeString == 3

VARIABLES
    wire,           \* per side: direction, status, allocated_memory, and buf: what
                    \* the buffer holds, not sent or not read yet
    chan,           \* per side: the bytes on their way to it
    todo,           \* per side: what is still to encode or to decode of the message
    got,            \* per side: the values decoded of it
    sent,           \* per side: the values of the message it has sent last
    broken,         \* a write or a read has failed
    calls

wireVars == <<wire, chan, todo, got, sent, broken, calls>>

NewWire == [dir |-> "encode", status |-> 0, alloc |-> 0, buf |-> <<>>]

\* sanei_w_init on both sides; the server waits for a request.
WireInit ==
    /\ wire = [s \in Sides |-> IF s = "client" THEN NewWire ELSE [NewWire EXCEPT !.dir = "decode"]]
    /\ chan = [s \in Sides |-> <<>>] /\ todo = [s \in Sides |-> <<>>]
    /\ got = [s \in Sides |-> <<>>] /\ sent = [s \in Sides |-> <<>>]
    /\ broken = FALSE /\ calls = 0

-----------------------------------------------------------------------------
(* Messages: a sequence of values, each [t |-> type, v |-> value].         *)

Word(w) == [t |-> "word", v |-> <<w>>]
String(s) == [t |-> "string", v |-> s]
Words(ws) == [t |-> "words", v |-> ws]          \* sanei_w_array of words
Chars(s) == [t |-> "chars", v |-> s]            \* sanei_w_array of characters
Ptr(w) == [t |-> "ptr", v |-> w]                \* sanei_w_ptr to a word

\* w_option_value; a string value is never NULL.
Text(s) == IF s = Null THEN <<>> ELSE s
OptionValue(type, w, s) == IF type = TypeInt THEN Words(<<w>>) ELSE Chars(Text(s))

\* The requests.  Up to version 2 the value is sent with SET_AUTO too.
Request(p, w, s) ==
    CASE p = "init" -> <<Word(w), String(s)>>
      [] p = "control" ->
           <<Word(w), Word(0), Word(1), Word(TypeString), Word(Len(Text(s))), OptionValue(TypeString, w, s)>>
      [] p = "auto" ->
           <<Word(w), Word(0), Word(SetAuto)>>
           \o IF Version < 3 THEN <<Word(TypeInt), Word(1), OptionValue(TypeInt, w, s)>> ELSE <<>>
      [] p = "authorize" -> <<String(s), String(s), String(Null)>>
      [] OTHER -> <<Word(w)>>

Reply(p, w, s) ==
    CASE p = "init" -> <<Word(0), Word(w)>>
      [] p = "control" ->
           <<Word(0), Word(w), Word(TypeInt), Word(1), OptionValue(TypeInt, w, s), String(s)>>
      [] p = "auto" -> <<Word(w), Word(0), Word(TypeInt), Word(0), Words(<<>>), String(Null)>>
      [] p = "authorize" -> <<Word(0)>>
      [] p = "open" -> <<Word(0), Word(w), String(s)>>
      [] p = "parameters" -> <<Word(0), Word(w), Word(1), Word(w), Word(w), Word(w), Word(1)>>
      [] p = "descriptor" -> <<Word(0), String(s), Word(w), Words(<<w, 0>>), Ptr(<<w>>), Ptr(NullPtr)>>
      [] OTHER -> <<Word(0)>>

\* What a side expects: the types; of a control request the rest depends on the
\* action, of a value on its type.
RequestTypes(p) ==
    IF p \in {"control", "auto"} THEN <<"word", "word", "word", "action">>
    ELSE [i \in DOMAIN Request(p, 0, <<>>) |-> Request(p, 0, <<>>)[i].t]

ReplyTypes(p) ==
    IF p \in {"control", "auto"} THEN <<"word", "word", "word", "word", "value", "string">>
    ELSE [i \in DOMAIN Reply(p, 0, <<>>) |-> Reply(p, 0, <<>>)[i].t]

-----------------------------------------------------------------------------
(* Encoding: a message is a sequence of pieces, each stored at once.       *)

\* bin_w_word: big-endian.
BinWord(w) == LET u == w % (Base * Base) IN <<u \div Base, u % Base>>

OfBinWord(b) == LET u == b[1] * Base + b[2]
                IN IF u < (Base * Base) \div 2 THEN u ELSE u - Base * Base

\* sanei_w_array of bytes or of words: the length, then one piece per element.
Pieces(f) ==
    CASE f.t = "word" -> <<BinWord(f.v[1])>>
      [] f.t = "words" -> <<BinWord(Len(f.v))>> \o [i \in DOMAIN f.v |-> BinWord(f.v[i])]
      [] f.t = "chars" -> <<BinWord(Len(f.v))>> \o [i \in DOMAIN f.v |-> <<f.v[i]>>]
      [] f.t = "string" -> IF f.v = Null THEN <<BinWord(0)>>
                           ELSE <<BinWord(Len(f.v) + 1)>> \o [i \in 1 .. Len(f.v) + 1 |->
                                   <<IF i <= Len(f.v) THEN f.v[i] ELSE 0>>]
      [] f.t = "ptr" -> IF f.v = NullPtr THEN <<BinWord(1)>> ELSE <<BinWord(0), BinWord(f.v[1])>>

\* What is to be encoded of a message from its k-th value on.
PiecesFrom(m, k) ==
    LET from[i \in 1 .. Len(m) + 1] == IF i > Len(m) THEN <<>> ELSE Pieces(m[i]) \o from[i + 1]
    IN from[k]
PiecesOf(m) == PiecesFrom(m, 1)

\* sanei_w_space for n bytes when encoding: when they do not fit the buffer is
\* written.  A write that fails in between leaves the part that was written in the
\* buffer, as if it were still to be written.
SpaceEncode(s, n) ==
    IF Len(wire[s].buf) + n <= BufSize THEN {[w |-> wire[s], out |-> <<>>]}
    ELSE {[w |-> [wire[s] EXCEPT !.buf = <<>>, !.status = 0], out |-> wire[s].buf]}
         \cup {[w |-> [wire[s] EXCEPT !.status = 1, !.buf = SubSeq(@, 1, k)],
                out |-> SubSeq(wire[s].buf, 1, k)] : k \in 0 .. Len(wire[s].buf) - 1}

Put_NoSpace(s) ==
    /\ wire[s].dir = "encode" /\ wire[s].status = 0 /\ todo[s] # <<>>
    /\ wire' = [wire EXCEPT ![s].buf = @ \o todo[s][1]]
    /\ todo' = [todo EXCEPT ![s] = Tail(@)]
    /\ UNCHANGED <<chan, got, sent, broken, calls>>

\* One piece of the message: space for it, and it is stored.
Put(s) ==
    /\ wire[s].dir = "encode" /\ wire[s].status = 0 /\ todo[s] # <<>>
    /\ \E r \in SpaceEncode(s, Len(todo[s][1])) :
         /\ wire' = [wire EXCEPT ![s] =
                       IF r.w.status # 0 THEN r.w ELSE [r.w EXCEPT !.buf = @ \o todo[s][1]]]
         /\ chan' = [chan EXCEPT ![Peer(s)] = @ \o r.out]
         /\ todo' = [todo EXCEPT ![s] = IF r.w.status # 0 THEN <<>> ELSE Tail(@)]
         /\ broken' = (broken \/ r.w.status # 0)
    /\ UNCHANGED <<got, sent, calls>>

\* flush, and sanei_w_set_dir(dir): what is encoded goes out, what is not decoded
\* is dropped.
SetDir(s, dir, next) ==
    /\ \E r \in IF wire[s].dir = "encode" THEN SpaceEncode(s, BufSize + 1)
                ELSE {[w |-> [wire[s] EXCEPT !.buf = <<>>, !.status = 0], out |-> <<>>]} :
         /\ chan' = [chan EXCEPT ![Peer(s)] = @ \o r.out]
         /\ broken' = (broken \/ r.w.status # 0)
         /\ wire' = [wire EXCEPT ![s] = [r.w EXCEPT !.dir = dir,
                                           !.buf = IF dir = "decode" THEN <<>> ELSE @]]
         /\ todo' = [todo EXCEPT ![s] = IF r.w.status # 0 THEN <<>> ELSE next]

-----------------------------------------------------------------------------
(* Decoding.                                                               *)

\* sanei_w_space for n bytes when decoding: reads until they are there, as much as
\* comes and fits in the buffer.  How many more bytes the buffer may get.
SpaceDecode(s, n) ==
    IF Len(wire[s].buf) >= n THEN {0}
    ELSE (n - Len(wire[s].buf)) .. Min({Len(chan[s]), BufSize - Len(wire[s].buf)})

\* An operation: a type, then n elements of an array that are still to come (-1:
\* its length), and those there are.
Op(t) == [t |-> t, n |-> -1, acc |-> <<>>]
Ops(types) == [i \in DOMAIN types |-> Op(types[i])]
Elements(t, n) == [t |-> t, n |-> n, acc |-> <<>>]

Plain == {"word", "words", "string", "chars", "ptr"}

\* What the word at the head of a value leaves to do, and what it allocates.
Decoded(t, w) ==
    CASE t = "word" -> [v |-> <<Word(w)>>, ops |-> <<>>, mem |-> 0]
      [] t = "words" -> [v |-> <<>>, ops |-> <<Elements(t, w)>>, mem |-> 2 * w]
      [] t \in {"string", "chars"} -> [v |-> <<>>, ops |-> <<Elements(t, w)>>, mem |-> w]
      [] t = "ptr" -> IF w # 0 THEN [v |-> <<Ptr(NullPtr)>>, ops |-> <<>>, mem |-> 0]
                      ELSE [v |-> <<>>, ops |-> <<Elements(t, 1)>>, mem |-> 2]

\* An array or a value that is complete.  bin_w_string: the last character
\* becomes the end of the string; no characters at all are NULL.
Complete(op) ==
    CASE op.t = "words" -> Words(op.acc)
      [] op.t = "chars" -> Chars(op.acc)
      [] op.t = "ptr" -> Ptr(op.acc)
      [] OTHER -> String(IF op.acc = <<>> THEN Null ELSE SubSeq(op.acc, 1, Len(op.acc) - 1))

BytesOf(op) == IF op.t \in {"words", "ptr"} THEN 2 ELSE 1
WithElement(op, b) ==
    [op EXCEPT !.n = @ - 1, !.acc = Append(@, IF BytesOf(op) = 2 THEN OfBinWord(b) ELSE b[1])]

Took_DropsRest(s, k, n) == IF k > 0 THEN <<>> ELSE SubSeq(wire[s].buf, n + 1, Len(wire[s].buf))

\* The buffer after sanei_w_space read k bytes and n were taken.
Took(s, k, n) == SubSeq(wire[s].buf \o SubSeq(chan[s], 1, k), n + 1, Len(wire[s].buf) + k)
First(s, k, n) == SubSeq(wire[s].buf \o SubSeq(chan[s], 1, k), 1, n)

Decoding(s) == wire[s].dir = "decode" /\ wire[s].status = 0 /\ todo[s] # <<>>

\* The head of a value: a word, or the length of an array, for which sanei_w_array
\* checks the sum of what is allocated; sanei_w_ptr does not.
Get(s) ==
    /\ Decoding(s) /\ todo[s][1].t \in Plain /\ todo[s][1].n = -1
    /\ \E k \in SpaceDecode(s, 2) :
         LET t == todo[s][1].t
             w == OfBinWord(First(s, k, 2))
             d == Decoded(t, w)
             full == t \notin {"word", "ptr"} /\ w # 0 /\ (w < 0 \/ wire[s].alloc + d.mem > MaxMem)
         IN /\ chan' = [chan EXCEPT ![s] = SubSeq(@, k + 1, Len(@))]
            /\ wire' = [wire EXCEPT ![s].buf = Took(s, k, 2),
                          ![s].alloc = IF full THEN @ ELSE @ + d.mem,
                          ![s].status = IF full THEN 1 ELSE @]
            /\ todo' = [todo EXCEPT ![s] = IF full THEN <<>> ELSE d.ops \o Tail(@)]
            /\ got' = [got EXCEPT ![s] = @ \o d.v]
            /\ broken' = (broken \/ full)
    /\ UNCHANGED <<sent, calls>>

\* An element of an array.
GetElement(s) ==
    /\ Decoding(s) /\ todo[s][1].n > 0
    /\ LET op == todo[s][1]
           m == BytesOf(op)
       IN \E k \in SpaceDecode(s, m) :
            /\ chan' = [chan EXCEPT ![s] = SubSeq(@, k + 1, Len(@))]
            /\ wire' = [wire EXCEPT ![s].buf = Took(s, k, m)]
            /\ todo' = [todo EXCEPT ![s] = <<WithElement(op, First(s, k, m))>> \o Tail(@)]
    /\ UNCHANGED <<got, sent, broken, calls>>

GetEnd(s) ==
    /\ Decoding(s) /\ todo[s][1].n = 0
    /\ got' = [got EXCEPT ![s] = Append(@, Complete(todo[s][1]))]
    /\ todo' = [todo EXCEPT ![s] = Tail(@)]
    /\ UNCHANGED <<wire, chan, sent, broken, calls>>

LastWord(s) == got[s][Len(got[s])].v[1]

Dispatch_NoValue(s) ==
    /\ Decoding(s) /\ todo[s][1].t \in {"action", "value"}
    /\ todo' = [todo EXCEPT ![s] =
          Ops(IF todo[s][1].t = "action" THEN <<>>
              ELSE IF got[s][Len(got[s]) - 1].v[1] = TypeString THEN <<"chars">> ELSE <<"words">>)
          \o Tail(@)]
    /\ UNCHANGED <<wire, chan, got, sent, broken, calls>>

\* sanei_w_control_option_req, w_option_value: what comes next depends on the
\* values so far.
Dispatch(s) ==
    /\ Decoding(s) /\ todo[s][1].t \in {"action", "value"}
    /\ LET next ==
             IF todo[s][1].t = "action"
             THEN IF Version < 3 \/ LastWord(s) # SetAuto THEN <<"word", "word", "value">> ELSE <<>>
             ELSE IF got[s][Len(got[s]) - 1].v[1] = TypeString THEN <<"chars">> ELSE <<"words">>
       IN todo' = [todo EXCEPT ![s] = Ops(next) \o Tail(@)]
    /\ UNCHANGED <<wire, chan, got, sent, broken, calls>>

\* The connection fails while a side waits for more.
ReadFails(s) ==
    /\ Decoding(s) /\ todo[s][1].n # 0 /\ chan[s] = <<>>
    /\ calls > 0 /\ ~broken
    /\ wire' = [wire EXCEPT ![s].status = 1] /\ todo' = [todo EXCEPT ![s] = <<>>]
    /\ broken' = TRUE
    /\ UNCHANGED <<chan, got, sent, calls>>

-----------------------------------------------------------------------------
(* Calls.  The procedure is a word of its own: its number.                 *)

ProcOf(n) == CHOOSE p \in Procs : ProcNumbers[p] = n

Idle(s) == todo[s] = <<>>

StrLen(v) == Min({Len(v)} \cup {i - 1 : i \in {j \in DOMAIN v : v[j] = 0}})

FreedBy_NoEnd(f) ==
    CASE f.t = "words" -> 2 * Len(f.v)
      [] f.t = "chars" -> Len(f.v)
      [] f.t = "string" -> IF f.v = Null THEN 0 ELSE StrLen(f.v)
      [] f.t = "ptr" -> IF f.v = NullPtr THEN 0 ELSE 2
      [] OTHER -> 0

\* What sanei_w_free takes off allocated_memory for a value.
FreedBy(f) ==
    CASE f.t = "words" -> 2 * Len(f.v)
      [] f.t = "chars" -> Len(f.v)
      [] f.t = "string" -> IF f.v = Null THEN 0 ELSE StrLen(f.v) + 1
      [] f.t = "ptr" -> IF f.v = NullPtr THEN 0 ELSE 2
      [] OTHER -> 0

Freed(m) ==
    LET upTo[i \in 0 .. Len(m)] == IF i = 0 THEN 0 ELSE upTo[i - 1] + FreedBy(m[i])
    IN upTo[Len(m)]

\* sanei_w_call, first half: the status is forgotten, the direction set - which
\* sends again what a write that failed has left - and the request is encoded.
Call(p, w, v) ==
    /\ Idle("client") /\ sent["client"] = <<>> /\ calls < MaxCalls
    /\ calls' = calls + 1
    /\ LET m == <<Word(ProcNumbers[p])>> \o Request(p, w, v) IN
         /\ sent' = [sent EXCEPT !["client"] = m]
         /\ SetDir("client", "encode", PiecesOf(m))
    /\ UNCHANGED got

\* Second half: the reply is received.
AwaitReply ==
    /\ Idle("client") /\ wire["client"].dir = "encode" /\ wire["client"].status = 0
    /\ sent["client"] # <<>>
    /\ SetDir("client", "decode", Ops(ReplyTypes(ProcOf(sent["client"][1].v[1]))))
    /\ UNCHANGED <<got, sent, calls>>

\* The call returns, and the reply is freed (sanei_w_free).  An array that was cut
\* off is not counted here.
CallEnds ==
    /\ Idle("client") /\ sent["client"] # <<>>
    /\ wire["client"].dir = "decode" \/ wire["client"].status # 0
    /\ wire' = [wire EXCEPT !["client"].alloc = @ - Freed(got["client"])]
    /\ sent' = [sent EXCEPT !["client"] = <<>>] /\ got' = [got EXCEPT !["client"] = <<>>]
    /\ UNCHANGED <<chan, todo, broken, calls>>

\* The server (external) waits for a procedure, then for its arguments.
Await ==
    /\ Idle("server") /\ wire["server"].dir = "decode" /\ wire["server"].status = 0
    /\ Len(got["server"]) <= 1
    /\ got["server"] # <<>> => LastWord("server") \in {ProcNumbers[p] : p \in Procs}
    /\ todo' = [todo EXCEPT !["server"] =
                  Ops(IF got["server"] = <<>> THEN <<"word">>
                      ELSE RequestTypes(ProcOf(got["server"][1].v[1])))]
    /\ UNCHANGED <<wire, chan, got, sent, broken, calls>>

\* sanei_w_reply(reply), after which the arguments are freed.
SendReply(w, v) ==
    /\ Idle("server") /\ wire["server"].dir = "decode" /\ wire["server"].status = 0
    /\ Len(got["server"]) > 1
    /\ LET m == Reply(ProcOf(got["server"][1].v[1]), w, v) IN
         /\ sent' = [sent EXCEPT !["server"] = m]
         /\ todo' = [todo EXCEPT !["server"] = PiecesOf(m)]
    /\ wire' = [wire EXCEPT !["server"].dir = "encode", !["server"].buf = <<>>,
                  !["server"].alloc = @ - Freed(got["server"])]
    /\ got' = [got EXCEPT !["server"] = <<>>]
    /\ UNCHANGED <<chan, broken, calls>>

\* The reply is flushed, and the server turns to the next request.
ReplyFlushed ==
    /\ Idle("server") /\ wire["server"].dir = "encode" /\ wire["server"].status = 0
    /\ SetDir("server", "decode", <<>>)
    /\ UNCHANGED <<got, sent, calls>>

WireNext ==
    \/ \E p \in Procs, w \in WordValues, v \in StringValues : Call(p, w, v)
    \/ AwaitReply \/ CallEnds \/ Await
    \/ \E w \in WordValues, v \in StringValues : SendReply(w, v)
    \/ ReplyFlushed
    \/ \E s \in Sides : Put(s) \/ Get(s) \/ GetElement(s) \/ GetEnd(s) \/ Dispatch(s) \/ ReadFails(s)

WireSpec == WireInit /\ [][WireNext]_wireVars

-----------------------------------------------------------------------------
(* Properties.                                                             *)

WireTypeOK ==
    \A s \in Sides :
      /\ wire[s].dir \in {"encode", "decode"} /\ wire[s].status \in {0, 1}
      /\ wire[s].alloc \in Nat /\ Len(wire[s].buf) <= BufSize
      /\ \A i \in DOMAIN wire[s].buf : wire[s].buf[i] \in 0 .. Base - 1
      /\ \A i \in DOMAIN chan[s] : chan[s][i] \in 0 .. Base - 1

\* As long as nothing has failed, a side decodes what the other one has encoded -
\* however the stream was cut into writes, reads and buffers, and with a buffer
\* that was dropped at every turn (sanei_w_space, sanei_w_set_dir).
DecodesWhatWasSent ==
    ~broken => \A s \in Sides : IsPrefix(got[s], sent[Peer(s)]) \/ sent[Peer(s)] = <<>>

\* No byte of a message is lost at a turn: when the client waits for the reply
\* and nothing has failed, the whole request is in the stream or decoded.
NothingLost ==
    ~broken /\ wire["client"].dir = "decode" /\ Idle("server")
    /\ wire["server"].dir = "decode" /\ Len(got["server"]) > 1
      => got["server"] = sent["client"]

\* What was allocated for a message is taken off again when it is freed: between
\* calls nothing is counted, so that the limit of one message (MAX_MEM) is the
\* same for the last call as for the first.
MemoryBalanced ==
    ~broken =>
      /\ sent["client"] = <<>> => wire["client"].alloc = 0
      /\ got["server"] = <<>> /\ Idle("server") => wire["server"].alloc = 0

\* Two ends of a connection stay together through every turn, cut and failed
\* allocation: the bytes, the values and the memory that is counted.
WireSafe == WireTypeOK /\ DecodesWhatWasSent /\ NothingLost /\ MemoryBalanced
=============================================================================
