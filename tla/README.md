# A verification project for sane-backend-oki

TLA+ models, model checks and machine-checked proofs of the control logic of the
OKI SANE backend: what happens between a SANE frontend, the backend
(`src/backend`), the driver library (`src/driver`) and the scan daemon at the
other end of the Unix socket `SCAND_UDSOCKNAME`; and of the library that SANE
backends share (`src/sanei`), which the repository carries and builds.

## 1. The system

```
 frontend --- SANE API ---> odc.cpp --> SaneDevice (odc_device.cpp)
                                          | device_ptr
                                          v
                              DeviceBaseImpl (odc_products.cpp), Option objects
                                          | scif
                                          v
 application -- scan() --> scandif (scandifc.cpp) -- scandif_send / scandif_recv
                                          |             (odc_scandif.cpp)
                                          v  Unix stream socket
                                    scan daemon (not in the repository)

 a SANE backend ---> sanei: configuration, option values, lock files, reader
                     tasks, USB, SCSI, parallel ports, the network wire
```

| part | state it keeps | operations | what is hard | what makes it correct |
|---|---|---|---|---|
| SANE entry points, device list (`odc.cpp`, `SaneDevice`) | `inited`, `devlist`, per device `name`, `opened`, `device_ptr` | `sane_init`, `sane_exit`, `sane_open`, `sane_close`, the calls on a handle | handles are raw addresses; `sane_open` and `sane_init` may be called again; `configure` may fail half way | no dangling pointer, no leak, no call through NULL |
| Scan session (`DeviceBaseImpl`) | `use_adf`, `scanning`, `canceled`, the transfer buffer with two counters, `scan_data_size`, `trns_data_size`, the cached parameters | `start`, `read`, `cancel`, `get_parameters` | a scan is a conversation of two processes; `sane_cancel` may come out of a signal handler; the daemon may fail, hang up or be late | the frontend gets every byte of the page once, in order, up to the announced end, or an error |
| Connection (`scandif`) | `sock` | `open`, `close`, `is_open`, `send_message`, `receive_message` | a message arrives in pieces, late, partly or not at all | a message is delivered once; a torn one never passes for another |
| Scan daemon (external) | the job and its current page | answers SCAN, SCANCONTINUE, GETDEVLIST, MODELINFO | any answer, at any time, or none | it is the environment |
| Driver client (`scandif::scan`, `cancel_scan`) | `canceled`, the page loop's locals, the page files | `scan`, `cancel_scan` | pages of an ADF job, left-over messages, write errors, a flag set by another thread | files are complete consecutive pages; a cancel ends the scan; `scan` returns |
| Status codes (`libstatus.h`, `libsts2sanests`) | - | translation | many codes map to one | an error is never GOOD or EOF |
| Options (`Option*`, `control_option`, `configure`, `build_scanreq`) | values, capabilities, `loaded`, the ranges | set, auto, get; the request and the predicted parameters made from them | options that switch others on and off, in any order; nothing checks a value; ranges come from the daemon | the capabilities follow the values, changes are announced, the request is in range, the prediction fits it |
| Transfer of a message (`odc_scandif.cpp`) | none between calls; inside one the retry counter, the offset and the rest | `scandif_send`, `scandif_recv` | the socket cuts a message anywhere; a part of it may be late or never come | a call that may be repeated has taken nothing; whole messages come in order, once |
| Threads (`odc_misc.h`) | `interaction`'s mutex and condition variable, `exclusive_param`'s mutex and value, the thread of a `thread_base` | `give`, `take`, timed `take`, `set`, `get`, `start`, `join` | signals before, between and after waits, spurious wake-ups, timeouts | no take without a give of its time, one owner of a value, every timed wait returns |
| Containers (`ArrayList`, `Chain`) | memory that grows, links | `add`, `ins`, `del`, `clean`; `addnext`, `addprev`, `remove` | growth by hand, deletion at either end | the list is the sequence its calls make, a chain its ring |
| Values (`Storage`, `Properties`) | reference counts, a list that owns its objects | copy, assign, delete; `add`, `find`, `del` | shared memory, two owners of an object | nothing in use is freed, nothing is freed twice |
| Output files (`scan_param_t`, `PNMWriter`) | one buffer with three strings in it; a file | `set_dir`, `set_filename`, `set_path`; `open`, `write`, `close` | each setter cuts the buffer anew | the path is what was asked for, files are whole and closed |
| Network wire (`sanei_wire`, `sanei_net`, codecs) | a buffer at each end, its direction, a count of memory | a call, its reply, values of all kinds, `sanei_w_free` | values that cross the end of the buffer, a turn of the direction | what is decoded was encoded; memory is balanced |
| Image corrections (`sanei_magic`) | the image in its buffer | `despeck`, `findEdges`, `crop` | work in place, borders | marks stay, a crop is what was there, edges are the medium's |
| Configuration (`sanei_config`, `sanei_config2`, `sanei_constrain_value`) | option values, attached devices | reading a file, matching SCSI devices; checking and constraining a value | a refused line half way; clamping and rounding | the file means what it says; the nearest legal value is taken, and told |
| Reader task (`sanei_thread`) | the static `td`, a task or child process, `SIGPIPE` | `begin`, `kill`, `waitpid`, `get_status` | one record for all tasks, exit and kill racing with waits | the status waited for is the one of that task |
| Lock files (`sanei_access`) | a file with a process id | `lock`, `unlock` | owners that die, two processes that remove one stale file | no lock is locked for ever |
| USB (`sanei_usb`) | a table of devices | `init`/scan, `open`, `close`, bulk and interrupt transfers, claims | devices that come and go while a slot is open | one slot for a device, a slot for its owner only |
| SCSI (`sanei_scsi`, Linux) | a queue of requests, a free list, a count | `open`, `req_enter`, `req_wait`, `flush_all`, `close`; finding device files | commands refused, put off or flushed half way | commands run in order, the queue never overflows |
| Parallel ports (`sanei_pa4s2`, `sanei_pp`, `sanei_pio`) | ports in use, claimed, enabled; saved registers, modes | `open`, `enable`, `claim`, `set_mode`, `close`; byte handshakes | failures half way, other users of the port | a port is given back as it was found |
| LM983x registers (`sanei_lm983x`) | none between calls | `write`, `read`, `reset` | short transfers | every byte once, in its register |

Everything the components of the backend share is a socket or a pointer: `SaneDevice`
owns its `DeviceBaseImpl`, that owns a `scandif`, and the two clients of the daemon
(`DeviceBaseImpl` and `scandif::scan`) never share a connection. The parts of `sanei`
share nothing with one another, but for `sanei_lm983x`, which transfers through
`sanei_usb`: there a transfer is an outcome (failed, short, whole). The OKI backend
links `sanei_config`, `sanei_constrain_value` and `sanei_thread` (`backend/Makefile.am:191-194`)
and calls none of them.

The hazards of this code, each at its line and with the properties that watch
it, are listed under "hazards" in `PROJECT.json`.

## 2. Modules

| module | models | extends |
|---|---|---|
| `LibStatus` | `SANE_Status`, the library's codes and `libsts2sanests` | |
| `Scand` | the daemon, the socket between it and a client, the messages | |
| `Scandif` | the client's end: `open`, `close`, `is_open` and how a receive fails | `Scand` |
| `ScanSession` | `DeviceBaseImpl`: `start`, `read`, `cancel`, `get_parameters`, the scan mode option, and the frontend | `Scandif`, `LibStatus` |
| `SaneFrame` | abstract: what a client of the daemon is promised about one image | |
| `ScanClient` | `scandif::scan` and `cancel_scan`, and the application | `Scandif` |
| `Transfer` | `scandif_send` and `scandif_recv` over a byte stream | |
| `MessageStream` | abstract: a stream of whole messages | |
| `SaneApi` | entry points, device list, handles | |
| `Options` | the options of an open device, `configure`, `build_scanreq`, `get_parameters` before a scan | |
| `Threads` | `interaction`, `exclusive_param`, `thread_base` | |
| `Containers`, `Values`, `OutputFiles` | `ArrayList`, `Chain`; `Storage`, `String`, `Property`, `Properties`; `scan_param_t`, `PNMWriter` | |
| `SaneiThread`, `AccessLock` | reader tasks; lock files | |
| `Wire`, `AsciiCodec` | the network wire with the binary codec; the text codec | |
| `Magic`, `SaneiConfig`, `ConstrainValue` | image corrections; configuration files; option values | |
| `SaneiUsb`, `Scsi`, `Pa4s2`, `Pp`, `Pio`, `Lm983x` | the ways to a scanner | |
| `Devices` | the six of them together | they |
| `ScandProofs` | lemmas about the daemon and the connection, for both of its clients | `Scandif` |
| `ScanSessionProofs`, `ScanClientProofs` | theorems about the two clients | the client, `ScandProofs` |
| `FrontendProofs` | theorems about the entry points and the options | `SaneApi`, `Options` |
| `WaitingProofs`, `DevicesProofs` | theorems about the parts of the runs `Waiting` and `Devices` | the parts |
| `DataProofs` | theorems about the driver's data structures, configuration files, option values and image corrections | `Containers`, `Values`, `OutputFiles`, `SaneiConfig`, `ConstrainValue`, `Magic` |
| `WireProofs` | theorem about the wire of the network protocol | `Wire` |
| `MCScanSession`, `MCScanClient`, `MCSaneApi`, `MCOptions`, `MCSaneiThread` | constants and symmetry for TLC | the module they name |
| `MCFrontend`, `MCWaiting`, `MCData`, `MCDevices` | parts that share no state, side by side in one run | the modules of the parts |

`ScanSession` and `ScanClient` both compose with `Scand`: one module of the
daemon, two different programs that talk to it, and both are checked to
implement `SaneFrame`. Both take a message as one item of a queue; `Transfer` shows
that the pieces the socket makes of it implement such a queue, `MessageStream`.

In `MCFrontend`, `MCWaiting`, `MCData` and `MCDevices` the variable `part` chooses at the start which
part a behaviour is about; the variables of the others stay as they began. That
makes one run of many small state spaces instead of their product, and loses nothing,
since these parts neither call each other nor share state.

Definitions named `X_Something` are mutations of `X`: plausible bugs that the
properties are tried against. They are part of no specification. `PROJECT.json` lists
for a property of several parts one for each of them; of those with the same run
and property the last one stands for them all.

### Scand, Scandif

`rx` and `tx` are the two directions of the socket, `peer` says whether the
daemon holds its end open, `dstate`, `image`, `sent` and `adf` are its job. The
daemon is modelled from `scandifdef.h` and from what its two clients expect:
SCAN opens a job and streams its first page as SCANDATA indications,
SCANCONTINUE the next page, ERRORSTATUS refuses a request or ends a page, REJECT
answers a SCANCONTINUE when the feeder is empty. It may hang up at any time; what
it sent before stays readable. With `Trailers` an empty SCANDATA may follow the
last one of a page, which `scandifc.cpp:500` expects and skips.

A message carries what the properties need and the wire does not have: the image
its bytes belong to (`image`) and their position in it (`from`). No guard of the
client looks at them.

`RecvFails` and `RecvInterrupted` are the outcomes of `scandif_recv` other than a
message: an error, a disconnect, a body that did not arrive in
`SCANDIF_RECV_RETRY` pieces, and a header that did not arrive (`NODATA`). After an
incomplete body the rest of the message stays in the stream, where the next call reads
it as a header with a length of its own (`odc_scandif.cpp:129-190`): from `Tear` on the
connection is out of step (`torn`) until it is closed. What a receive then makes of the
bytes may look like any message of `Misread`, and it may swallow any number of the
replies behind it. Nothing puts such a stream into step again. A length that overruns
the memory of the client is undefined behaviour, and is not followed.

The clients remember in `misled` that a call has taken a message from a stream out of
step. Their promises about bytes and pages end there: what they hold are no bytes of
the daemon's image.

### ScanSession

The variables are the fields of `DeviceBaseImpl` under their own names. `pc`,
`req` and `want` stand for the call that is running, `phase` and `frame` for what
the frontend knows: they are the history the properties speak of.

A call is cut where it talks to the socket, because that is where the daemon, and
with `AsyncCancel` a `sane_cancel`, can come in between:

| code | action |
|---|---|
| `start`, entry (643-656) | `StartCall` |
| loop top, no ADF job: `is_open`, `open` (658-667) | `StartConnect` |
| `build_scanreq`, `send_message` (669-674) | `StartSend` |
| `receive_message` and its replies (676-694) | `StartRecv`, `StartReply`; after a response that announces a page, `use_adf` is set in a step of its own (`StartDone`) |
| ADF job: SCANCONTINUE (695-704) | `ContinueSend` |
| its reply; REJECT goes round the loop (706-727) | `ContinueRecv`, `ContinueReply` |
| `read`: closed, buffered data, end, wait, receive (734-794) | `ReadClosed`, `ReadBuffered`, `ReadEof`, `ReadWait`, `ReadRecv` |
| `memcpy` to the frontend and the counters (796-826) | `ReadCopy` |
| `cancel` (842-854) | `Cancel` |
| `control_option` on the mode | `SetMode` |
| `get_parameters` (605-640) | the value `GetParameters` |

`read` looks at the connection before it copies and not again: between `ReadBuffered` or
`ReadRecv` and `ReadCopy` a cancel may close it, and the piece is handed out all the same. With
`AsyncCancel` a cancel may also come between any two steps of `start`; `phase` is then
"aborted", and where the connection had yet to be made, `start` makes it afterwards and
hands out a frame that the frontend has given up.

Two fields are read before anything writes them, `scan_data_size` and `params`:
the model starts the first at any size and the second at `Garbage`.

### ScanClient

`scan()` is cut at its socket calls, at the two places where it looks at the
cancel flag and at the calls of the PNM writer. `files` records for each page
what reached its file: the image announced, the bytes received, whether they came
in order, whether every write succeeded. `late` counts the requests sent and the
messages written since `cancel_scan`. Notifications change no state and are left
out.

### SaneApi

Objects are told apart by their addresses, and addresses are used again after a
`delete`, as a heap does: a stale handle may name a new device. `heap` and
`impls` are the live objects, `handles` what the frontend holds, `took` which
liberties it took so far: to re-open a device that is open, to call `sane_init`
twice without `sane_exit`, to pass a handle it has closed. The entry points
promise different things to frontends that take different liberties, and the
properties say which. `crashed` is a call through a NULL pointer.

`NamesFor` is the one place with undefined behaviour in it: the loop of the
constructor of `SaneDevice` (`odc_device.cpp:1077`) starts at an uninitialised
counter. Compiled without optimisation the counter was found past the end, so that
`s_name` stayed empty; optimised builds copied all of the name or left other
contents. The model takes two of these outcomes: copied, and empty.

### Options

One device from its construction on. `val` holds the values, `settable` the options
with SANE_CAP_SOFT_SELECT, `loaded` those whose descriptor was read, `geometry` the
ranges that `configure` got. `took` notes the liberties of the frontend, as in
`SaneApi`: setting what is not settable ("hard"), SANE_ACTION_SET_AUTO on options
that are not automatic ("auto"), values that the constraint excludes ("value").
`control_option` refuses none of them.

| code | definition |
|---|---|
| constructor (250-327) | `Init` |
| `configure` (336-401): the model's ranges, or the defaults when the answer is lost | `Configure` |
| `get_option_descriptor` | `GetOptionDescriptor` |
| `control_option`, SET_VALUE and the overridden `set_value` methods | `SetValue`, `Switch` |
| `control_option`, SET_AUTO (`OptionBool::set_auto`) | `SetAuto` |
| `build_scanreq` and the `get_...` functions it calls, with the widths of the bit fields | `Request` |
| `get_parameters` when nothing is being scanned (605-640) | `GetParameters` |

Calls that are refused, and SANE_ACTION_GET_VALUE, change nothing and are no
actions. The request and the prediction are functions of the state: `sane_start` and
`sane_get_parameters` may be called in each.

### Transfer

`stream` is what is in the socket, as pairs of a message and a position in it, which the
code cannot see; `sending` what the sender still has to put there.

| code (`odc_scandif.cpp`) | action |
|---|---|
| `scandif_send`: header, body in pieces, a send that stops half way (40-99) | `SendHeader`, `SendPiece`, `SendShort`, `SenderCloses` |
| `scandif_recv`: entry | `RecvCall` |
| header: timeout and retry; a piece, or all of it (128-146) | `RecvHeaderRetry`, `RecvHeader` |
| body: timeout and retry; a piece, or the rest (163-193) | `RecvBodyRetry`, `RecvBody` |
| an error of `recv`, the end of the stream | `RecvFail`, `RecvClosed` |

`spoilt` records that a call gave up inside a message or that a sender stopped inside
one: from there on what is read as a header may be the middle of a body, as in the code.

### Threads

A step of a thread ends at `lock`, at the wait and at `unlock`; `doing` says where it is.
`take()` waits once without looking at a condition, as `odc_misc.h:227` does, so that
`WakeSpuriously` makes it return; `strays` keeps such returns apart. `act_give`,
`pre_take` and `act_take` are virtual and return 0 in the base class; `exclusive_param`'s
tester is the one the class is named for.

### SaneiThread, AccessLock

`tasks[t].runs` is the function that the task has found in the static `td`, `lastStatus`
the static `status`. `forked` is the build: processes, or threads. `application` is the handler
of `SIGPIPE` that the application had, the default, none or one of its own: `sanei_thread_begin`
ignores the signal only when it finds the default (362), and `sanei_thread_waitpid`
brings the default back. Any number of tasks are side by side, up to the bound `MaxAlive`, and
`overlapped` records that the task begun last was begun while another was left: the
threads share `td`, the static status and the handler, so that of such threads less can be
said. `answer` is what the last `waitpid` or `get_status` said, and of a task in which state.

Every system call of `sanei_access_lock` is a step: `OpenLock` (the exclusive creation),
`WriteLock` (its process id), `CheckLock` (open, read, `kill(pid, 0)`), `UnlinkStale`,
`LockTimeout`; `Die` ends a process anywhere. `EmptyFileSays` is what the check of a
file makes of one whose owner has not written yet.

### Containers, Values, OutputFiles

`contents`, `rings`, `latest` and `asked` are what the user of the list, of the chain, of
the properties and of the path may believe; they are compared with `memp`, `_next` and
`_prev`, the list of objects and the buffer. `ins` is three actions: where there is room
(`ListIns`), where the list has to grow (`ListInsGrows`), whose effect on the sequence is written
down as `InsertedGrowing` and is not what was asked for, and at the front (`ListInsFront`), whose
loop leaves the memory: after it the list is not used. `duplicates` records that ALLOW has put a
second object under a name.

The three strings of `scan_param_t` share one buffer, and a setter that overflows leaves it half
rewritten: a text that no call gave is `Cut`, and every setter is modelled on such a buffer too,
where a name of unknown length may fit or not. `told` are the parts of the path that a call which
returned -1 was to write, `untold` those that `set_dir` spoilt while it returned 0, `stray`
that the latest `set_path` was given no directory.

### Wire, AsciiCodec

Both ends of a connection run the same code: `wire[s]` is the `Wire` of a side (its
direction, buffer, status and count of allocated memory), `chan` the bytes on their
way. `Call`, `SendReply` and `Dispatch` are `sanei_w_call`, `sanei_w_reply` and the
switch over the procedure; `Put`, `Get`, `GetElement`, `GetEnd` encode and decode one
value, including `sanei_w_space` when it does not fit; `FreedBy` is the pass with
WIRE_FREE. A byte is a digit of base `Base`, a word two of them, so that a value can
cross the end of a buffer of `BufSize`. `ProcNumbers` names the procedures and gives their
numbers; a pointer is the sequence of the words behind it, the NULL pointer the empty one.
Loops over the elements of a message are recursive functions. `AsciiCodec` has the text, character by
character: what the codec does to characters is its whole content.

### Magic, SaneiConfig, ConstrainValue

The functions of `sanei_magic.c` are operators on a sequence of samples, composed in
the order that backends call them (`despeck`, `findEdges`, `crop`), on the buffer that
the step before has left. The reference definitions are in the properties: connected
marks (`Mark`, the closure of `With`), the samples between the edges, the medium that was
put into the picture. What each loop does to the buffer has a name: `Painted` a window,
`MovedToFront` the lines of a crop. The skew, which is geometry in floating point, is not there.

A configuration line is a record of its words; a word whose closing quote is missing
is `Unquoted`. The words behind the name of an option are sequences of characters, and the
value of an option is the memory that the backend has for it: the elements of an array, which
are parsed one word each (324-388), or the characters of a string with what lies behind its NUL.
`Parsed` is what is copied there: a string that is too long comes cut and without a NUL
(397-403), and what was behind it stays (`CopiedInto`). `Accepted` is `sanei_check_value` of it,
which looks at every element of a range and at the first one of a list of words.
`ConfigureAttach` reads a file of any of these lines, `AttachMatching` is the search for SCSI
devices by a description. `ConstrainValue` works on words of
`ConstraintBits` bits with C's overflow, division towards zero and rounding to `quant`.

### SaneiUsb, Scsi

`devices` is the table, a slot [devname, id, missing, open, live, ep]; `user` what each
backend opened; `robbed` the backends whose slot went to another device or was closed
by another's index. Plugging, failing probes and stalls are the world. `SaneiUsbInit`
is a whole scan: all slots are marked, then `store_device` for what is found, in any
order and up to a failing allocation.

`Scsi` has two parts. The queue: `queue` holds the requests of the handle, `free` counts
the free list, `used` is `sg_queue_used`; `Issue` is the loop that gives the driver as
many commands as it takes, with `Taken`, `TakenLater` and `Refused` its outcomes. The
names: `node` says what each device file leads to, `base` and `devfs` are the static
variables that one search leaves to the next.

### Pa4s2, Pp, Pio, Lm983x

A register only tells whose value it holds ("orig", "ours", "theirs"). `claim` is who has
the port in libieee1284, `stuck` are ports whose closing failed, `unsure` those whose
mode was judged from a value that was never read. `Pio` has the handshake: each strobe,
pulse and byte is a step, with the peripheral in between and the timeout that ends the
process. `Lm983x` cuts `write`, `read` and `reset` at their USB transfers; a transfer
fails, or carries any part of its data.

## 3. Runs

| run | question | result |
|---|---|---|
| `Session` | A frontend that cancels after a failure, as the SANE protocol asks, possibly out of a signal handler: are frames complete (`EofComplete`) and described by `get_parameters` (`ParamsOfFrame`), are left-over image bytes never taken for a reply (`ReplyIsNotData`), does no data follow a cancel (`NoDataAfterCancel`), is `SaneFrame` implemented (`ImplementsFrame`)? Also checks the inductive invariant `FrameInv` of the proofs. | holds |
| `SessionFree` | A frontend that calls anything at any time, and a daemon that sends trailers: is still no byte out of order (`InOrder`), up to a message taken from a stream out of step? Also checks the inductive invariant `StreamInv` of the proofs, of which `CopyInBounds`, no copy out of bounds, is a part. | holds |
| `SessionLive` | Does every call return (`CallsReturn`) and every frame end (`FramesEnd`)? | holds |
| `SessionTrailer` | The same as `Session` with trailers | `ReplyIsNotData` violated |
| `Client` | Do the files of `scan()` hold complete consecutive pages, is no page left behind, and is a failed write the last of its file (`PagesSafe`); does a cancel end the scan (`CancelStops`), is `SaneFrame` implemented, does `scan` return (`ScanReturns`), in any history up to a message taken from a stream out of step? | holds |
| `Frontend` | Any frontend, with the liberties it takes noted. The entry points: dangling pointers (`NoDangling`), leaks, opened devices without an object, handles (all in `ApiInv`, the inductive invariant). Any order of setting options: do the capabilities follow the values (`CapsFollow`), does every call that changes another option or the parameters say so (`Announced`), is the area on the paper (`AreaOnPaper`), are the codes of the request known ones and do the predicted pixels fit it (`RequestFits`)? | holds |
| `ApiReopen` | Is a frontend that only uses handles it holds safe from NULL pointers (`NoNullCall`)? | violated |
| `OptionsLines` | Do the predicted lines fit the request (`LinesPredicted`)? | violated |
| `Waiting` | The parts that wait for another thread, process or peer | holds |
| `Tasks` | Reader tasks one after the other and side by side, forked and threaded, under each handler of SIGPIPE (`TasksSafe`) | holds |
| `Data` | The parts that keep or convert data, against reference definitions | holds |
| `Devices` | The parts that own hardware, under plugging, failures and several users | holds |

`Waiting`, `Tasks`, `Data` and `Devices` check one property for each part; the conjuncts are
defined and commented in the module of the part.

| run | property | says |
|---|---|---|
| `Waiting` | `TransferSafe` | NODATA was taken from nothing, so that repeating the call is right (`NodataIsClean`) |
| | `ImplementsStream` | `Transfer` implements `MessageStream`: whole messages, in order, each once, until one is torn |
| | `ThreadsSafe` | the code inside a mutex has it (`MutexesHeld`), no take goes on without a give of its own time (`TakeNeedsGive`), one owner (`OneOwner`) |
| | `FileHasOwner` | a lock file's maker is dead, holds the lock or is on its way to |
| | `WaitersReturn` | `scandif_recv` with a timeout, a timed `take` and `sanei_access_lock` return |
| `Tasks` | `TasksSafe` | while a thread runs, begun when no other was left, SIGPIPE is not at its default, and a handler of the application stays (`SigpipeIgnored`); such a thread, and any process, runs its own function, and what `waitpid` and `get_status` say of it when it has ended is what it returned (`OwnStatus`) |
| `Data` | `ContainersSafe` | `ListIsSequence`, `RingsClosed` |
| | `ValuesSafe` | `SharedMemoryLives`, `ListOwnsObjects`, `FindsLatest` |
| | `OutputSafe` | `PathAsAsked`, `PageFilesClosed` |
| | `WireSafe` | `DecodesWhatWasSent`, `NothingLost`, `MemoryBalanced` |
| | `AsciiSafe` | `TextArrives`, `ByteArrives`, and what does not (`CharsCutOff`) |
| | `MagicSafe` | `MarksKept`, `CropIsInPlace` |
| | `EdgesOfMedium` | the edges that are found are those of the medium, for the media given |
| | `ConfigSafe` | `FileIsHonoured`, `ConfigIsLegal`, `DescribedIsFound` |
| | `ConstrainSafe` | an action property: `MadeNearest`, `ChangeTold`, `Resolved`, `AcceptedKept` |
| `Devices` | `UsbSafe` | `OneSlotEach`, `SlotIsMine`, `KindsAgree`, `EndpointsOfDevice`, `ClaimedIsOpen`, `NotHaltedTwice` |
| | `ScsiSafe` | `RunsInOrder`, `QueueCounted`, `BufferFits`, `OldGoodMeansRan`; `AttachedRight`, `NoneMissed` |
| | `PortsSafe` | `EnabledHoldsClaim`, `PortRestored`; `CtrlBroughtBack`, `ClaimIsMarked`, `OffersWhatWorks`; `OneUserEach`, `BytesHandedOver` |
| | `LmSafe` | `WriteIsComplete`, `ReadIsInPlace` |
| | `DeviceSteps` | what a step may not do: a slot whose device was just seen stays its own (`SeenSlotsStay`), an open ends in the best allowed mode (`ModeChosen`), a reset that says TRUE has been (`ResetHasBeen`) |

### What the violated properties show

* `SessionTrailer`: `read` reports the end of an image from its byte count, without
  looking for what the daemon still has to say. An empty last SCANDATA then sits in
  front of the answer to the next SCANCONTINUE, and `start` fails with
  SANE_STATUS_INVAL. `scandif::scan`, the other client, skips exactly that message.
* `ApiReopen`: `SaneDevice::open` of an open device sets `device_ptr` to NULL when
  `configure` fails and leaves `opened` true; every later call goes through NULL.
* `OptionsLines`: `get_parameters` computes the lines from the x corners
  (`odc_products.cpp:635`), so that before a scan every area that is not a square gets
  a wrong number of lines, the whole paper to begin with.

### Divergences that the models contain

The models do what the code does. Where the code does something else than its
name, its comment or its neighbours say, the properties are stated around it, and
this list tells what that is.

* A cancel that comes between `canceled = false` and `open()` in `start`
  (`odc_products.cpp:654-662`) is lost: `cancel` only remembers itself when the socket is
  open (845). `NoDataAfterCancel` says nothing of it until the next cancel.
* `read` copies what it has found or received without looking at the connection again
  (749-807): one piece may reach the frontend after `sane_cancel` has returned, when that came out
  of a signal handler. `NoDataAfterCancel` says that none comes after it.
* A message whose body stays away is given up in the middle, and both clients go on with the
  connection: what they read from there on is not what the daemon sent (`misled`).
* A list may hold two devices with the empty name, for the loop of the constructor
  starts at an uninitialised counter (`odc_device.cpp:1077`).
* The error of a write (`scandifc.cpp:589`) is replaced by END_OF_PAGE when the message
  was the last of its page (604), and `scan` says SUCCESS.
* `ArrayList::ins` that has to grow puts the element one place too far in front and leaves a
  zero for the last one (`boundary.h:228-275`): `ListIsSequence` holds with `InsertedGrowing`, that is,
  it says that the code does just this. At the front, with growth or without, its unsigned
  loop counts past zero and leaves the memory (`overrun`).
* `shallow_copy` and the assignment of a `String` forget the block that was there before:
  it is never freed. `Properties::find` finds the older of two properties of a name.
* `scan_param_t::set_path` of a path without a slash leaves the name at the start of the
  buffer, where it is read as the directory as well (`scandifc.cpp:130-136`; `stray`). `set_dir`
  does not look at the result of `set_path` and returns 0 when the name it had to move no longer
  fits (73-85): the pages go to the name that is left (`untold`). A setter that returns -1
  leaves what was cut off in the buffer, and a later one builds on it.
* `thread_base::start` returns 0 when `pthread_create` fails: the error is positive, and
  `rc < 0` (`odc_misc.cpp:297-303`) does not see it. `StartThread`.
* `sanei_access_lock`: a process that found the owner of a file dead unlinks whatever file
  is there by then (189), that of a third process included; two processes then hold the
  lock, which "protect[s] device access from more than one frontend" (`sanei_access.h:49`).
* `sanei_thread`: one static record for all tasks: a second task that is begun before the
  first has read its function, or ends before the first was waited for, changes what is
  run and what is told (272-303, 380). The first `waitpid` brings the default of SIGPIPE
  back, under the threads that still run; and it does so where the application itself had the
  signal ignored. `overlapped`.
* Where threads are used, `sanei_thread_get_status` returns the status field of `td` (478), which is
  GOOD from `sanei_thread_init` on: a thread that still runs "finished without errors", although
  `sanei_thread.h:148-149` has another value for a task that "hasn't finished yet". `OwnStatus` is about
  tasks that have ended. (A process that has not finished is an IO_ERROR, as announced.)
* `sanei_configure_attach` returns from inside the loops that parse arrays (346 and its
  like) without freeing the value, the line or the file. A string that is longer than
  the memory of its option is cut off there and copied without a NUL (397-403): it ends where the
  backend has put one, or not at all. The legality of such a value is only claimed
  (`ConfigIsLegal`) when that memory began with a NUL in its last byte.
* `sanei_check_value` looks at the first element only of an array whose constraint is a list of
  words, so that the others may be anything (`OptionChecks`, "first").
* `sanei_constrain_value` rounds a value up to a step beyond the maximum, when that is off the
  grid of the range (216-227); strings that differ in case only cannot be told apart. Such
  options are not `Regular`, and of them only `ChangeTold` is claimed.
* `configure` may give the resolution a range that excludes the 50 it starts with, and leaves the
  value alone: a request may then ask for 50. `RequestKnown` allows it.
* `sanei_usb_open` with libusb 1.0 leaves the handle open on the error returns 1515-1546.
* `sanei_scsi_req_wait` says GOOD of a command that SG_IO has put off with EAGAIN, and that
  never ran, although `sanei_scsi.h:242-245` promises that of success only. `OldGoodMeansRan`
  is about the old interface.
* `sanei_pa4s2_scsi_pp_open` leaves the port in use on its error returns (1131-1160), so
  that no later open of it succeeds. Such a port is claimed only while it is enabled, like any
  other (`EnabledHoldsClaim`); that it can be opened again is not claimed.
* `pio_open` marks the port in use before `ioperm` and leaves it so when that fails
  (464-466), so that no later open succeeds.
* `sanei_lm983x_write` tries again for ever when only the header of a transfer arrives (a
  short write that carries no data makes no progress); `sanei_lm983x_reset` says TRUE
  when it cleared the bit, though its comment says that it returns false (235-237).
* The text codec: characters after the first item never arrive, since the line end before
  them is not skipped (`sanei_codec_ascii.c:133`); the smallest word cannot be encoded;
  the halves of a byte are read in an order that C leaves open.

### Bounds

**Session, Client, Frontend.** `MaxPage` bounds the pages of a behaviour, `RxMax` and
`TxMax` the messages waiting in the socket, `MaxChunk` the bytes of one message,
`MaxDevices` the device list, `Addresses` and `Impls` the heap.

Images of 2 and 3 bytes in pieces of 1 or 2 are transferred in one piece, in equal
pieces and in pieces that do not divide the size, into a frontend buffer that is
smaller than a piece or as large. Two pages (three in `Client`) cover a job of one
page, an ADF job with a next page, the REJECT after it, and a second job with
another size or mode; errors and hangups can fall on any of them. Two replies may
wait in the socket, so that one can stand in front of another, and the trailer makes
a third. Of a stream out of step one message is misread in a session (`MaxMisreads`): a page
announced, a piece that is larger than the buffer, or nothing that a call waits for; in
`Client` two, so that `scan` can be led from an announcement to a last piece with another page behind
it, or to one that is not the last. With `misled` set nothing is claimed any more but types,
cancels and, in the session, bounds of the copy, and more such messages add nothing to these.
One request at a time is all the clients ever send without waiting
(`TxMax = 1`); a full socket is a failed send. Two devices on three addresses are
enough for an address to be reused by another device while one stays; three
`DeviceBaseImpl` objects for two re-opens. Nothing in the code compares sizes,
pages or addresses with constants, and the theorems hold for all values.

`Offers` holds for each option the values a frontend passes: every switch both ways,
list values that the code tells apart, quantities in and out of their range, and
corners that cross over in both directions. `Models` adds a device to the defaults
whose paper and resolutions differ. Descriptors are read in the order of their index,
which keeps the sets of loaded options few; nothing depends on their order.

All pages of one ADF job have the same size. That is an assumption about the daemon:
`start` ignores the size in a SCANCONTINUE response (a listed hazard).

**Waiting.** A header of two units is the least that can be cut; bodies of 0, 1 and 3 units
are none, one that cannot be cut and one that is cut twice; two retries are the first
and the last one; the second message shows what an abandoned first one leaves. Two
workers meet at each mutex, wait for each other and signal too early and too late. A stale file takes three
processes: one that died, one that found it and one that came in between; two tries
are the first and the last.

**Tasks.** Two tasks side by side show what threads take from one another, a third one after
them what they leave (`MaxAlive` 2, three tasks, which are symmetric); three statuses tell the one
that was returned from another task's and from the error of a signal.

**Data.** Lists grow twice (`InitSize` 2, `GrowSize` 1, four elements) and every insertion and
deletion point occurs; four links make rings of every partition. Two blocks and three
handles share and drop each way; three property objects of two names make overwriting
and duplicates. Paths fit, just fit and do not fit into `PathMax`, and every setter follows on
every buffer that another one has spoilt. A wire buffer of three
bytes cuts words of two at every place, `MaxMem` 6 is reached by long strings; two calls
show what the first one leaves. The text codec has words of 8 bits and the characters it
escapes. `ConstrainValue` runs over every word of 4 bits, `MCDescriptors` over each kind of
constraint with ranges on and off the grid and at both ends of the word. Images are
8 x 6 (all sets of up to three spots in the middle) and 14 or 16 wide with the medium at
several places, wider than the windows of the search, which are 9. Configuration
files have up to two lines of fifteen kinds, and two of them are read: arrays of two numbers or
booleans that are whole, short, or wrong at either place, a word list that is wrong at the
second, strings that fit, just fit and do not fit in memory with and without a NUL in its last
byte, a button, two devices, an unclosed quote. Two lines are an option set twice, an
option and a device, or a refused line and what comes behind it. 622 000 states in a minute.

**Devices.** Two places with two kinds of scanner and a kernel device, a table of two slots
and two backends (symmetric): enough for a slot to be lost to another device while it is
open and for its index to be used afterwards. Three requests make the head, the middle and
the end of the SCSI queue; two device file prefixes with three numbers make gaps and
duplicates (`ScanMisses` 2). One port of `Pa4s2` and of `Pp` with every hardware and every
build: ports do not know of one another; `Pio` has its two. Registers 0 to 2, with a
transfer of two, make the end of the registers and of the transfer fall together and
apart. 377 584 states in two and a half minutes.

### Fairness

`FairSpec` of `ScanSession` and `ScanClient` assumes weak fairness of

* the thread inside a call, unless it waits in `recv()` (`Waits`): an operating
  system runs a thread that is ready. Of the nondeterministic outcomes of a socket
  call none is assumed to be the good one;
* the daemon's answers: a request is served or refused, a page goes on or fails. That
  is what both clients rely on: the connection of a scan has no receive timeout
  (`scandifc.h:70`), so without it `read` may indeed wait for ever. Hanging up is not
  assumed;
* in `ScanSession` the frontend's reads: a frontend that never reads ends no frame.

Nothing is assumed of cancels, further starts or errors.

In `Waiting`: weak fairness of a receive step, since with a timeout set `recv` returns, data
or not, while the sender may stop for ever; weak fairness of each thread's own steps
and of the timeout of a timed wait; strong fairness of entering a mutex, which other
threads may have again and again, as POSIX schedulers let everybody in in the end;
weak fairness of each process inside `sanei_access_lock`, whose `sleep` ends. Nobody is
assumed to give, to unlock or to live.

## 4. Proofs

| theorem | states |
|---|---|
| `ScanSessionProofs!TypeCorrect` | `Spec => []TypeOK` |
| `ScanSessionProofs!StreamConsistent` | `Spec => []StreamInv` |
| `ScanSessionProofs!CopiesInBounds` | `Spec => []CopyInBounds` |
| `ScanSessionProofs!BytesInOrder` | `Spec => []InOrder` |
| `ScanSessionProofs!FrameConsistent` | `Spec => []FrameInv` |
| `ScanSessionProofs!FramesComplete` | `Disciplined`: `Spec => []EofComplete` |
| `ScanSessionProofs!ParamsDescribeFrame` | `Disciplined`: `Spec => []ParamsOfFrame` |
| `ScanSessionProofs!RepliesAreNotData` | `Disciplined`, `~Trailers`: `Spec => []ReplyIsNotData` |
| `ScanSessionProofs!CancelStopsData` | `Spec => NoDataAfterCancel` |
| `ScanSessionProofs!SessionIsFrame` | `Disciplined`: `Spec => ImplementsFrame` |
| `ScanClientProofs!ClientConsistent` | `Spec => []ClientInv` |
| `ScanClientProofs!PagesAreSafe` | `Spec => []PagesSafe` |
| `ScanClientProofs!CancelIsSeen` | `Spec => []CancelStops` |
| `ScanClientProofs!ClientIsFrame` | `Spec => ImplementsFrame` |
| `FrontendProofs!NothingDangles` | `Spec => []NoDangling` |
| `FrontendProofs!DevicesInOrder` | `Spec => []ApiInv` |
| `FrontendProofs!CapabilitiesFollow` | `OptionsSpec => []CapsFollow` |
| `FrontendProofs!AreaStaysOnPaper` | `OptionsSpec => []AreaOnPaper` |
| `FrontendProofs!RequestsFit` | `OptionsSpec => []RequestFits` |
| `FrontendProofs!ChangesAreAnnounced` | `OptionsSpec => Announced` |
| `WaitingProofs!TransferIsStream` | `TransferSpec => ImplementsStream` |
| `WaitingProofs!NodataCanBeRepeated` | `TransferSpec => []TransferSafe` |
| `WaitingProofs!ThreadsAreSafe` | `ThreadsSpec => []ThreadsSafe` |
| `WaitingProofs!TasksAreSafe` | `TaskSpec => []TasksSafe` |
| `WaitingProofs!FilesHaveOwners` | `LockSpec => []FileHasOwner` |
| `DevicesProofs!UsbIsSafe` | `UsbSpec => []UsbSafe` |
| `DevicesProofs!ScsiIsSafe` | `QueueSpec /\ NameSpec => []ScsiSafe` |
| `DevicesProofs!PortsAreSafe` | `PaSpec /\ PpSpec /\ PioSpec => []PortsSafe` |
| `DevicesProofs!RegistersInPlace` | `LmSpec => []LmSafe` |
| `DevicesProofs!CallsKeepTheirWord` | `UsbSpec /\ PaSpec /\ LmSpec => DeviceSteps` |
| `DataProofs!OutputIsSafe` | `OutputSpec => []OutputSafe` |
| `DataProofs!ContainersAreSafe` | `ContainersSpec => []ContainersSafe` |
| `DataProofs!ValuesAreSafe` | `ValuesSpec => []ValuesSafe` |
| `DataProofs!ConfigurationIsSafe` | `ConfigSpec /\ MatchSpec => []ConfigSafe` |
| `DataProofs!ConstrainingIsSafe` | `ConstrainSpec => ConstrainSafe` |
| `DataProofs!ImagesAreSafe` | `MagicSpec => []MagicSafe` |
| `WireProofs!WireIsSafe` | `WireSpec => []WireSafe` |

They hold for every value of the constants: any image sizes, chunk sizes, numbers of
pages and messages, any list and heap, any model and values of options, disciplined
frontends and others, with asynchronous cancels or not, with trailers or not, and whatever a stream out
of step is taken for; headers,
bodies and retries of any number; any number of threads, tasks, processes, deaths and
tries; USB tables, SCSI queues, ports, registers and transfers of any size; lists of any
length, rings of any nodes, names, paths and buffers of any length; messages of any values,
cut by buffers of any size; configuration files of any lines; words of any width; images of
any size, spots of any diameter.

A theorem over the specifications of several parts (`QueueSpec /\ NameSpec => ...`) is
about processes that use them all: the parts share no variable.

**BytesInOrder.** `InOrder` speaks of the buffer and the frontend's counters; a byte
enters the buffer from the socket and the socket from the daemon, so the invariant
has to reach that far. `StreamInv` adds `WireInOrder` (each piece in the socket
continues the message before it, and the daemon's position continues the last one),
`ReadNext` (while a frame is delivered, the first message in the socket, or the
daemon when there is none, continues what the frontend and the buffer have) and
`CallState` (the counters are zero while `start` waits, and the buffer is empty while
`read` does). Each action then keeps every conjunct; the delicate ones are
`StartReply` and `ContinueReply`, where a new page makes `ReadNext` true because
nothing but the response itself can be between the client and the page's first byte,
and `Tear`, after which the stream is followed no further: a call that takes a message from it is
`misled`, and bytes that a frontend has got by then were in order.

**FramesComplete, ParamsDescribeFrame, RepliesAreNotData, SessionIsFrame.** `read`
compares its count with `scan_data_size`, which a SCAN response sets and a SCANCONTINUE
response leaves alone; `get_parameters` shows `params`, which are predicted from the
request. Both are right only as long as the answer that `start` takes is the answer to
the request it sent. `FrameInv` says so: of a disciplined frontend at most one request or
answer is on its way, and only while `start` waits (`OneAnswer`); an answer to SCAN has the
mode asked for, one to SCANCONTINUE the mode and the size of the page before (`AnswerFits`,
whose last part carries these from page to page while `use_adf` is set). `InStep` adds that
such a frontend, which cancels after a failure, meets a stream out of step only in a call that it
has cancelled itself. `PiecesFit`, that
no piece goes beyond its image, gives the rest: the reader's position never passes
the size (`FrameKnown`), so that at the end of a frame a further piece, or a page still
being sent, would have to lie beyond the image. Nothing is left to be mistaken for a reply
(`NoneLeft`), unless a trailer may follow, which is the run `SessionTrailer`. A REJECT is the
one answer after which `start` goes round; behind an error no piece can follow
(`ClearAfterError`). **CancelStopsData** needs `Offline` alone: after a cancel there is no
connection, and a read that waited on it finds none. `Stopped` says from when on the promise
holds: at once, unless the cancel fell between the check of a read and its copy, or into a
`start` that had yet to connect. The refinement maps
phases: its step lemma `FrameSteps` says that a frame begins empty, keeps its image
and ends where it stands.

Undisciplined frontends are left out of the first four theorems because they break them
(TLC finds it with two modes and three pages): a `start` after one that failed can take
the answer to the earlier request for its own.

**ClientConsistent, PagesAreSafe, CancelIsSeen, ClientIsFrame.** `scan()` goes on with the
connection it finds: an earlier scan that gave up may have left answers in the socket, and
the daemon may be at the page of another request. `ClientInv` therefore compares the page that
`scan()` was told of last with the page of the daemon. `JobKnown` says that the daemon is never
behind, and that while both are at the same page `scan()` is right about whether it goes on
and whether the feeder has more; `PageNext` that the next message in the socket, or the
daemon when there is none, continues the bytes that the file has.
`FilesKnown` keeps the files of the pages before as they were closed, and
`CancelSeen` counts, for each place in the two loops, how much may still be done before
the flag is looked at. The daemon's side of it, that pieces fit into their image and that pages
come in order, is proved once in `ScandProofs`, for both clients.

**TransferIsStream.** The refinement takes the messages begun by the sender for those put,
and those delivered for those taken. That the next delivery is the next message is not
in the state of the receiver, which has a part of one message at most; it is in what
is in flight: what the receiver holds, the socket, and what the sender has yet to
send, joined. `Unspoilt` says that this is whole messages one after the other, the
first of them the next to be delivered, and that the count of missing bytes ends at the
end of that message; every step only moves units inside it, takes a whole message from
its front or puts one at its end. Once something was torn, `OrderedIn` is left: the units
are still in the order they were sent, and beyond what was delivered, which is why no
message comes back.

**NothingDangles, DevicesInOrder.** `NoDangling` is inductive together with the types.
The rest of `ApiInv` says what each liberty costs: `OpenHasDevice` is lost by
re-opening only, `HandlesOpen` by re-initialising only, `NothingLeaks` by either; a
stale handle can crash the process but corrupts nothing. `~inited => devlist = <<>>`
is needed for `sane_init`: only from an empty list does filling it leak nothing.

**CapabilitiesFollow.** `CapsFollow` is inductive once the two switches are known to
be Boolean; each `set_value` restores a part of it, and the clauses say which liberty
a part does not survive. **AreaStaysOnPaper.** `AreaInv` puts each corner, not only
the area, on the paper of the current `geometry`: `configure` sets both in one step.
**RequestsFit.** `RequestInv` keeps each field in its table of codes and the corners in the
paper; that the predicted pixels fit the request is then arithmetic with two roundings.

**ThreadsAreSafe.** `ThreadsSafe` needs `Untouched`: between reading the old value and
writing the new one, the value is still what was read, because the mutex is held.
**TasksAreSafe.** `TaskInv` follows the static record from `begin` to the task's first step
and from its last one to `waitpid`. Any tasks are begun in any order; what `Shared` says of `td`, of the
status and of the handler holds of processes, and of a thread of which none was begun before the
others had been waited for (`Apart`), as backends do it: then it is the only one (`AtMostOne`).
**FilesHaveOwners.** `OwnerGoesOn` gives each step of a call the tries it still has;
the case that needs thought is a process that times out while the file is its own: it
cannot, since a file with its own id ends the call with success, and it creates a file
only on its way to the lock.

**UsbIsSafe.** A step of the table is a whole scan of the busses, so there is an invariant
inside the step: `MidScan` relates the table after each device that was stored to the one
before the scan. A slot that was seen before the scan may be marked but not taken, a slot
that is open afterwards was open and is still the same device's, and whatever is there has
the kind that the bus has. `UsbInv` is that at the end of a scan, with each owner's slot and
the endpoints, which are none, set by the backend or the first of their type.

**ScsiIsSafe.** `Issue` is a loop too; `IssueKept` says of its turns that the commands that run
are the first ones of the queue, that one that is done has run, and that `used` is the room of
those that run. `TailKept` takes it over the removal of the head. For the names, `ChkIs` gives what
`lx_chk_devicename` answers by what is behind a file, and `SearchKeeps` follows a search from
number to number: what was attached is right, and every number below was looked at. That
none is missed needs the files without gaps and `ScanMisses` greater than one.

**PortsAreSafe.** `PaInv`, `PpInv` and `PioInv` put each port into its place: enabled means claimed
by us with the registers of before in the store, and a port is never saved a second time.
In `sanei_pa4s2_open` the invariant holds in every round of its loop (`LoopKept`). `PioAgrees` says of
each place in the handshake which of the two sides has moved the strobe last.

**RegistersInPlace.** `LmInside` keeps the running count within the registers, so that the
next transfer names a register that exists.

**CallsKeepTheirWord.** `SeenSlotsStay` comes out of `MidScan`. For `ModeChosen`, `Tried` says that all
allowed modes below the one of the loop were right and that the loop ends past the last one,
at one not allowed or at one that is wrong; `Turn` that after four rounds it has ended, which
makes the unsigned decrement afterwards harmless when the values were really read.
For `ResetHasBeen`, `ResetInv`: in a reset the bit is set only if it was before or this call has
sent it, even when the write was reported as failed.

**OutputIsSafe.** `PathAsAsked` is inductive with the types, overflows and what follows them
included: the alternatives are those of the code, the parts as asked for (`WholePathInv`), or spoilt
by a call that says so or by `set_dir` (`SpoiltPathInv`). The fit is of what is there: a
directory alone needs no room for a name, `set_dir` takes one that fills the buffer, and a text that was
cut off fills it to its end (`SpiltFits`).

**ContainersAreSafe.** `ListInv` compares memory and sequence element by element and keeps
`num` within the room there is; `InsertedGrowingIs` works out, element by element, what an `ins`
that had to grow makes of the sequence, and `ListInsGrowsKeeps` that its two loops make that of
the memory. Nothing is said of a list after `ins` at the front. For the chains, `ChainInv`
adds that the rings part the nodes (`RingsPart`): then the predecessor of a node is in its
ring, the two neighbours of an insertion or removal are in one ring, and every other ring
keeps its links (`RingUntouched`). That a walk visits the whole ring is `IsRing`: a smaller set
closed under the new links would give one closed under the old.
`AddPrevIsAddNext`: `addprev` of a node is `addnext` of its predecessor.

**ValuesAreSafe.** `StorageInv` counts the users of every block, in use or free, so that a free block
that `malloc` gives out has no user left. `PropInv` speaks of the set of listed objects:
`AppendListed` and `WithoutListed` say what a list operation does to it, and `NamesLeadToLatest`
that, until ALLOW doubled one, a name in the list is there once and `latest` is its object.

**ConfigurationIsSafe.** `FileIsHonoured` speaks of the lines before the first that is refused, so it
is an invariant of the reading itself, line by line: `ConfigInv` adds that none was refused while there
is more to read (`AllHonoured`). That the memory of an option then has what the line says is
`CopiedSays`: each element is made of the word in its place, and a text is whole where there is
room for it, or has all but its last byte from the line. `AcceptedIsLegal` follows what was accepted into
the memory, and needs the NUL in its last byte for a text that was cut off. A line that is appended is the last of its option, and, when it names
a device, the one of the highest rank; the ranks below do not change (`RankInRange`,
`AttachedAppended`, `ValuesAppended`). A refused line leaves the honoured ones as they were.

**ConstrainingIsSafe.** An action property of one call, but about C's arithmetic in words of any width:
`Signed` keeps what fits (`SignedKeeps`). `StepOf` has the step of the grid in a range, `OnGridInRange`
that rounding to it does not leave a range whose end is on the grid, `OnGridNearest` that no other
step is nearer; `NearestIs` says of the loop over a word list that it ends at a word no other is nearer
than. For strings, `Chosen` is what the loop has left, a part of `Matches`; with strings that differ in
more than case at most one is whole (`WholeIsOne`).

**ImagesAreSafe.** Until the crop the parameters are the image's and the buffer has its length, and
after it every line is the piece of the image between the edges (`MagicInv`). For the crop,
`LinesMoved` is the invariant of the loop: the lines moved so far are in front, and the buffer behind
them is still the image's; a line lies at its destination or behind it, so that moving it writes over
nothing that is still to be read (`NextLineMoved`). For despeck it is `SpotsGone`, over the windows in
the order they come: a pixel is black only if it was, and a mark that has lost a pixel fits in a
square of the diameter. A window that is painted has white around it, so a mark inside of it
either lies wholly in it, or hung together with a pixel around it that was removed before - and then
fits already (`RemovedPixel`). `MarkIs` says that `Mark`, which grows a number of times, is the least set
that hangs together, and `OneMark` that any of its pixels has the same. `EdgesAre` bounds the edges that
findEdges can find, whatever the changes of colour in the picture.

**WireIsSafe.** As long as no write or read has failed, the connection is in one of three phases:
`Silent`, `Asking` (the client talks) or `Answering`. In a talk (`Talk`), what is in the listener's
buffer, in the stream and in the speaker's buffer, joined, is a cut of the encoding: the rest of the
piece that is being decoded, and the pieces of the values after it, up to what the speaker has still
to put. The listener has the first values of the message, and of the next one some elements; the types
it still expects are those of the values to come; and the memory it counts is what those values
take, until WIRE_FREE gives back just that much (`Freed`). Every `Put` and `Get`, with the flush or the fill in
between, moves bytes inside of that. Once a call has failed only the types remain. TLC
confirmed the invariant on two instances (3.1 and 1.0 million states) before it was proved.

Two of these proofs did not go through at first because the model said less than it should. In `Wire`
the NULL pointer was a pointer to one word, so that pointers that are not NULL occurred in
no message and their memory was never counted; in `ConstrainValue` no list of words was `Regular`, which
made `MadeNearest` empty for them. Both are corrected, and the runs exercise them.

Loops of the code are recursive functions here (`Scanned`, `Issue`, `Search`, `Painted`,
`MovedToFront`, `Freed`). The first lemmas of `DevicesProofs` and `WireProofs`, and some of `DataProofs`,
give them their values: `NatSetInduction` is induction over the numbers without an
operator parameter, from the well-foundedness of the finite sets `1 .. n`
(FiniteSetTheorems, WellFoundedInduction), and `StepByStep` builds the function from its turns.

Assumptions on the constants: `ScandAssumption` (sizes and chunks are positive, what is
misread is a message, `REJECT` is the daemon's word for an empty feeder and no other error, SUCCESS is no error),
`SessionAssumption` (an error of the daemon never translates to GOOD or EOF:
`libsts2sanests` maps only SUCCESS and END_OF_PAGE there, which are not errors),
`SaneApiAssumption` (NULL is no address), `ScanClientAssumption` (a Boolean),
`OptionsAssumption` (`Offers` are values of the option's type, `Models` are models),
`SaneiThreadAssumption` (there is a status that is GOOD, and room for one task), `TransferAssumption`, `AccessAssumption`, `Lm983xAssumption` (numbers are natural, lengths
and retries positive), `ThreadsAssumption` (no thread has the name of a state of the
value), `SaneiUsbAssumption` and `EndpointAssumption` (finitely many places, endpoints have an
address and a type), `ScsiAssumption` (finitely many devices, `ScanMisses` at least 2 - the
code has 5 -, device numbers without gaps), `Pa4s2Assumption`, `PpAssumption`, `PioAssumption`
(builds, hardware and scanners are of their types; there is a byte), `OutputFilesAssumption` (the
buffer has room, names have a length, and no name is the missing or the cut off one), `ContainersAssumption`
(lists start and grow by something), `ValuesAssumption` (finitely many handles; no block and no object
is the missing one), `SaneiConfigAssumption` (every option has legal values, a size and a default that fills it, and a check that
is one of its type; a line is of one of its kinds),
`ConstrainValueAssumption` (descriptors are well formed: a list of words has one at least, a quant
is not negative), `MagicAssumption` (a line holds its pixels and the buffer the lines, which is what
the parameters say), `WireAssumption` (the buffer holds a word, and a word the protocol's constants and the
length of each string; procedures have different numbers). TLC evaluates them in the runs.

### Model-checked only

Liveness (`CallsReturn`, `FramesEnd`, `ScanReturns`, `WaitersReturn`) is out of the
prover's reach and stays with TLC. Of the run `Data` two properties do:

* `AsciiSafe` is about the decimal text of a number, digit by digit, and about what the codec
  does not carry: which byte is cut off, and what a number next to the smallest one decodes to,
  follows from the digits of the largest word. It is a fact about the widths in the run, every word
  of which TLC visits.
* `EdgesOfMedium` is about a heuristic. It is true of media that contrast with their background and
  are larger than the window that looks for them, as those of the run; of other pictures it is not.

## 5. Not modelled

* `scandif::register_client` (`scandifc.cpp:280`): one request and one answer, called by
  nothing in the repository. It does not look at the result of its receive.
* Of the options: the groups, the option with their number, the unused integer and
  button classes, the buffers of strings, the preview option, which nothing reads, and
  sharpness, font smoothing and moire elimination, which pass through to the request
  as `bgelm` does.
* The pointer array that `sane_get_devices` hands out, and `version_code`; the progress
  notifications of `scan`; the bytes of PNM headers.
* Conversions of `Property` values from one type to another and to text, and `ValueList`:
  pure formatting.
* The helpers of the driver (`parse_bool_str`, `parse_usbid`, configuration values), the
  tracer, status texts, `stubs.c`: pure string functions and output.
* `sanei_magic`: skew and rotation compute in floating point, for which TLA+ has no
  values.
* `sanei_scsi`: the interfaces of the other operating systems, about four fifths of the
  file: a build has one of them, and what they share with Linux (`open`, `cmd`, `close`)
  keeps no queue. `sanei_usb`: OS/2's usbcalls, and control messages, which change no
  state. `sanei_thread`: the OS/2 variant.
* The addresses behind the end of a buffer: a body longer than the client's memory after a
  stream out of step, `ins` at the front of a list, a string without a NUL. The models stop at
  the overrun, or say no more of what was overrun.
* The copies of `Storage` and `String` that C++ makes by itself; that the last user of a block
  frees it.
* `sanei_lm983x`: register numbers that wrap past 255.
* `sanei_pa4s2`, `sanei_pp`: the bytes on the wires and the calibrated delays.
* `sanei_ab306`, `sanei_pv8630`, `sanei_tcp`, `sanei_udp`, `sanei_auth`, `lib`, `include`, `m4`,
  `po`, `pardus`, the build files: timing of port accesses, thin wrappers of system calls,
  replacements of C library functions, data and tools.

## 6. Plan

Done: the session and the client of the daemon, the entry points, the options, the
transfer of a message; the helpers of the driver; the shared library; the proofs of
section 4.

Left:

* Composition: a session whose requests are made from `Options`, with options that
  change between the pages of a job.
