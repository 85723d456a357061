# gnxq: a TLA+ verification of the gateway program

`gnxq` runs on an ARM board between a monitoring server and the devices of two
CAN buses. One process, started by `main()` (`src/main.c`), talks to the server
over a serial line (a radio module, frames of 64 bytes), collects measurements
from the devices over CAN, and answers local hosts over TCP. This directory
holds TLA+ modules translated from that source, the TLC configurations that
check them on small instances, and proofs checked by TLAPS.

- `X.tla`: the specification of a part X and its properties;
- `MCX.tla`, `MCX*.cfg`: its instances for TLC;
- `XProofs.tla`: theorems about X for every value of its constants.

Comments of the source are in GBK; where a property quotes one, it quotes the
translation. `PROJECT.json` maps each definition to the lines it stands for.
Definitions headed *Seeded fault* are variants with one plausible bug in them.
They are not part of any specification: substituted for the real definition,
each makes a named property fail, which shows that the property is able to.

## 1. Inventory

### Threads and shared state

| thread | started by | code | shares |
|---|---|---|---|
| main | | `main.c:312-556` | starts everything, then is the TCP server |
| CAN worker, one per enabled bus | `main.c:376-395` | `CanMsgListener`, `handleP2PAndBroadcastMode` | A4/A5, the frame list, `canThreadArgs` |
| listener | `main.c:411`, `uart.c:1191` | `UARTMsgListener` | `Recv_Frame`, A0, A1, `g_mac`, the ack flags |
| processor, one per serial frame, detached | `uart.c:1180` | `UARTMsgProcessor` → `handle` | all of the above |

There is one mutex, `g_mutex`, with one condition variable, `g_cond`. They
guard A4 and A5 when these are *written*, and are held for the whole of a CAN
session. Everything else that threads share is shared without a lock.

### Components

**CAN command path** (`main.c:254-395`, `uart.c:577-639`). State: A4 and A5
(for each CAN a mode byte, a device id and a command type), `g_mutex`,
`g_cond`, and the argument struct for new threads. A processor writes bytes of
A4 or A5 under the mutex and broadcasts; every worker wakes, looks at the mode
byte of its own CAN, runs the command, sets the byte to 0 and waits again.
Hard: no predicate is tested around `pthread_cond_wait`; two workers share one
condition variable and, on start-up, one argument struct; sessions of a minute
and more run under the mutex. Correct means: threads exclude each other, a
session keeps its parameters, a command is run or replaced, a writer is not
shut out.

**CAN session** (`can/can.c`). State: the list `g_PT_canFrameHead` (both buses
use the same one), the static `waveDataType`, the receive queues of the
sockets. Operations: send a request, append each frame that comes, on a timeout
of 3 s (60 s for a collection of wave data not yet finished) file a report and
clear the list. Hard: frames that arrive after their session ended are taken
for answers of the next; timeouts restart with every frame; several devices
answer one broadcast. Correct means: a report has all frames that came in for
it and no others, and a session ends.

**TCP server** (`main.c:420-611`). State: `tMultiIOInfo` (a table of
descriptors, their count, the largest), two `fd_set`s. Operations: `select`,
`accept`, `recv`, reply, remove. Hard: hosts connect, send and leave between
any two of these; table, count, set and maximum are updated apart from one
another; a `send` to a host that left, or, the sockets being blocking ones, to one
that does not read. Correct means: the four agree, `recv` never blocks, each host
is served and its place reclaimed.

**Serial link** (`uart.c:147-224, 378-414, 1091-1192`). State: one static
`Recv_Frame` that every processor thread reads through a pointer, and
`g_oreintation`, by which a log line is marked as received or sent. Hard: the
next frame may be read into the buffer before the thread of the last one has
looked at it; a `read` may be short; the mark is that of the frame read or sent
last by any thread. Correct means: each frame is handled once, in order, and
logged as what it is.

**File download** (`uart.c:666-785`). A processor sends a file in frames of 52
bytes and waits after each for an ack, which the listener announces by setting
`isFileAckReceived`; a wait gives up after 100 polls of 200 ms and says so in
`isFileAckTimeout`. Hard: both flags are global and unlocked, downloads may
overlap, acks get lost or come late, the counter of the wait is never
initialized. Correct means: stop-and-wait, frames complete and in order, no
flag left over for the next download, an end in every case.

**File upload** (`uart.c:226-247, 648-664, 842-894`). State: `g_filename`, the
static buffer `file_data` and the static pointer into it. Hard: each frame has
a thread of its own; the ack precedes the copy; a failed upload must not affect
the next; nothing keeps the pointer within the 4096 bytes. Correct means: the file
written is the file sent.

**Configuration file and start-up** (`main.c:144-248, 354-411`,
`can.c:117-186`). State: the arrays A0 to A5 and the choice of the CANs.
`InitArrayFromMacStation` reads `macstation.cfg`, a file the server can rewrite,
and takes each line for an array row by its position; the second rows of A2 and
A3 begin with a byte that enables their CAN; `can_init` binds a socket for each.
Hard: no length, no order and no number of rows is checked, and neither is the
result of `ioctl`; the two workers get their arguments through one struct.
Correct means: the arrays hold what the file says, and the
CANs it enables, and no others, are served on their own bus.

**Session, arrays and heartbeat** (`uart.c:300-376, 450-639, 986-1014,
1074-1192`). State: A0 (interval), A1 (AS, SS and the name), A2-A5, `g_mac`,
`isSessionCreated`. Hard: the listener and the answers read the arrays and
`g_mac` while processors write them byte by byte and CAN workers clear mode
bytes; a REQUEST clears `g_mac` before it is filled again; processors that write
A4 or A5 come back after a session, when other frames are being handled; the
lengths of arrays come from the file, those of writes from the server. Correct
means: frames carry the MAC, answers and heartbeats hold
whole, current values, the interval stays within bounds, heartbeats go on.

**V2 frames** (`protocol/v2.c`): pure functions that build and read TCP frames.
Correct means: the declared length is the real one, and the readers give back
what was put in.

**Finding and deleting a file** (`uart.c:785-824, 901-963, 1195-1509`). State: the
flags `log`, `dat`, `iddat`, the candidates `minlog`, `mindat` with their distance `min`, `first`,
`idfu`; all global. A request names a kind and a time; the handler reads a
directory and answers with the closest file. Hard: files are stored and deleted
meanwhile and read in any order, everything global survives a request, the
arithmetic on dates, directories that are opened and never closed. Correct
means: the answer exists, is of the kind and id asked for and no other is closer; nothing is left over for the next request.

**Utilities** (`util.c`): conversions without state. Modelled where their result
matters: hex texts (`StartUp`), file names (`FindFile`).

**Not modelled**: the settings of the serial port but for `VMIN`; the clock and
the MAC, which are taken to work; the protocol registry (`proto_manager.c`: a
list of one element, filled before any thread starts); `save_upload.c`, a
program of its own that the Makefile does not build; `send2AllClients`, which
nothing calls.

### Interactions

```
 server --serial--> listener --thread per frame--> processor --A4/A5, g_cond--> CAN workers --> devices
    ^                  |  \--isFileAckReceived-------> handleRdFile                 |
    |                  \----heartbeat (A0, A1, g_mac)                              report files
    \------------------------ answers, acks, files <-------------------------------/
 hosts <--TCP--> main (select loop, V2 frames)
```

## 2. Modules

| module | part | theorems in |
|---|---|---|
| `CommandSlots` | what the CAN command path promises (abstract) | |
| `CanControl` | CAN command path; implements `CommandSlots` | `CanControlProofs` |
| `CanSession` | one command on the bus | `CanSessionProofs` |
| `TcpServer` | select loop | `TcpServerProofs` |
| `UartLink` | listener, shared buffer, processor threads | `UartLinkProofs` |
| `FileDownload` | `handleRdFile`, `waitFileAckFromServer` | `FileDownloadProofs` |
| `FileUpload` | WR_FILE and FILE frames | `FileUploadProofs` |
| `StartUp` | `InitArrayFromMacStation`, the choice of the CANs, `can_init` | `ArrayAccessProofs` |
| `ArrayAccess` | extends `StartUp`: REQUEST, INIT, arrays, heartbeat | `ArrayAccessProofs` |
| `FindFile` | FND_FILE, `judgefile`, `findfile`; DEL_FILE | `FindFileProofs` |
| `V2Frame` | `V2_MakeFrame` and the readers | `TcpServerProofs` |

An action stands for a stretch of code between two points at which another
thread, or the other end of a line, can interfere. Where a stretch holds
`g_mutex` or touches only a thread's own data, it is one action. Where it
touches unlocked shared data, each access that another thread could tell apart
is a step: the two loads of A0 (`LoadA0`), each byte of an array (`WriteByte`,
`ReadByte`), the looks at each half of `Recv_Frame` (`TestType`, `BeginLog`, `Log`,
`BeginHandle`, `Handle`), the two stores to the argument struct (`OverwriteArg`).

### CanControl

`wpc` follows `CanMsgListener`: `start` (reads its arguments), `lock`, `wait`
(in `pthread_cond_wait`, the mutex released), `relock` (woken, wants the mutex
back), `dispatch`, `session`, `reset`, `unlock`. `ppc` follows the A4/A5 branch
of `handleWrArr`. `control` holds the four bytes of A4 and of A5 that commands
use. `missed` is history: the CANs whose last broadcast found none of their
workers waiting. Locking and waiting are one action, `Wait`, since nothing
happens between the two calls that another thread could see. What a session
does is left to `CanSession`; here it only keeps the mutex, for any time.

`CommandSlots` is the promise without threads: for each CAN one slot the server
overwrites, workers that run one command at a time with the bytes posted last,
nothing posted meanwhile, and a slot emptied only by the worker that ran its
command or because its mode calls no device. The mapping is `slot <- control`,
`job <- sess`.

### CanSession

`Begin` is the request, `Receive` one turn of the loop with a readable socket,
`Timeout` the other branch with report, `Linkedlist_clear` and return.
`TimeoutOnEmptyList` is the same when no frame was ever received: the code
reads through a NULL pointer and the process dies. Sessions follow one another,
as `g_mutex` makes them do. A frame is its device, its number, its first data
byte and, as history, the request it answers. Devices are external: any that
the last request of its bus addresses may answer, at any time and any number of
times; one that collects a wave reports once, and within the 60 s the code
gives it. Hence `Silent`: 3 s without a frame end a session at any time its
queue is empty, 60 s only when no collection is on its way.

### TcpServer

`pc` is `select`, `accept`, `scan` (the loop over the table, at place `i`) and
`reply`. The kernel is external: hosts whose connection waits, which host has
which descriptor, queues, closed ends. `recv` returns all that is queued and
the code looks at the first frame of it. A `send` to a host that left succeeds,
fails, or raises SIGPIPE, which nothing ignores: `ReplyKills`. A host that does not
read its answers stops `main` in `send` (`ReplyBlocks`), until it reads
(`HostReads`) or its connection is reset; nothing makes it do either. How much
fits before that is left open: any answer may be the one that does not fit.

### UartLink

A frame is two halves. The listener writes them one after the other and the
processors, which have a reference to `Recv_Frame` and not a copy, read them one
after the other, so a frame may be read half and half. `kinds` is what the
server chose to send. It may send at any time; `calm` is history and says that
so far it has let each frame be handled first. `QueueIfCalm` is about those
histories, the other properties are about all. `g_oreintation` is set by
`RecvRest` and by each sending (`TestType` for INIT, `Answer`, `Beat`), and read
when something is logged; `marks` gathers what is read, by the sort of frame. A
handler may also log a frame it never sent (FND_FILE, nothing found). `Beat`
needs the frame handled last to be logged: 3 s are the shortest interval.
`RecvShort`, a `read` that returns part of a frame, belongs to `ShortSpec` only.

### FileDownload

`Look` and `Poll` are the loop of `waitFileAckFromServer`, `ClearAck` its end,
`Judge` what `handleRdFile` makes of it. The counter starts with any value of
`CntStarts` and wraps at `CntValues` (2^32 in the build; the counter is
compared with `==`, so what matters is where it starts relative to the limit).
The server may ask for a second file before the first has been sent, acks may
come late or not at all. `orderly` is history: so far no download has
overlapped another, every ack that came has come within one poll of 200 ms, and
no wait was cut to one poll by the value its counter started with.
`StopAndWait` and `EndsForCause` are about orderly histories; order and the end
of every download about all.

### FileUpload

Each frame has a thread; one of a data frame goes through `reply` (the ack),
`copy`, `advance`, and for a short frame `terminate`, `write`, `reset`. The
pointer is loaded twice, for the copy and for the advance, and the compiler may
use one load for both: `Advance` allows either. `Text` is what `fputs` writes:
everything up to the first NUL. The server waits for the ack and no longer;
names are good or refused. Nothing keeps the pointer within `file_data`: when the
next access would be behind it (`Outside`), what follows has no meaning in C, and
`Overrun` ends the behaviour there. `calm` is history: so far each frame has come when
the one before had been handled. `BufferFollows` and `UploadKept` are about calm
histories, which is what the line gives: a frame takes 67 ms at 9600 baud, the
copy behind the ack microseconds. What goes wrong in the others is among the
known deviations.

### StartUp

`Load` is all of `InitArrayFromMacStation`: `Buf` the rows that the loop over the
lines takes, `Converted` what a text becomes in its row, `Filled` the memory of
the arrays behind it. A text longer than its row runs into the rows behind, in
the order of the declarations. Rows that are missing are pointers never set:
their text is some `Garbage`, or the process dies (`LoadDies`). `CanInit` is
`can_init`, with the interface that each socket is bound to: if `ioctl` fails, the
index in `ifr` is that of the call before. `StartWorkers` is `main.c:376-395`: for
two CANs the struct with the arguments is overwritten for the second thread while
the first may not have read it, or only the half of it, so the first worker gets
any mixture of the two (`CanControl` has the interleaving of these steps,
`OverwriteArg` and `TakeArg`, and what comes of it).

### ArrayAccess

`mainpc` goes from `StartUp`'s `load`, `can` and `threads` through the first INIT
(`clear`, `mac`) to `done`, or to `dead`. `lpc` follows the listener: `arm` (loads A0
and the name), `select`, `dispatch`, `beat`. `ppc` follows the processor of the
frame on hand. One that writes A4 or A5 goes to `waiting` and leaves the place to
the next frame: `g_mutex` may be held for a session. `Lock` and `LockedByte` are
its return, at any time, `locked`, `lw` and `lpos` its state. `Reset` is a CAN
worker at the end of a command; it holds `g_mutex`, so it waits for a write of A4
or A5, but not for a read, which takes no lock.

A write is carried out byte by byte, and nothing keeps it within its array:
`Stored` is one byte of the memory in which the arrays lie one behind the other.
What lies behind A5 is not modelled; a byte written there may end the process
(`WriteDies`). `latest` is history: what the arrays should hold by the file and the
writes handled so far. `seen` is history: the values that the array an answer is
built from has had since the answer was begun, or nothing once a processor with
`g_mutex` has begun to write it, as the answer may then be of both.

The server waits for an answer, or for as long as a frame takes that has none,
before it sends another, and sends nothing before the board has announced itself
with its first INIT. So a select that times out (`Timeout`) finds the frame
before handled, as the interval is at least 3 s and starts when the frame is
handed over; or its processor waits for `g_mutex`, which `waiting` stands for; or,
for up to 20 s and more, for the acks of a download, which touches none of this
state (`FileDownload`). An answer or a name that is too long for its buffer ends
the process (`ReadDies`, `ArmDies`) or is cut; `Fits` and `NameFits` say when it is
not.

### FindFile

`Judge` is the case FND_FILE up to the flags, `Decline` the same for another
MAC; in both the name may be misread, as neither copy of it ends with a NUL.
`Open` is `findfile` up to `opendir`; as no directory is ever closed, the process
has only `MaxOpen` such searches, after which `OpenFails`. `Visit` is one turn of
the loop over `readdir`, `Close` the end of `findfile`, `Send` the rest. `Store`
stands for the threads that write reports and logs, under the names `LogName`,
`DatName` and `IdDatName`; `handleDelFile` is a processor that the server has told
to delete a file (`AskDelete`). What `readdir` has still to return may or may not follow
them. `stable` and `there` are history: the files stored all the time, or at
some time, of the search; they say so also of one that could not open its
directory. Times are hours of one year, with the month one too
large as `filenametosecond` has it. The server waits for its answer: two
handlers at once would share every global, and the code promises nothing.

### V2Frame

One variable for the caller's buffer and one for the return value. Bytes are
unsigned, as `char` is on ARM. The content is not modelled, its length is.

## 3. Runs

| run | instance | shows |
|---|---|---|
| `can_control` | both CANs, 2 processors, 3 posts among 4 frames (P2P, broadcast, parameters only, unknown mode), CAN2 pending at the start, 1 spurious wake-up | exclusion, stable parameters, no lost wake-up, `CommandSlots` implemented, served, writers proceed |
| `can_control_lost` | one CAN, one post | *violated*: a command posted while no worker waits stays |
| `can_session` | 2 buses, 3 devices, 6 kinds of command, 3 sessions, 3 frames | the list, complete reports, collections awaited, sessions end |
| `session_stale` | the same | *violated*: a report with a frame of an earlier session |
| `tcp_server` | 3 hosts, 2 places, 2 descriptors, 1 queued frame; hosts read their answers or not | table, maximum, no blocking `recv`; hosts received and places reclaimed unless `main` is stuck in `send` |
| `uart_link` | 3 frames of any of three types, at any time; one heartbeat or answer | for a server that waits, the shared buffer is a queue and the log marks frames right; for any, the flag is set for each ack and the newest frame is handled |
| `uart_link_shared` | the same | *violated*: a frame is never logged |
| `download` | 2 downloads, also at the same time, of 0, 2 and 3 bytes; acks late or lost; counters 0, 1, 3 | order, completeness and an end in every case; orderly: stop-and-wait, ended for cause |
| `upload` | 3 uploads among contents of 1, 2 and 3 bytes, good and refused names, 1 frame that comes while another is handled; a buffer of 4 bytes | buffer and pointer follow, a refused upload spoils one at most, the end of the buffer passed only in such a one or one too large, uploads kept, all written |
| `arrays` | 5 files (2 well-formed, one missing, one cut short, one with rows too long), 3 frames; intervals below, within and above the bounds; a write longer than A5 | file loaded, CANs on their buses, MAC, current frames, interval, heartbeats |
| `find_file` | 3 requests among 6, 8 files of three kinds, 1 file stored or deleted; 2 directories can be opened | the answer was there, is wanted and closest; found if there and looked for; flags reset |
| `v2_frame` | lengths around 10, 255, 510, sequence numbers around 256 | declared length, readers |

Why the bounds are enough. *can_control*: the interesting cases are a post
while the worker starts, waits, is woken or is in a session, two posts for the
same CAN, and posts for both; three posts on top of the pending command give
all of these at once. *can_session*: two sessions are needed for a frame left
over or late, a third for one whose cause is two sessions back; three frames
give a broadcast an answer of each device and one more. *tcp_server*: three
hosts for two places fill the table, and a place is freed while the loop is
before, at and behind it. *uart_link*: one frame is being read by a processor
while the next is written over it and a third follows. *download*: a frame is
2 bytes and a wait 2 polls; the three lengths are an empty frame, a full one with an empty one and a
full one with a short one; the second download
shows what the first leaves behind, or takes its flags; the counter starts at
0, one below the limit, or behind it. *upload*: a frame is 2 bytes;
three uploads give a good one after a refused one after any; the buffer holds one
of 2 bytes with the NUL behind it, not one of 3 and not two, so its end is passed
by the copy, by the NUL and by the reading for the file. *arrays*: a byte has
four values, a row 2 or 6 bytes, an answer 6; one frame opens the session, and a
write and a read, or two writes, follow; intervals differ in one and in both
bytes, so a load between the two writes gives a value that is neither; a worker
resets a mode byte of the file, or of a write, before, in or after a reading; a
write of A5 gets `g_mutex` before, in or after a reading of it, or of another, and
its third byte lies behind the array.
A fourth frame would only repeat one of these steps on other values. *find_file*: three files of a kind in
one month for the choice among them, three logs in three months for the
distance, two ids; the second request meets what the first left, the third one
finds no descriptor left.

### Fairness

Weak fairness for each thread that can run (`main`, workers, processors, the
listener): the scheduler runs a runnable thread. A thread that wants `g_mutex`
is *not* assumed to get it whenever it is free: `WriterProceeds` and
`SignalledCommandServed` hold because a finite number of posts causes a finite
number of sessions (`MaxPosts`, the same with `MaxSpurious`). Under an endless
flood of posts the code promises nothing here, and neither does the model.
External parties are never forced to send, except: a device that collects a
wave reports (`ReportCollected`, by the 60 s of the code), and the server takes
frames from the line (`Serve`). TCP hosts are not: one need not read what it is
sent, so `FramesReceived` and `PlacesReclaimed` except a `main` that stays in `send`
for ever (`MCTcpServerStalled` shows that they must).
`SessionEnds` needs devices to stop some day: the code starts its timeout anew
with every frame, so a device that never stops keeps the session, and the
mutex; the bound `MaxFrames` stands for that assumption. In `arrays` the
heartbeat needs the server to fall silent (`MaxFrames`), for the same reason.

`CHECK_DEADLOCK FALSE` stands in the runs of systems that may rest: no post, no
host, no frame, no request. The other models have an explicit `Finished` or never rest.

## 4. Proofs

All theorems hold for every value of the constants that satisfies the module's
named assumptions: any number of processors, posts, hosts, places, devices,
sessions, frames, files, bytes of an array. Two have a hypothesis of their own:
`FramesAreCurrent` and `StartsConfigured`; each is named below, with the
configuration that shows what happens without it. TLC finds no violation of the
inductive invariants named below on the instances of the runs (but for the type of
`written` in `FileUpload`, a set it cannot enumerate).

**CanControl.** `TypeCorrect`; `CriticalSectionsExclude` (`MutualExclusion` is
inductive given the types, as it says which thread owns the mutex and not only
that two do not). `SessionsAreStable` needs to know that a job is that of the
worker's own CAN and that the control bytes are still those the job began with,
while the worker is in `session` or `reset` (`SessionInv`). `WakeupsAreNotLost`
is inductive together with exclusion and with `StartOrder` (no thread runs
before `main` creates it): a worker between its wake-up and its reset is on its
way to the command, and only it can leave that stretch by emptying the slot.
`ThreadsImplementSlots` maps each action to a step of `CommandSlots` or to none,
from these invariants: `WriteArr` to `Post`, `Dispatch` to `Take`, `Reset` to
`Finish` or `Discard`.

**CanSession.** `ListHoldsTheSession`: the list is the frames of the session
behind at most one old one. `CollectionsAreAwaited`, from an invariant that
`isWaveFinished` is set by a frame of this session with first byte 2.
`ReportsAreComplete`, the promise of the component: `SelectFollows` says that
what `GetCanFramesById` picks from the list follows, by at most one frame, what
it would pick from the session's own frames; `BroadcastIs` that the walk over
the device list leaves a line for each device with frames; `ReportIs` puts both
together for each kind of command. `SessionTyped` rests on the same lemmas, and
on requests being numbered by sessions (`AskedType`).

**TcpServer.** `TableStaysConsistent`, from `TableInv` (types, the agreement,
and that the place being replied to is taken). `RoomMeansFreePlace`: the search
of `accept` for a free place succeeds, a counting argument from the agreement of
count and table; the code relies on it without a check. `RecvNeverBlocks`, from
`ReadyInv`: of the places the loop has still to visit, those in the set of the
last `select` are readable, whatever was accepted, removed or closed since.
`SelectSeesAll`: `max_fd` finds a largest descriptor (`MaxOfIs`), and is computed
anew by every step that changes the table. `ServerTyped`.

**UartLink.** Two invariants hold whatever the server does: `LineInv` (the
listener reads the halves of the frames in order, and has what it reads in the
buffer when it dispatches) and `CountInv` (each processor started has a frame to
log or answer, or has done so; each frame logged is handled or will be).
`AcksAllReachDownload` follows from them alone. `QueueWhenCalm` needs `CalmInv`:
when each frame comes after the one before was handled, at most one processor
is at work, on the newest frame, which is whole in the buffer; what has been
logged and handled is counted by the frames sent (`CalmCounts`); and the mark is
"R" while a frame received waits to be logged, "T" while one sent does
(`CalmMarks`). The counting is why `QueueIfCalm` is stated by numbers of frames.

**FileDownload.** `FramesStayInOrder` is about any number of downloads at once.
Its invariant `FrameInv` chains the frames of each download on the line: the
first begins where the server is, each where the one before ends, the last ends
where the program is (`Chained`), and a short frame is the last (`ShortIsLast`).
`SendsOneAtATime` and `EndsTruthfully` come from `OrderlyInv`: one download runs,
and at each place of its wait the frame is unanswered, its ack has come, or it
is lost, and both flags are clean exactly where the next frame relies on it.

**FileUpload.** `UploadTyped` is more than types, and says it of any number of
threads at work, of contents of any length and of a pointer that may be anywhere:
each data frame gets one ack and each upload at most one file. It counts the
threads still to ack and those still to write (`ThreadInv`). `BufferStaysInStep`
and `UploadsAreKept` come from `CalmInv`, which follows the one thread that can be
at work through its steps (`Stage`), says what pointer, buffer and name are when
none is (`Rest`), that the uploads done so far are kept (`Kept`), and that a thread
has gone past the end of the buffer only behind a refused upload or in one that
is too large by itself (`Excused`).

**FindFile.** `FindTyped`. `FlagsInv`: exactly the flag of the kind asked for is
set, and only during the search. `BestInv`: of the files looked at, none that was
stored all the time is closer than the candidate. From it `AnswerStaysClosest`,
with a lemma that the code's distance differs from the real one by no more than
months differ in length, and `SearchFindsAny`, for every build and every number of
searches. What it promises is limited by `FoundIfAny` itself: not after `MaxOpen`
searches, and for logs not where the linker puts `minlog` behind `logname`.

**StartUp.** `StartsConfigured` is about every file that is well-formed, with any
number of blank lines anywhere in it. By induction over its lines, `LineRead`
says what the loop has taken when it has passed the k-th line that is not
blank (`ReadTo`); the eighth row taken is then the row of the eighth array
(`BufIs`). The texts are laid out in one memory, where each could run into the
next: `OffsetsRise` and `FilledIs` say that a text no longer than its row does
not. That each socket is on its own interface is carried from `CanInit` to
`StartWorkers` (`OwnBus`). The hypothesis is that both CAN interfaces are present;
without it `MCArrayAccessOneCan` shows a socket bound to the wrong bus.

**ArrayAccess.** `Inv` holds whatever is in the file and whatever the server
writes, at any index and of any length. It says that what is in the arrays are
bytes (`FormInv`); that listener, processor and server take turns on a frame
(`Turns`); that only writes of A4 and A5 wait for `g_mutex` (`Writers`); that nothing
is received before the board has announced itself (`Quiet`); and that `g_mac` is
missing only while `main` starts or a REQUEST is handled (`MacKnown`). `ArraysTyped`
follows from it.

`FramesAreCurrent` needs `CurrentInv` as well. The writes under way, one without
and one with `g_mutex`, have still to carry out their bytes and nothing else
(`WritesCurrent`); while an array is read that no processor with `g_mutex` has
begun to write, it changes at most in its mode byte, which a CAN worker resets,
so that what has been read is a prefix of a value the array had (`ReadCurrent`);
the name the listener holds is that of A1, whose bytes behind AS and SS nobody
writes (`NameLoaded`). It has the hypothesis `WritesFit`: writes that are accepted
begin at byte 0 and stay within their array, or go on behind A5, where no array
is. Both are needed. The loop of `handleWrArr` ends at `wr_len` and not at
`index + wr_len` (`uart.c:605`), so other writes are carried out in part or not at
all, as `MCArrayAccessSingle` shows; and it does not know where the array ends
(`MCArrayAccessLong`): a long write of A0 sets AS, SS and the name. That a frame
carries the MAC rests on turns, that is on the server and on intervals of 3 s and
more, not on a lock. `NameFits` has a clause that the proof asked for and no
instance had: the name is copied as two texts, so a NUL in the ID cuts the ID
and leaves the station, and the name of the heartbeat is not that of A1.

**V2Frame** (in `TcpServerProofs`, whose server sends these frames).
`LengthsAreDeclared`, for data frames of up to 500 bytes (above,
the two bytes wrap) and for the others with the 10 bytes every caller passes;
`ReadersAcceptAll`, for all lengths and all sequence numbers, negative ones
included.

**Recursion.** The provers have no induction rule that takes a formula. The
lemma `Induction` states induction for a set in its place and derives it from the
pigeonhole principle of the library; from it come that a set of natural numbers
has a least member, that a walk defined by recursion exists and has the type of
its steps (`WalkExists`), and what the walks of `CanSession` and `StartUp` compute.
The models
that are proved about define such walks as recursive functions, not with
`SelectSeq`, which the provers cannot unfold.

**Only model-checked.** Liveness, which is out of the prover's reach:
`SignalledCommandServed`, `WriterProceeds`, `SessionEnds`, `FramesReceived`,
`PlacesReclaimed`, `NewestIsHandled`, `DownloadsEnd`, `IntervalTakesEffect` and
`HeartbeatsContinue`. Every other property of a run that passes is a theorem.

## 5. Known deviations

Three runs check what a comment of the source says and find it false:

- `can_control_lost`: "wake the CAN's worker thread" (`uart.c:626`). The worker
  waits without testing the mode byte first (`main.c:266`), so a command that
  arrives while it starts waits for the next broadcast. (Not one that comes
  during a session: its processor waits for `g_mutex` until the worker waits again.)
- `session_stale`: "clear the list" (`can.c:563`). `Linkedlist_clear` keeps the
  head (`can.c:78`), and the next session reports it.
- `uart_link_shared`: "all interactive frames the server sends must be written
  to the log" (`uart.c:1098`). The buffer is overwritten (`uart.c:1180`).

Further configurations, each with one property that fails for the reason given,
are kept for whoever changes that code. They are not among the runs. Where a
configuration stands for several properties, it names the first; the others are
found false when put in its place.

| configuration | property | reason |
|---|---|---|
| `MCCanControlArgs` | `EachCanHasItsWorker` | `main.c:391`: the first worker may read the arguments meant for the second |
| `MCCanSessionSilent` | `ReturnsWithoutAnswer` | `can.c:78`: NULL head when no frame was ever received |
| `MCCanSessionWave` | `WaveOfOneDevice` | `can.c:522`: the whole list goes into the file of one device |
| the same | `WaveTypeInRange` | `can.c:513`: `canFrames[len - 1]` with `len` 0; the type is static |
| the same | `FinishedMeansCollected` | `can.c:588`: any frame with first byte 2 counts |
| `MCTcpServerCoalesced` | `RequestsAnswered` | `main.c:490`: only the first frame `recv` returns is looked at |
| `MCTcpServerStalled` | `HostsServedApart` | `main.c:525`: `send` waits for a host that does not read its answers |
| `MCUartLinkShared` | `ReceivedMarked` | `uart.c:384`: the mark is that of the frame read or sent last by any thread |
| `MCUartLinkShort` | `FramesAligned` | `uart.c:193`: the result of `read` is not used |
| `MCFileDownloadWait` | `GivesUpAfterFullWait` | `uart.c:668`: `cnt` is not initialized |
| `MCFileUploadFile` | `FileEndsWithUpload` | `uart.c:870`: the NUL is stored one byte too far |
| the same | `FileSurvivesRefusal` | `uart.c:885`: returns without resetting the pointer |
| the same | `FileSurvivesHaste` | `uart.c:863`: the ack goes out before the copy |
| `MCFileUploadOverrun` | `NeverOverruns` | `uart.c:864`: uploads of the allowed size go past the end behind a refused one |
| `MCFindFileMonths` | `ClosestByDate` | `uart.c:1209`: `tm_mon` is given the month from 1 on, not from 0 |
| `MCFindFileBehind` | `FoundAnyway` | `uart.c:1254`: the NUL behind `logname` may be the first byte of `minlog` |
| `MCFindFileLeak` | `FoundAnyway` | `uart.c:1274`: no directory is closed, so in the end `opendir` fails |
| `MCArrayAccessOrder` | `AnyOrderLoads` | `main.c:208`: rows are taken by position, whatever section they are in |
| `MCArrayAccessOneCan` | `StartsAsConfigured` | `can.c:147`: without `can1` the socket of CAN2 is bound to `can0` |
| `MCArrayAccessSingle` | `WritesCarriedOut` | `uart.c:605`: the loop ends at `wr_len`, not at `index + wr_len` |
| `MCArrayAccessLong` | `WritesCarriedOut` | `uart.c:596`: `wr_len` is not compared with the length of A0 |
| `MCArrayAccessTorn` | `AnswersWhole` | `uart.c:562`: A5 is read without `g_mutex` while a processor writes it |

Noted while reading, in no model: acks go out with type 0xF2 (`uart.c:659`)
where the comment at 862 names another; `totle_len` is written and never read;
a timeout of a download leaks its buffer;
`ArrayAccess` shows, and no comment denies, that devices or a name too long for
their buffers end the process at the next answer or heartbeat.

## 6. Assumptions and abstractions

- The build of the Makefile (ARM, `char` unsigned, optimized). A data race or
  an uninitialized value is a choice among what that build can do.
- Files can be opened, except that `macstation.cfg` may not be there, and
  directories until the descriptors are used up by those never closed;
  `getMacAddr` works, threads can be created. A name the code refuses is
  modelled.
- The arrays lie in memory in the order of their declaration, with nothing
  between them. All texts that
  are no bytes, and all pointers never set, give the same `Garbage`.
- A restart loads the file anew: `ArrayAccess` is one life of the process. What
  the server wrote into the arrays before is not kept anywhere.
- `Overlap` bounds the threads of an upload that are at work when a frame is
  sent, `Sends` the heartbeats and answers in `UartLink`.
- The time zone has no daylight saving (`tm_isdst` is not initialized).
- A file is its bytes up to the first NUL; `handleRdFile` stops there.
- Identifiers, times, names and the layout of reports are left out; numbers of
  frames per device stay below the 128 and 1024 bytes of the code's buffers.
- Rows have the lengths of their declarations as far as this matters: A0 has two
  bytes, A1 holds an ID, and the rows of A1, A2 and A3 are as long as what
  an answer holds (`ArrayAssumption`). An answer stops where its frame is full.
- A write carries as many bytes as its `wr_len` says. In `CanControl` these are at
  most 4, the bytes A4 and A5 have (`FrameAssumption`); `uart.c:622` and `632` do not
  check that. `ArrayAccess` has writes of any length, also into the arrays behind.
- Uploads have any size. `file_data` is the only memory they are about: what lies
  behind it is not modelled.
- `ArrayAccess` has one processor at a time besides those that wait for `g_mutex`,
  and no select times out during the others: the server waits, and a frame that
  has no ack to wait for is handled within 3 s. `CanControl` has any number of
  processors.
- Reads of the serial port are whole frames (`VMIN`), except in `MCUartLinkShort`;
  what the properties of `UartLink` say, they say of such reads.
- A download or an upload is lost to a crash as the process is; nothing is
  resumed.

## 7. Plan

Done, in this order: `CanControl` with `CommandSlots` (the core: all that is
locked), `CanSession`, `TcpServer`, `UartLink`, `FileDownload`, `FileUpload`,
`ArrayAccess`, `FindFile`, `V2Frame`; `StartUp`, all arrays in `ArrayAccess`,
refused names, early frames and the end of the buffer in `FileUpload`, deleting
and lost descriptors in `FindFile`, the log's marks in `UartLink`, blocking answers
in `TcpServer`, the start of the workers in `StartUp`, processors that wait for
`g_mutex` and writes of any length in `ArrayAccess`; proofs of every safety and
action property of the runs that pass.

Next:

1. `UartLink`: the queue as an abstract specification that calm histories
   implement.
2. `CanSystem`: `CanControl` and `CanSession` composed, the session's steps in
   place of `EndSession`; a session's parameters are those the server posted.
3. `save_upload`, if it is ever built.
