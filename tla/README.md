# A TLA+ model of dserve

dserve is a small download server in C. A client (`dsclient`) sends a request
over TCP; `dsserver` keeps a queue of downloads and runs each in a thread with
libcurl. This directory holds TLA+ modules of its core, TLC configurations that
check them on small instances, and proofs for all instances that TLAPS checks.
Paths below are relative to `src/src/` of the repository.

## 1. The system

```
 dsclient ──TCP──▶ server process        input queue       controller process
 dsclient ──TCP──▶ server process   ──▶ (System V)   ──▶   main loop ── list of entries
    ...            (one fork per              output queue        │  └─ list of threads
                    connection)    ◀──  (System V)   ◀──          └─ one thread per download
```

| component | state | operations | how it meets the others |
|---|---|---|---|
| download queue, `server/downstream/queue.c`, `common/entry.h` | the list of entries; status, name and url of each | add, status, pause, cancel, restart, the update loop, save, load | called by the controller loop; calls the download manager; shares `entry->status` with the threads |
| download manager, `server/downstream/downloadmanager.c` | the list of `download_thread_t`; the running threads | start, pause, cancel, the thread's `download_file`, progress callback | threads store STARTED and COMPLETED into entries without a lock |
| linked list, `common/list.c`, `common/node.c` | nodes on the heap, `root` | append, insert, remove by position or by match, traversals | both lists above |
| controller loop, `server/downstream/controller.c` | the request at hand, `response` on its stack; the index file `.download.idx` | load, read, dispatch, answer; save and exit on a signal | reads the input queue, writes the output queue; its handler pauses threads |
| server processes, `server/upstream/server.c` | one per connection | read a transaction, pass it on, relay replies | write the input queue; all read the one output queue |
| message queues, `common/util.c` | two bounded System V queues | send with retries, blocking read | kept by the kernel across restarts |
| connections, `common/network/connection.c` | a socket | connect, accept, read with a timeout, send without waiting | client and server processes |
| client, `client/dsclient.c` | options, one transaction | one request, or status requests in a loop | prints what the replies say, exits with success or failure |
| options, `common/options.c`, the `main` functions | `options_t`, a configuration file for each program | load, create with defaults, arguments, `--init` | every part reads them |
| transactions, `common/transaction.c` | none | fills in a reply under a stack mutex | all |
| messenger, paths and logs, `common/ssl` | log files | I/O | not modelled, see section 8 |

What is hard here: threads and handlers that write one status field; lists whose
root may be freed memory; several waiting processes on one queue of replies
without addresses; bounded queues whose senders give up; clients that leave;
a controller that dies and comes back; uninitialised mutexes, results and
responses; a queue saved inside a signal handler while its threads run on, or while a
second signal saves it again; files that several transfers, entries and even URLs
append to through buffers of their own; transactions that
TCP delivers in parts; connections that stay open because other processes have
inherited them. `PROJECT.json` lists each of these hazards at its line, with the
properties that would notice it going wrong.

What makes each component correct:

- *queue*: names are unique, so that requests reach every entry; a status says
  the truth about the transfer; a transfer starts if and only if it was asked
  for and a slot is free.
- *download manager*: every running transfer can be found and stopped; a stopped
  one ends; no more run than the limit.
- *list*: an operation on pointers is the operation on a sequence.
- *lives of the controller*: what one process saved is what the next one has in its
  queue, and what waited, and only that, is taken up again.
- *file*: it is a beginning of what the server has, however often the transfer was
  interrupted, and what was received is in it when the download says COMPLETED.
- *connection*: a request arrives as it was sent; success is what the server said; a
  client ends.
- *options*: what the file says is what the program runs with, and nothing else
  does but defaults and arguments.
- *pipeline*: every request gets its replies, its own, or the loss is accounted
  for; nobody waits for ever.

## 2. The modules

| module | models | extends |
|---|---|---|
| `Lists` | `list_t` as a sequence, with the freed root as a flag | |
| `ListSpec` | what a list may do, as an abstract specification | `Lists` |
| `LinkedList` | `list.c` and `node.c`, pointer by pointer | refines `ListSpec` |
| `DownloadQueue` | queue, download manager, dispatch | `Lists` |
| `RequestPipeline` | clients, server processes, the two queues, the main loop, restarts | |
| `ControllerLifecycle` | load, serve, save, die and start again | `DownloadQueue` |
| `DownloadFile` | the file of a URL, whoever shares it, its transfers and the figures of an entry | |
| `Connection` | one client, its connection, its server process | |
| `Settings` | configuration file, defaults, arguments, `--init` | |
| `ListsProofs` | lemmas about the operators of `Lists` | `Lists` |
| `DownloadQueueProofs`, `LinkedListProofs`, `RequestPipelineProofs`, `ControllerLifecycleProofs`, `DownloadFileProofs`, `ConnectionProofs`, `SettingsProofs` | the theorems of section 5 | the module each is about; the first two `ListsProofs`, `ControllerLifecycleProofs` also `DownloadQueueProofs` |
| `MC*` | symmetry sets, and in one a constraint, for TLC | |

`DownloadQueue` and `RequestPipeline` cut the system at the controller's dispatch.
A request is one atomic arrival in `DownloadQueue`, which is about what it does to
the downloads; in `RequestPipeline` it is a message that travels, and its effect
is the status of its answer and the number of PROCESSING lines before it.
`ControllerLifecycle` composes `DownloadQueue` with the index file: every one of its
steps is a step of `DownloadQueue`, a step of the handler over the same state, or the
end or the start of a process. `Connection` looks at the other end of `RequestPipeline`:
there a read finds a whole transaction or nothing, here it is shown when that is so.
`DownloadFile` takes from `DownloadQueue` only that a download may have several
threads, and its file several downloads, at any time.

### DownloadQueue

The main thread's state is `pc` with the locals `arg`, `seen` (what the switch of
a handler read) and `pos` (the node of the update loop). Each thread's is `phase`:
`opening` before `entry->status = STARTED`, `performing` up to COMPLETED, then
`ended`. Requests are cut into steps only where a thread can change a status in
between:

| code | actions |
|---|---|
| `queue_add` | `AddRefused`, `AddAccepted`, `AddOverruns`, `AddBlocks` |
| `queue_update` in `list_for_each` | `UpdateSkip`, `DownloadStart`, `DownloadStartFails`, `MarkStarting`, `UpdateDone` |
| `queue_pause`, `download_pause` | `PauseFound`, then `PauseIdle`, `PauseThread` or `PauseWithoutThread` |
| `queue_cancel`, `download_cancel` | `CancelFound`, then `CancelIdle`, `CancelThread` or `CancelWithoutThread` |
| `queue_restart` | `RestartFound`, `RestartApply`, then the update loop |
| not in the queue | `NotFound` |
| `queue_status`, an unknown command | `QueueStatus`, `Unknown` |
| a thread | `ThreadStarted`, `OpenFails`, `ThreadCompletes`, `ThreadCancelled` |
| walks over freed nodes and NULL data | `QueueFault`, `ThreadListFault` |

Undefined behaviour is a choice among what the build can do: `queue_entry_exists`
returns either boolean when it finds nothing; a lock of an uninitialised mutex may
block for ever (`MutexMayBlock`); a walk over freed memory goes on with the old
words, crashes or never ends; `entry_set_target`, which copies 1536 bytes over the
512 of `url`, may kill the process; the response to an unknown command is what the
stack holds. `malloc` and `pthread_create` may fail at any call of `download_start` and
succeed at the next (`DownloadStartFails`): the thread list then has a NULL, and the entry
says STARTING. A call of the messenger may block on its mutex too: to the model that
is a process that takes no further step, which every behaviour of `Spec` may do.

### LinkedList and Lists

`list_remove_item` never moves `list->root`. `LinkedList` keeps the words of freed nodes
until their address is allocated again and shows that, seen through traversals, all that
can happen is what `Lists` says: the removed item stays visible, alone; an append hangs
a node on it, or takes its address and drops the rest, or closes a cycle. A traversal is
`Hops`, the node after each number of hops, and `PathOf`, the nodes up to its end or to
where a cycle begins. `DownloadQueue` uses those operators for its two lists. Memory
freed from a list and then allocated for something else is a crash in `DownloadQueue`
(`QueueFault`, `ThreadListFault`); that a new `download_thread_t` takes the address of a
freed one that is still in the list is not modelled. Counting the entries that are
STARTED is one step (`CountStarted`); in the code, threads that store two statuses while
it walks the queue may make the sum one that held at no moment, on which no property
depends.

### RequestPipeline

| code | actions |
|---|---|
| `run_server`, `connection_accept` | `Accept` |
| `process_request` of `server.c` | `ReadRequest`, `ReadNothing`, `SendRequest`, `Relay` |
| `send_message_local` | one attempt per step in `SendRequest`, `Retry`, `SendLine`, `SendAnswer` |
| main loop, `queue_status` | `TakeRequest`, `SendLine`, `SendAnswer` |
| signals, crashes, another `dsserver` | `ControllerStops`, `StartController` |
| `dsclient` | `ReadRequest` (its send and the read are one step), `ClientCloses` |

`peer` tells why a process may die while it relays: the first send to a client
that left brings a reset, the next a SIGPIPE. A request that a client left in its socket
when it went away is not read any more. `lost` and `overlapped` are history.

### ControllerLifecycle

| code | actions |
|---|---|
| `queue_load` | `Start` (the lines), `Loading` (its update loop) |
| `install_signal_handler` | `InstallHandlers` |
| main loop | `Serving` (`Request` and `HandlerStep` of `DownloadQueue`) |
| download threads | `Downloading`, in all modes but `down` |
| `termination_handler`, up to `fopen` | `Terminate`, `TerminateUnsaved`, `TerminateSticks` |
| `queue_data_save`, once per entry | `SaveRead`, `SaveMark`, `SavePrint` |
| `fclose`, `exit(0)` | `SaveDone` |
| a walk over freed nodes | `SaveHangs` |
| a second signal, and what comes of it | `SignalsTangle`, `TangledEnd` |
| SIGKILL, a fault, a signal before the handlers are there | `Die` |

The kernel gives a signal to the main thread as long as that does not block it. The
handler does not return, so the place it interrupted is forgotten (`Abandoned`), but for one thing: if the thread held the lock
of malloc or of a stream the handler needs, it waits for ever (`TerminateSticks`, at
any time, before or after the index is truncated). Download threads go on: a status may
change between the three steps of an entry. A thread that is opening its file stores
STARTED without a cancellation point before it; that may come after the handler's
WAITING and before the line is printed, and the line then says STARTED. The next
process transfers nothing for such a line, and a restart refuses it. `Outcomes`
admits this one case and no other. A line keeps the URL but not the name a client
gave; `BaseName` is `get_name_from_url`. Two URLs may end in the same name: that is how
loaded entries come to share one, which a client cannot bring about.

`sa_mask` is empty and no thread blocks anything. A second signal of another kind runs
`termination_handler` inside the first, and one of the same kind runs it in a download
thread; either opens the index again. The first may have called `download_pause` and not
yet stored WAITING, so that the second prints PAUSED; two of them write lines over each
other's. What is in the file then is any sequence of lines (`Tangles`), with a URL
clients gave or text that is none, and at most as many as there are entries; the process
ends when one of the handlers calls `exit`. The next life starts from such an index like
from any other; `tangled` remembers that no property says what it has to do with the
queue.

`queue_load` appends an entry before it has read a line, so an index without lines gives
one entry without a URL (`Lines`). When that one is saved, its line has two blanks where
the URL should be. `%s` skips both and takes the size for a URL (`UrlOf`, `StrayUrl`),
every field after it moves up one, and the last `%li` goes on into the next line, where
it takes the digits a name begins with (`Digitless`, `NamesOf`). Its status
is saved as WAITING, whether or not a thread tried to open its file, so each life starts
a download of nothing that nobody asked for. `entry_new` or `list_append` may find no memory, and what was read by
then is served without the update loop (`n` in `Start`).

### DownloadFile

| code | actions |
|---|---|
| `download_start` | `Create` |
| `open_file` | `OpenFails`, `Open`, `Seek` |
| `curl_easy_perform`, `fwrite` | `Receive`, `ReceivePage`, `Return` |
| `progress_callback` | `Progress` |
| `fclose`, COMPLETED | `Close`, `Complete` |
| a full buffer, `fflush(NULL)` in the main loop, `exit` | `Flush` |
| `pthread_cancel` by pause or save, and the point it takes effect | `Stop`, `ActOnCancel` |
| `download_cancel`, `delete_file` | `Delete`, of another entry with the URL `DeleteOther` |
| a download of another URL that ends in the same name, and its cancel | `WriteForeign`, `DeleteForeign` |
| `queue_save`, another process | `Save`, `Restart` |

A FILE that a cancelled thread leaves open keeps its buffer, and whoever flushes all
streams writes it: after another transfer of the same download has measured the
file, perhaps. `overlapped` remembers that this could happen, and that two threads
had the file at a time; `spoiled` that an error page was written as data. The properties
about the contents are for files without either; with them they are false.

The file has the name of the last part of the URL, and `queue_add` compares the names of
requests and nothing else. Two entries may have the same URL: their threads are
those of `Create`, with `own` for the entry whose figures are followed, and both
append to the one file; that one resumes where the other ended leaves it as
it should be. A cancel of the other one removes the file and leaves the figures
(`DeleteOther`), after which a transfer that begins anew has more to receive than the size
says: `outdated` remembers this, and `stale` the same of the figures in the index. Two
URLs may end in the same part: then the file is made of both (`WriteForeign`), and `mixed`
remembers it. While a file has been unlinked and another one has its name, a thread
resumes where its own, nameless one ends, which may be anywhere (`ResumeFrom`).

Assumed of what is outside: the server tells the length of its file and always has
the same one; nothing is written of the body of an answer to a range beyond the end, and
a server without ranges makes a resumed transfer fail; writing and closing a file do
not fail; a buffer holds at least one block.

### Connection

| code | actions |
|---|---|
| `run` of `dsclient.c`, `connection_new`, `connection_connect` | `Connect` |
| `default_send_receive`, `status_command` | `Send`, then `ReadReply`, `ReadEnd` or `TimeOut`; `Finish` |
| `run_server`: `connection_accept`, `fork` | `Accept` |
| `process_request` of `server.c` | `ReadRequest`, `EndRequests`, `Relay` |
| other processes of the server | `OthersChange`, `AcceptorStops` |

A transaction is two parts. `send` with MSG_DONTWAIT puts into the buffers what they have
room for, and `recvfrom` takes one or both parts of what is there; anything but both is an
error. `status_command` looks at `reply.status` whatever `connection_read`
returned. A timeout leaves it alone, and the end of the connection finds it
zeroed by the `memset` before `recvfrom`: this is why closing the connection ends such a
client and silence need not. The server's end is closed when the acceptor (which never
closes a descriptor), the process forked for the client, and all those forked later
are gone.

### Settings

| code | actions |
|---|---|
| `options_new`, `malloc` | `Start` |
| `options_new_for_server`, `options_new_for_client` | `Load`, or `Create` and `FlushCreated` |
| `main`, up to `getopt_long` | `Settle` |
| an argument | `ParseArgument` |
| `options_save` and the return from `main` | `Save`, `FlushSaved` |
| `run` | `Run` |
| any end of a process; an editor | `Die`, `Edit` |

The value of an option is its default, another one, or garbage: what memory held. A text
may also be empty, or have a blank or more than 254 characters with its key: then
`%256s` and `fgets` give a part of it (`Scanned`). A line may have nothing that `sscanf`
converts; nobody looks at its result, and the option stays what it was (`Readable`). An
editor brings either about, but also `-H` with an empty text or one that has a blank,
together with `--init`, and a blank in `$HOME`, which the default directories start with.
Reading a flag with `%hi` writes the byte after it too (`ReadFlag`), in the order
`keep_alive`, `quiet`, `debug` of `options_t`. The stack mutexes of
`options.c` may block; a process that is killed for it is `Die`.

## 3. Runs

| run | shows |
|---|---|
| `Queue_safety` | type invariant, `UniqueNames`, `StartedHasTransfer`, `Findable`, `StartsAreAsked`, `StopReaches`, `CancelRemoves` |
| `Queue_live` | `HandlerReturns`, `EnoughSlots`, `ForgottenTransfersEnd` |
| `List_refines` | `LinkedList` implements `ListSpec`; `WellLinked` until the first node is unlinked |
| `Pipeline_replies` | type invariant, `Conservation`, `RequestsFit`, `RepliesFit`, `SerialRepliesMatch`, `WaitsEnd` |
| `Lifecycle_restarts` | type invariant, `IndexTellsQueue`, `SurvivesRestart`, `ResumesBeforeServing`, `AskedInEachLife` over three lives of the controller |
| `File_contents` | `ResumesWhereItEnds`, `CompletedIsOnDisk`, `ProgressFits` |
| `Connection_streams` | `DispatchesRequests`, `SuccessIsTold`; under fairness `UntoldClientEnds`, `ClosedEndsClient` |
| `Settings_load` | `RunsInitialised`, `LoadsEachLine`, for both programs |
| `Queue_limit`, `Queue_pause`, `Queue_waiting`, `Pipeline_mismatch` | a promise of a document, comment or message that the code breaks (section 4) |

**Bounds.** `Queue_safety`: two entries, two threads, one ordinary name and the empty
one (a client that gives no `--name` sends it), one slot, all six commands. Two entries
and two threads are what the hazards need: a second thread on one entry, an append after
the removal of the first node, a start over the limit, and threads that run out.
`MaxThreadList` stops RESTART when the thread list holds more nodes than that: only a
restart can lengthen it without using up an entry or a thread (`DownloadStartFails`
appends NULL each time). `Queue_live` has two names and two slots, mutexes that may
block and threads whose creation may fail at any call, and leaves RESTART out, since a
second thread on an entry is `Queue_safety`'s matter. `List_refines`: four nodes and
three data values, so that there are a first, a middle and a last node and one address
to be allocated again. `Pipeline_replies`: two connections, up to one line per status
report, two requests per keepalive connection, two attempts, and queues of 1, 2 and 4
messages: too small for both requests, exactly enough for them, exactly enough for all
replies. (Linux's default of 16384 bytes holds nine transactions.)

`Lifecycle_restarts`: two entries, two threads, two URLs with the same last part, a slot
for each, and three starts of the process, the first of which receives requests
(`MaxServing`): it makes any queue there can be of DOWNLOAD, PAUSE and CANCEL, the
second one loads it, may be interrupted at any point and saves again, and the third
loads what that left. Its names are one that both URLs end in, and one that stands for
the first without its digits and for the empty name. After a second signal the index has
at most one line per entry (`Tangles`). RESTART, which adds nothing to what an index may
say, is left out. The mutexes do not block here: a controller that is blocked gets no
further than to be killed, like one that is not (`Die`). TLC visits 2.6 million states,
in about a minute. `File_contents`: a file of two blocks, two threads, and three entries
or processes (`MaxLives`), so that a transfer can be cut in the middle, resumed, and
meet the leftovers of another; blocks of one transfer after the other are told apart by
their numbers. The three things that make a file an exception, `overlapped`, `spoiled`
and `mixed`, are not combined (`OneException` is a constraint of the run, not of the
proofs): each is there alone, with everything else. TLC visits 8.5 million states, in
about two minutes. `Connection_streams`: buffers of five parts hold two transactions and
a half, so that a send can be cut inside one, which takes a client with keepalive and a
server that is slow. `Settings_load` has no bound but the value classes, and options
that are read alike stand for each other (`port` for the number of downloads, `destdir`
for the directory of the logs): 7.4 million states.

**Deadlock** is not checked in the queue and list runs (`CHECK_DEADLOCK FALSE`):
a crashed, hung or blocked process, and one whose entries, threads and commands
are used up, does stop. Nor in `Lifecycle_restarts` and `File_contents`, which end with the
last process, and in `Connection_streams`, where the client ends.

**Symmetry** is used for addresses and processes in runs without liveness. Names and
URLs are not symmetric: one name may be the empty one, and URLs have the names they end in.

**Fairness.** In `DownloadQueue`, weak fairness of the main thread inside a handler
(nothing there waits for a thread) and of a cancelled thread's end (open, write,
select and poll are cancellation points, and a transfer makes them all the time).
None for transfers, which may hang, nor for clients. `PromptSpec` adds that files
open and transfers end, for the one run that shows that even then a waiting
download may not start. In `RequestPipeline`, weak fairness of the controller's
steps and of sending, which never block; strong fairness of `Relay`, because the
kernel serves waiting readers in their order; none for clients and restarts.
`WaitsEnd` therefore excuses a controller that is down; one that hangs or blocks in a
handler (`DownloadQueue`) is ruled out by the fairness of its steps. It also relies on
`MaxRequests`: a keepalive client that asks for ever may, with unlucky timing, take
every last reply and leave another client the lines. In `Connection`, weak fairness of
the client alone, whose calls wait for a timeout at most; the server, which may be out
of descriptors or processes, and the controller owe it nothing.

## 4. Where the code breaks its promises

Each is a run with `expect: violation`, and the finding in `PROJECT.json` quotes the line.

- `LimitRespected`: entries that are STARTING do not count against
  `server.downloads.max`.
- `PauseStops`: pausing an entry that is STARTING is answered with success and
  stops nothing.
- `WaitingStarts`: a free slot is noticed at the next DOWNLOAD or RESTART only.
- `OwnReplies`: replies reach whichever server process reads first.

Other things the models have and no run is spent on:

- a refused restart is answered with SUCCESS (`queue.c:500` overwrites the FAILURE;
  `RestartApply`);
- removing the first node of a list leaves `list->root` on freed memory (`ListRemove`);
- ten retries, 100 *micro*seconds apart, are not enough for a slow reader, and the
  last reply is dropped (`GivesUp`);
- an index without lines, which an empty queue leaves, is loaded as a download of
  nothing (`Lines`), the fields of whose line move up by one in the life after (`UrlOf`),
  and the name a client chose is replaced after a restart (`NamesOf`);
- a second signal while the queue is being saved leaves an index that may say anything
  (`SignalsTangle`);
- downloads share a file when their URLs end alike, and the cancel of one removes that of
  the others (`WriteForeign`, `DeleteOther`);
- options whose line cannot be read are uninitialised, and directories with a blank are cut
  (`Readable`, `Scanned`);
- a thread that cannot be created leaves a NULL in the thread list and an entry that
  says STARTING for good (`DownloadStartFails`);
- COMPLETED is stored whatever `curl_easy_perform` returned, also when it wrote an error
  page (`Return`, `ReceivePage`);
- a resumed download reports a size that is the first transfer's and a progress that is
  the present one's (`Progress`);
- `run` of `dsclient.c` returns EXIT_FAILURE as a bool, and the client exits with
  success (`Connect`);
- the server keeps every descriptor it accepted, so a client it has no process for is
  not told (`Accept`, `Open`);
- `server.connection.timeout`, `server.mode.quiet` and `server.mode.debug` of the
  repository's README.md (lines 70 to 75) are read from the file and then
  overwritten (`Finish`, `Settle`).

The properties that hold are stated as sharply as these permit: `Findable` up to the
first removal of a first node, `StartedHasTransfer` for entries started once,
`SerialRepliesMatch` for clients that wait for each other, `Conservation` with
every loss counted, `HandlerReturns` and `EnoughSlots` with what uninitialised mutexes and
broken lists may do, `IndexTellsQueue` for one signal and with the one status that comes
too late, `SurvivesRestart` and `AskedInEachLife` for URLs that clients gave,
`ResumesWhereItEnds` for transfers that do not overlap, of URLs that do not end alike,
`ProgressFits` unless another entry's cancel removed the file, `LoadsEachLine` for values
that can be read whole, `DispatchesRequests` unless a send was cut, by client or server.

## 5. What is proved

Every safety property and every action property that a passing run checks is also a
theorem, for all values of the constants that the module's named assumption admits, and
so is the refinement of `ListSpec`. In each module `Invariance` shows that the
inductive invariant at the end of the component's module (`IInv`, or `LifeIInv`)
always holds, `TypeCorrect` (`LifeTypeCorrect`) its type invariant, and the other
theorems follow from `Invariance`, but for those about every life of the controller,
which follow from `ServesInEachLife`.

| module | theorems | for |
|---|---|---|
| `DownloadQueueProofs` | `NamesAreUnique`, `StartedIsTrue`, `TransfersAreFindable`, `NoUnaskedStart`, `StopsReach`, `CancelTakesOut` | all entries and names, finitely many threads, any limit, mutexes that block or not |
| `LinkedListProofs` | `StaysLinked`, `Refinement` | finitely many addresses, any data |
| `RequestPipelineProofs` | `Conserved`, `RequestsAccepted`, `RepliesKept`, `SerialMatch` | finitely many connections, queues of any size, any number of retries, entries and requests |
| `ControllerLifecycleProofs` | `IndexIsTrue`, `QueueSurvives`, `ResumedFirst`, `FindableInEachLife`, `NoUnaskedStartInAnyLife`, `StopsReachInAnyLife`, `CancelTakesOutInAnyLife` | finitely many entries and threads, all URLs and file names, any number of lives |
| `DownloadFileProofs` | `NeverGapped`, `CompletedOnDisk`, `FiguresFit` | all threads, files of any size, any number of lives |
| `ConnectionProofs` | `RequestsWhole`, `SuccessHonest` | buffers of any size, every kind of client |
| `SettingsProofs` | `NoGarbage`, `LinesLoaded` | both programs, any number of processes |

The assumptions are types (`ConstantsAssumption`, `NodeAssumption`,
`PipelineAssumption`, `LifecycleAssumption`, `FileAssumption`, `ConnectionAssumption`,
`SettingsAssumption`): finite sets where the code can count them, numbers, and special
values such as `NULL` or `NoFile` that are none of the ordinary ones. The bounds that
keep TLC's instances small (`MaxThreadList`, `MaxStarts`, `MaxServing`, `MaxLives`,
`MaxRequests`) are any numbers in the theorems.

**DownloadQueue.** None of the properties is inductive alone. `StartedHasTransfer` needs
that nobody cancels the only thread of an entry before it has stored STARTED. A
handler cancels a thread only after its switch read STARTED, which may be long ago:
`SeenStarted` remembers that someone stored it, and if one thread was ever
created for the entry it was that one. `SingleThread` then says that the
only thread is not cancelled while opening, and that STARTED means it is still
performing. `StartsAreAsked` needs `WaitingIsWanted`: every WAITING entry was asked
for, but for the one whose thread is just being created; that in turn needs that only
the main thread stores WAITING, so that what a handler read as another status cannot
have become WAITING since. `HandledIsQueued` ties a handler's entry to the queue, and
`InUse` says that what is queued or running is an entry that was allocated. With
`UniqueNames`, `download_pause` on a name reaches a thread of that entry's name.
`Findable` rests on the facts about removal in `ListsProofs`: as long as no first
node was removed, a removal takes out the item it found and no other. `StopReaches` and
`CancelRemoves` are about one step but rest on all of this: the handler looks the thread
and the entry up by name after threads have run. `Findable` gives a match in the
thread list and so a first one (`FirstThreadExists`); it belongs to the handler's entry
by the premise that no other entry had the name, which a cancel and a new download of the
name break: the thread of the cancelled download stays in the list, and in front. With
`HandledIsQueued` and `UniqueNames` the second search for the entry comes to the one the
first search found.

**LinkedList.** `WellLinked` says nothing once the root has been unlinked, and is not
inductive without the nodes' being distinct. `LinkedBehindRoot` is what every
operation keeps: the `next` pointers lead through distinct nodes to NULL, behind the
root every `prev` leads back and every node is allocated, and the root itself is too
until it is unlinked. It breaks in one way only, when the new node gets the address of
a freed root without a successor: then `LeadsToItself`, and nothing more can happen.
What a traversal computes is shown by the least number of hops at which two traversals
differ (`SameHops`); there is none, so a list that the pointers lead through is the
path that the code walks (`PathOfList`). `UnlinkEffect` and `AppendEffect` say which
words of the heap an operation changes, `LeadsToRemaining` and `LeadsToAppended` which
list the pointers then lead through. `UnlinkStep` has a case for the root and one for
the nodes behind it, `AppendStep` one for a new address and two for that of the freed
root. `Refinement` maps initial states to initial states and each step to a step of
`ListSpec` or a stutter (`PositionRefines`, `RemovalRefines`, `AppendRefines`).

**RequestPipeline.** `Conservation` is inductive with the types. `RequestsFit` follows
from it, since a process that sends is not yet one of those whose requests are there.
`RepliesFit` needs `RepliesBounded`, for every place in the output queue and not for its
beginning only: a relay takes the first reply, and what remains must still be bounded by
the last replies that are still to come. `SerialRepliesMatch` needs `OneAtATime`: unless
requests overlapped, at most one process has a request under way, and all that is in the
queues is its own; with nobody waiting, `Conservation` and `RepliesBounded` leave the
queues empty (`NothingInFlight`). Counts of replies in a queue are cardinalities of sets
of places, with a lemma for each end of the queue.

**ControllerLifecycle.** A line is printed in three steps, and threads store STARTED and
COMPLETED between them. `Foreseen` says, for every node the handler has not finished,
what its status can still be: what it was at the signal, or one of the `Outcomes`
of it; for the node at hand after the handler looked at it, only an outcome. That
needs that a thread's phase only goes forward from what it was at the signal. `Saving`
and `WholeIndex` tie the length of the index to the handler's position, and
`Resuming` that the update loop leaves no entry behind it WAITING while every entry
has a slot. All of this is for a handler that is alone: where `SignalsTangle` is taken
nothing is kept but the types, until a single signal truncates the index again.

Of `DownloadQueueProofs` it uses the types and the effects of single steps, not the
invariant: loaded entries may share a name, so that `IInv` does not hold in later
lives. What does is `Serves`, which `ServesInEachLife` shows together with `Findable`: a
queued entry is in the queue once; what a handler found is still the first entry of
its name when it takes it out (`FoundFirst`), though others may have the name; and
every entry that waits was asked for, by a client or by the line it was loaded from, or
has no client's URL (`WaitsIfAsked`).
`QueueKept`, `AskedKept` and `FindableKept` are about the steps of the main thread,
`ThreadServes`, `StartServes` and `SavingServes` about the threads, the start and the
signal handler. `Findable` survives shared names, since a thread that leaves the list
is one that was just cancelled, or has the empty name. With these,
`StopsInEachLife` and `CancelsInEachLife` follow as in the first life (`StopEffect`,
`CancelEffect`): of several entries of a name a request reaches the first, stops that one
and takes out that one.

**DownloadFile.** `OneWriter`: unless transfers overlapped, at most one FILE can still
write, the buffers of cancelled threads included. `BufferContinues`: what is in that
buffer goes on where the file ends, block by block. `NothingIsLost`: a file that has a
name only grows, so that what a transfer received is in the file or its buffer, and
`fclose` leaves the buffer empty before COMPLETED. `FiguresFollow` says that what the
file lacks is never more than the size of the entry, for the figures in the index too,
while there is no process; both only until somebody else removes the file. `OwnIsLinked`
says that until then the entry's own threads have the file open that has the name. That
other entries and URLs write to the file does not disturb the figures, since it only
grows by that.

**Connection.** `WholeRequests`: as long as no send was cut, the parts on their way to the
server alternate from their beginning to their end, and the server reads two or none.
`FirstReply` with `CommandReadsOnce`: what a client of a command reads is the
beginning of the first reply that was sent, or nothing.

**Settings.** `LinesGiven` for the file that processes leave behind, also when they die
with the file half written, and `OptionsGiven` for memory in each phase. Both except the
server's timeout, which is saved before it has a value and overwritten when it is loaded,
and the options some file that was loaded had no readable line for (`lacking`).

## 6. What is only model-checked

Liveness, which needs ENABLED and fairness: `HandlerReturns`, `EnoughSlots` and
`ForgottenTransfersEnd` in `Queue_live`, `WaitsEnd` in `Pipeline_replies`,
`UntoldClientEnds` and `ClosedEndsClient` in `Connection_streams`. And the four
violations of section 4, which are counterexamples.

The other way round, two proved properties are in no run: `StopsInEachLife` and
`CancelsInEachLife` say more than those of `Queue_safety` only of a life that serves
requests after a restart. With two such lives (`MaxServing = 2`) TLC finds no violation
in the first ten million states, but has not come to an end. The inductive invariants
were checked by TLC before they were proved; a line `INVARIANT IInv` (`LifeIInv`,
`Serves`) in a configuration does so again.

## 7. Plan

Done: all modules of section 2, and the theorems of section 5. What is left, in this
order:

1. The cut between `DownloadQueue` and `RequestPipeline`: an abstract dispatch that both
   implement, which says how many lines a request is answered with.
2. What pause and cancel do once the first node of a list was removed, which
   `StopReaches` and `CancelRemoves` leave out.

## 8. Not modelled

- Messenger, paths, directories and log files: I/O in sequence, without shared state.
- `common/ssl`: not part of the build.
- Formatting of payloads, speeds and times; what the client prints.
- URLs that end in a slash, in a number or contain white space, lines of the index longer
  than the fields they are read into, and statuses no line has.
- A `download_thread_t` allocated at the address of one that was freed and is still in
  the thread list; a request left in a socket by a client that went away
  (`RequestPipeline`).
- What two signal handlers that run at a time do to memory: the process ends, and its
  index may say anything.
- Servers that do not tell a length or change the file; full disks; `ftell` failing.
- A configuration file that cannot be opened, and the server's long options that take
  an argument and are declared without one (`getopt_long` then gives NULL).
- Failures of the message queues' creation and of memory for the lists themselves;
  the number of descriptors.
- Neighbours of an entry that `entry_set_target` overwrites: the process survives
  unharmed or dies.
- The queues removed by an administrator while in use; two controllers at a time.
