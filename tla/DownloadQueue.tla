---------------------------- MODULE DownloadQueue ----------------------------
(***************************************************************************)
(* The controller process of dserve while it runs: the download queue      *)
(* (server/downstream/queue.c), the download threads                       *)
(* (server/downstream/downloadmanager.c) and the dispatch of one request   *)
(* (controller.c, process_request).                                        *)
(*                                                                         *)
(* The main thread handles one request at a time; every download runs in a *)
(* thread of its own.  They share entry_t.status without a lock, so a      *)
(* handler is cut into steps wherever a thread can change a status between *)
(* its read and its use: the switch of queue_pause, queue_cancel and       *)
(* queue_restart, and, in queue_update, between download_start and the     *)
(* assignment of STARTING that follows it.                                 *)
(*                                                                         *)
(* Entries and threads are addresses out of finite sets.  An entry is      *)
(* never freed, a thread is never joined nor detached: neither is reused   *)
(* (the model does not reuse a freed download_thread_t either).  For an    *)
(* entry malloc fails when no address is left; for a thread malloc and     *)
(* pthread_create may fail at any call and succeed at the next.            *)
(***************************************************************************)
EXTENDS Naturals, FiniteSets, Sequences, Lists

CONSTANTS
  Entry,          \* addresses entry_new can return
  Thread,         \* threads the process may create (and their download_thread_t)
  Names,          \* values of trx_id_t.name
  EmptyName,      \* the empty one, of a request sent without --name
  Commands,       \* the commands clients send
  MaxDownloads,   \* options->max_concurrent_downloads
  MutexMayBlock,  \* can pthread_mutex_lock block on an uninitialised mutex?
  MaxThreadList,  \* bound of the model: no restart is received once thread_list is longer
  NoEntry, NoThread, NoName

AllCommands == {"DOWNLOAD", "STATUS", "PAUSE", "CANCEL", "RESTART", "NONE"}

ASSUME ConstantsAssumption ==
  /\ Commands \subseteq AllCommands
  /\ MaxDownloads \in Nat
  /\ MaxThreadList \in Nat
  /\ MutexMayBlock \in BOOLEAN
  /\ NoEntry \notin Entry
  /\ NoThread \notin Thread
  /\ NoName \notin Names
  /\ IsFiniteSet(Thread)

VARIABLES
  name,            \* entry->id.name, NoName for memory not allocated yet
  status,          \* entry->status
  wanted,          \* history: a client asked for this transfer, and since then no
                   \* thread was started for it and no client paused or cancelled it
  download_queue,  \* the list of entries of queue.c
  entryOf,         \* download_thread_t.entry
  phase,           \* where download_file is in a thread
  cancelled,       \* pthread_cancel was called on the thread
  thread_list,     \* the list of download_thread_t of downloadmanager.c
  released,        \* the download_thread_t that were freed
  pc,              \* what the main thread does next
  pos,             \* the node list_for_each(download_queue, queue_update) is at
  arg,             \* the entry the last pause, cancel or restart found
  seen,            \* the status its switch read
  response         \* the last transaction_t the controller answered

entryVars   == <<name, status, wanted>>
threadVars  == <<entryOf, phase, cancelled>>
managerVars == <<thread_list, released>>
localVars   == <<pos, arg, seen>>

vars == <<entryVars, download_queue, threadVars, managerVars, pc, localVars, response>>

Status == {"WAITING", "STARTING", "STARTED", "PAUSED", "CANCELLED", "COMPLETED"}

Phase == {"none", "opening", "performing", "ended"}

\* "crashed": the process died of a memory fault; "hung": the main thread is
\* in a loop that never ends; "blocked": it waits for a mutex for ever.
Control == {"idle", "pause", "cancel", "restart", "update", "starting",
            "crashed", "hung", "blocked"}

Reply(command, stat, ok) == [command |-> command, status |-> stat, ok |-> ok]

Response == [command : AllCommands,
             status  : {"SUCCESS", "FAILURE"},
             ok      : BOOLEAN]   \* does the payload's text report success?

Garbage == Reply("NONE", "SUCCESS", TRUE)

TypeOK ==
  /\ name \in [Entry -> Names \union {NoName}]
  /\ status \in [Entry -> Status]
  /\ wanted \in [Entry -> BOOLEAN]
  /\ download_queue \in ListOf(Entry)
  /\ entryOf \in [Thread -> Entry \union {NoEntry}]
  /\ phase \in [Thread -> Phase]
  /\ cancelled \in [Thread -> BOOLEAN]
  /\ thread_list \in ListOf(Thread \union {NoThread})
  /\ released \in SUBSET Thread
  /\ pc \in Control
  /\ pos \in Nat
  /\ arg \in Entry \union {NoEntry}
  /\ seen \in Status
  /\ response \in Response
  /\ \A t \in Thread : phase[t] # "none" => entryOf[t] \in Entry
  /\ \A t \in Items(thread_list) \ {NoThread} : phase[t] # "none"
  /\ pc = "starting" => pos \in DOMAIN download_queue.items
  /\ pc \in {"pause", "cancel", "restart"} => arg \in Entry

Init ==
  /\ name = [e \in Entry |-> NoName]
  /\ status = [e \in Entry |-> "WAITING"]
  /\ wanted = [e \in Entry |-> FALSE]
  /\ download_queue = EmptyList
  /\ entryOf = [t \in Thread |-> NoEntry]
  /\ phase = [t \in Thread |-> "none"]
  /\ cancelled = [t \in Thread |-> FALSE]
  /\ thread_list = EmptyList
  /\ released = {}
  /\ pc = "idle"
  /\ pos = 1
  /\ arg = NoEntry
  /\ seen = "WAITING"
  /\ response = Garbage

-----------------------------------------------------------------------------
(* Looking things up.                                                      *)

Live(t) == phase[t] \in {"opening", "performing"}

\* queue_compare_id with list_get_item: i is the first node whose entry is named n.
FirstNamed(i, n) ==
  /\ i \in DOMAIN download_queue.items
  /\ name[download_queue.items[i]] = n
  /\ \A j \in 1..(i - 1) : name[download_queue.items[j]] # n

InQueue(n) == \E e \in Items(download_queue) : name[e] = n

\* A lookup that forgets the entries that are being downloaded.
ExistsUnlessStarted(n) ==
  IF \E e \in Items(download_queue) : name[e] = n /\ status[e] # "STARTED"
  THEN {TRUE} ELSE BOOLEAN

\* queue_entry_exists returns an uninitialised bool when it finds no entry.
QueueEntryExists(n) == IF InQueue(n) THEN {TRUE} ELSE BOOLEAN

\* download_thread_compare_id: does node i of the thread list match the name?
ThreadMatches(i, n) ==
  /\ thread_list.items[i] # NoThread
  /\ name[entryOf[thread_list.items[i]]] = n

\* The nodes list_get_item visits in the thread list: up to the first match.
Visited(n) ==
  {i \in DOMAIN thread_list.items : \A j \in 1..(i - 1) : ~ThreadMatches(j, n)}

FirstThread(i, n) == i \in Visited(n) /\ ThreadMatches(i, n)

NullVisited(n) == \E i \in Visited(n) : thread_list.items[i] = NoThread

NullAnywhere == NoThread \in Items(thread_list)

-----------------------------------------------------------------------------
(* What several handlers do.                                               *)

\* set_transaction fills in the answer under a mutex nobody initialised.
Answer(reply, next) ==
  \/ pc' = next /\ response' = reply
  \/ MutexMayBlock /\ pc' = "blocked" /\ UNCHANGED response

Receives(command) ==
  /\ pc = "idle"
  /\ command \in Commands
  /\ command = "RESTART" => Len(thread_list.items) <= MaxThreadList

\* list_get_item finds no entry of that name: FAILURE, nothing else happens.
NotFound(command) ==
  /\ Receives(command)
  /\ \E n \in Names : ~InQueue(n)
  /\ Answer(Reply(command, "FAILURE", FALSE), "idle")
  /\ UNCHANGED <<entryVars, download_queue, threadVars, managerVars, localVars>>

\* list_get_item finds the entry and the handler's switch reads its status.
Found(command, n, next) ==
  /\ Receives(command)
  /\ \E i \in DOMAIN download_queue.items :
       /\ FirstNamed(i, n)
       /\ arg' = download_queue.items[i]
       /\ seen' = status[arg']
  /\ pc' = next
  /\ UNCHANGED <<entryVars, download_queue, threadVars, managerVars, pos, response>>

-----------------------------------------------------------------------------
(* queue_add.                                                              *)

\* The name is taken, or entry_new finds no memory.  The mutex of queue_add
\* is locked again where it should be unlocked.
AddRefused(n) ==
  /\ Receives("DOWNLOAD")
  /\ \/ TRUE \in QueueEntryExists(n)
     \/ \A e \in Entry : name[e] # NoName
  /\ Answer(Reply("DOWNLOAD", "FAILURE", FALSE), "idle")
  /\ UNCHANGED <<entryVars, download_queue, threadVars, managerVars, localVars>>

\* entry_new, entry_set_target and list_append; the update loop follows.
AddAccepted(n, e) ==
  /\ Receives("DOWNLOAD")
  /\ FALSE \in QueueEntryExists(n)
  /\ name[e] = NoName
  /\ name' = [name EXCEPT ![e] = n]
  /\ status' = [status EXCEPT ![e] = "WAITING"]
  /\ wanted' = [wanted EXCEPT ![e] = TRUE]
  /\ download_queue' \in ListAppends(download_queue, e)
  /\ pos' = 1
  /\ Answer(Reply("DOWNLOAD", "SUCCESS", TRUE), "update")
  /\ UNCHANGED <<threadVars, managerVars, arg, seen>>

\* entry_set_target copies a whole payload (1536 bytes) over the url (512): what
\* it writes past the entry may break the heap, and the allocator aborts.
AddOverruns(n) ==
  /\ Receives("DOWNLOAD")
  /\ FALSE \in QueueEntryExists(n)
  /\ \E e \in Entry : name[e] = NoName
  /\ pc' = "crashed"
  /\ UNCHANGED <<entryVars, download_queue, threadVars, managerVars, localVars, response>>

\* The first lock of queue_add never returns.
AddBlocks ==
  /\ Receives("DOWNLOAD")
  /\ MutexMayBlock
  /\ pc' = "blocked"
  /\ UNCHANGED <<entryVars, download_queue, threadVars, managerVars, localVars, response>>

\* queue_status changes nothing here: module RequestPipeline has its messages.
QueueStatus ==
  /\ Receives("STATUS")
  /\ Answer(Reply("STATUS", "SUCCESS", TRUE), "idle")
  /\ UNCHANGED <<entryVars, download_queue, threadVars, managerVars, localVars>>

\* process_request sends a response it never wrote for any other command: what
\* its stack slot holds, which may be the answer to the request before.
Unknown ==
  /\ Receives("NONE")
  /\ response' \in {response, Garbage}
  /\ UNCHANGED <<entryVars, download_queue, threadVars, managerVars, pc, localVars>>

-----------------------------------------------------------------------------
(* queue_pause and download_pause.                                         *)

PauseFound(n) == Found("PAUSE", n, "pause")

\* The status a request to pause or cancel writes when its switch read s.
StatusWhenIdle(s, kept) == IF s \in kept THEN status[arg] ELSE "PAUSED"

\* No transfer to stop as far as the switch could tell.
PauseIdle ==
  /\ pc = "pause" /\ seen # "STARTED"
  /\ status' = [status EXCEPT ![arg] = StatusWhenIdle(seen, {"CANCELLED", "COMPLETED"})]
  /\ wanted' = [wanted EXCEPT ![arg] = FALSE]
  /\ Answer(Reply("PAUSE", "SUCCESS", TRUE), "idle")
  /\ UNCHANGED <<name, download_queue, threadVars, managerVars, localVars>>

\* download_pause finds no thread of that name.
PauseWithoutThread ==
  /\ pc = "pause" /\ seen = "STARTED"
  /\ ~NullVisited(name[arg])
  /\ \A i \in DOMAIN thread_list.items : ~FirstThread(i, name[arg])
  /\ wanted' = [wanted EXCEPT ![arg] = FALSE]
  /\ Answer(Reply("PAUSE", "SUCCESS", FALSE), "idle")
  /\ UNCHANGED <<name, status, download_queue, threadVars, managerVars, localVars>>

\* Variants of StopThread that forget an assignment.
StopUnmarked(t) ==
  /\ wanted' = [wanted EXCEPT ![arg] = FALSE]
  /\ cancelled' = [cancelled EXCEPT ![t] = TRUE]
  /\ released' = released \union {t}
  /\ UNCHANGED status

FreeOnly(t) ==
  /\ status' = [status EXCEPT ![entryOf[t]] = "PAUSED"]
  /\ wanted' = [wanted EXCEPT ![arg] = FALSE]
  /\ released' = released \union {t}
  /\ UNCHANGED cancelled

\* Both download_pause and download_cancel mark the thread's entry PAUSED,
\* cancel the thread and free its download_thread_t.
StopThread(t) ==
  /\ status' = [status EXCEPT ![entryOf[t]] = "PAUSED"]
  /\ wanted' = [wanted EXCEPT ![arg] = FALSE]
  /\ cancelled' = [cancelled EXCEPT ![t] = TRUE]
  /\ released' = released \union {t}

PauseThread ==
  /\ pc = "pause" /\ seen = "STARTED"
  /\ ~NullVisited(name[arg])
  /\ \E i \in DOMAIN thread_list.items :
       /\ FirstThread(i, name[arg])
       /\ StopThread(thread_list.items[i])
       /\ thread_list' = ListRemove(thread_list, i)
  /\ Answer(Reply("PAUSE", "SUCCESS", TRUE), "idle")
  /\ UNCHANGED <<name, download_queue, entryOf, phase, localVars>>

-----------------------------------------------------------------------------
(* queue_cancel and download_cancel.                                       *)

CancelFound(n) == Found("CANCEL", n, "cancel")

\* A removal whose search stops before the last node.
DequeueUnlessLast ==
  /\ \E i \in DOMAIN download_queue.items :
       /\ FirstNamed(i, name[arg])
       /\ download_queue' = IF i = Len(download_queue.items)
                            THEN download_queue ELSE ListRemove(download_queue, i)
  /\ Answer(Reply("CANCEL", "SUCCESS", TRUE), "idle")
  /\ UNCHANGED <<name, localVars>>

\* list_remove_item on the download queue, and the answer.
Dequeue ==
  /\ \E i \in DOMAIN download_queue.items :
       /\ FirstNamed(i, name[arg])
       /\ download_queue' = ListRemove(download_queue, i)
  /\ Answer(Reply("CANCEL", "SUCCESS", TRUE), "idle")
  /\ UNCHANGED <<name, localVars>>

CancelIdle ==
  /\ pc = "cancel" /\ seen # "STARTED"
  /\ status' = [status EXCEPT ![arg] = StatusWhenIdle(seen, {"CANCELLED"})]
  /\ wanted' = [wanted EXCEPT ![arg] = FALSE]
  /\ Dequeue
  /\ UNCHANGED <<threadVars, managerVars>>

CancelWithoutThread ==
  /\ pc = "cancel" /\ seen = "STARTED"
  /\ ~NullVisited(name[arg])
  /\ \A i \in DOMAIN thread_list.items : ~FirstThread(i, name[arg])
  /\ wanted' = [wanted EXCEPT ![arg] = FALSE]
  /\ Dequeue
  /\ UNCHANGED <<status, threadVars, managerVars>>

\* list_remove_item is given the thread where download_thread_compare_id wants
\* a name, and reads the bytes of its pthread_t as one.  They are no client's
\* name: nothing matches and the freed download_thread_t stays in the list.  But
\* pthread_t is an aligned address, whose lowest byte may be 0: then they are
\* the empty name, and the first thread of that name leaves the list.
RemoveByHandle ==
  \/ ~NullAnywhere /\ UNCHANGED thread_list
  \/ /\ ~NullVisited(EmptyName)
     /\ \E i \in DOMAIN thread_list.items :
          FirstThread(i, EmptyName) /\ thread_list' = ListRemove(thread_list, i)

CancelThread ==
  /\ pc = "cancel" /\ seen = "STARTED"
  /\ ~NullVisited(name[arg])
  /\ \E i \in DOMAIN thread_list.items :
       /\ FirstThread(i, name[arg])
       /\ StopThread(thread_list.items[i])
  /\ RemoveByHandle
  /\ Dequeue
  /\ UNCHANGED <<entryOf, phase>>

-----------------------------------------------------------------------------
(* queue_restart.                                                          *)

RestartFound(n) == Found("RESTART", n, "restart")

\* The statuses queue_restart refuses, in an answer it then overwrites.
Restartable(s) == s \notin {"STARTING", "STARTED", "CANCELLED", "COMPLETED"}

RestartApply ==
  /\ pc = "restart"
  /\ IF Restartable(seen)
     THEN /\ status' = [status EXCEPT ![arg] = "WAITING"]
          /\ wanted' = [wanted EXCEPT ![arg] = TRUE]
     ELSE UNCHANGED <<status, wanted>>
  /\ pos' = 1
  /\ Answer(Reply("RESTART", "SUCCESS", TRUE), "update")
  /\ UNCHANGED <<name, download_queue, threadVars, managerVars, arg, seen>>

-----------------------------------------------------------------------------
(* list_for_each(download_queue, queue_update, NULL), an entry at a time.  *)

CountStarted ==
  Cardinality({i \in DOMAIN download_queue.items :
                 status[download_queue.items[i]] = "STARTED"})

\* A bound one too low.
HasSpareSlot == CountStarted + 1 < MaxDownloads

HasSlot == CountStarted < MaxDownloads

Updating == pc = "update" /\ pos \in DOMAIN download_queue.items

Current == download_queue.items[pos]

Startable == status[Current] = "WAITING" /\ HasSlot

\* A loop that does not advance past an entry it leaves alone.
SkipForever ==
  /\ Updating /\ ~Startable
  /\ UNCHANGED vars

UpdateSkip ==
  /\ Updating /\ ~Startable
  /\ pos' = pos + 1
  /\ UNCHANGED <<entryVars, download_queue, threadVars, managerVars, pc, arg, seen, response>>

\* new_download_thread, without the assignment of the entry.
NewThreadWithoutEntry(t) ==
  /\ phase' = [phase EXCEPT ![t] = "opening"]
  /\ wanted' = [wanted EXCEPT ![Current] = FALSE]
  /\ UNCHANGED entryOf

\* new_download_thread: the thread runs from here on.
NewThread(t) ==
  /\ phase' = [phase EXCEPT ![t] = "opening"]
  /\ entryOf' = [entryOf EXCEPT ![t] = Current]
  /\ wanted' = [wanted EXCEPT ![Current] = FALSE]

\* A start that does not keep the thread.
Forget(t) == pc' = "starting" /\ UNCHANGED thread_list

\* list_append on the thread list, whose root may be freed memory: the walk to
\* the end can then crash, or loop for ever once the new node has taken the
\* address of the freed one.
Register(t) ==
  \/ pc' = "starting" /\ thread_list' \in ListAppends(thread_list, t)
  \/ thread_list.freed /\ pc' \in {"crashed", "hung"} /\ UNCHANGED thread_list

DownloadStart(t) ==
  /\ Updating /\ Startable
  /\ phase[t] = "none"
  /\ NewThread(t)
  /\ Register(t)
  /\ UNCHANGED <<name, status, download_queue, cancelled, released, localVars, response>>

\* malloc or pthread_create fails, as it may at any call: download_start logs it
\* and appends the NULL all the same.
DownloadStartFails ==
  /\ Updating /\ Startable
  /\ Register(NoThread)
  /\ UNCHANGED <<entryVars, download_queue, threadVars, released, localVars, response>>

\* An update that leaves the status as it is.
LeaveStatus ==
  /\ pc = "starting"
  /\ pos' = pos + 1
  /\ pc' = "update"
  /\ UNCHANGED <<entryVars, download_queue, threadVars, managerVars, arg, seen, response>>

\* Whatever the new thread has made of the status by now.
MarkStarting ==
  /\ pc = "starting"
  /\ status' = [status EXCEPT ![Current] = "STARTING"]
  /\ pos' = pos + 1
  /\ pc' = "update"
  /\ UNCHANGED <<name, wanted, download_queue, threadVars, managerVars, arg, seen, response>>

\* The end of the list; queue_add then locks its mutex once more.
UpdateDone ==
  /\ pc = "update" /\ pos \notin DOMAIN download_queue.items
  /\ \/ pc' = "idle"
     \/ MutexMayBlock /\ response.command = "DOWNLOAD" /\ pc' = "blocked"
  /\ UNCHANGED <<entryVars, download_queue, threadVars, managerVars, localVars, response>>

-----------------------------------------------------------------------------
(* Freed memory and NULL data.  Every handler that walks a list with a     *)
(* freed node may die of it or never come to its end; going on with the    *)
(* old contents of that memory is what the actions above do.               *)

\* Each request but an unknown one walks the download queue, and so does the
\* update loop; queue_cancel does it once more, for the removal.
QueueFault ==
  /\ pc \in {"idle", "cancel", "update"}
  /\ download_queue.freed
  /\ pc' \in {"crashed", "hung"}
  /\ UNCHANGED <<entryVars, download_queue, threadVars, managerVars, localVars, response>>

\* The nodes the walks of download_pause and download_cancel come to.
Walked == IF pc = "pause" THEN Visited(name[arg]) ELSE DOMAIN thread_list.items

ThreadListFault ==
  /\ pc \in {"pause", "cancel"} /\ seen = "STARTED"
  /\ \/ thread_list.freed /\ pc' \in {"crashed", "hung"}
     \/ /\ \E i \in Walked : thread_list.items[i] \in released \union {NoThread}
        /\ pc' = "crashed"
  /\ UNCHANGED <<entryVars, download_queue, threadVars, managerVars, localVars, response>>

-----------------------------------------------------------------------------
(* download_file, in the thread of an entry.  Cancellation is deferred: a  *)
(* cancelled thread goes on up to the next cancellation point.             *)

Runs(t, p) == pc # "crashed" /\ phase[t] = p

Moves(t, p) ==
  /\ phase' = [phase EXCEPT ![t] = p]
  /\ UNCHANGED <<name, wanted, download_queue, entryOf, cancelled, managerVars, pc,
                 localVars, response>>

\* open_file succeeds: the transfer begins.
ThreadStarted(t) ==
  /\ Runs(t, "opening")
  /\ Moves(t, "performing")
  /\ status' = [status EXCEPT ![entryOf[t]] = "STARTED"]

\* open_file fails: the thread returns and nobody is told.
OpenFails(t) ==
  /\ Runs(t, "opening")
  /\ Moves(t, "ended")
  /\ UNCHANGED status

\* curl_easy_perform returns, with or without an error.
ThreadCompletes(t) ==
  /\ Runs(t, "performing")
  /\ Moves(t, "ended")
  /\ status' = [status EXCEPT ![entryOf[t]] = "COMPLETED"]

\* The thread acts on pthread_cancel.
ThreadCancelled(t) ==
  /\ pc # "crashed" /\ Live(t) /\ cancelled[t]
  /\ Moves(t, "ended")
  /\ UNCHANGED status

-----------------------------------------------------------------------------
QueueAdd ==
  \/ \E n \in Names : AddRefused(n) \/ AddOverruns(n) \/ \E e \in Entry : AddAccepted(n, e)
  \/ AddBlocks

PauseStep == PauseIdle \/ PauseWithoutThread \/ PauseThread

CancelStep == CancelIdle \/ CancelWithoutThread \/ CancelThread

UpdateStep ==
  \/ UpdateSkip \/ UpdateDone \/ MarkStarting
  \/ DownloadStartFails \/ \E t \in Thread : DownloadStart(t)

\* What the main thread does without waiting for a message.
HandlerStep ==
  \/ PauseStep \/ CancelStep \/ RestartApply \/ UpdateStep
  \/ (pc # "idle" /\ QueueFault) \/ ThreadListFault

\* process_request, on the message read from the input queue.
Request ==
  \/ QueueAdd \/ QueueStatus \/ Unknown
  \/ \E command \in {"PAUSE", "CANCEL", "RESTART"} : NotFound(command)
  \/ \E n \in Names : PauseFound(n) \/ CancelFound(n) \/ RestartFound(n)
  \/ (pc = "idle" /\ QueueFault)

ThreadStep(t) == ThreadStarted(t) \/ OpenFails(t) \/ ThreadCompletes(t) \/ ThreadCancelled(t)

Next == Request \/ HandlerStep \/ \E t \in Thread : ThreadStep(t)

Spec == Init /\ [][Next]_vars

\* The main thread is not blocked by anything but its mutexes, and a cancelled
\* thread comes to a cancellation point: open, write, select and poll are.
\* A transfer may never end, and clients may never send anything.
Fairness ==
  /\ WF_vars(HandlerStep)
  /\ \A t \in Thread : WF_vars(ThreadCancelled(t))

FairSpec == Spec /\ Fairness

-----------------------------------------------------------------------------
(* Properties.                                                             *)

\* No two queued entries have the same name, in spite of the uninitialised
\* result of queue_entry_exists: pause, cancel and restart, which take the
\* first entry of a name, therefore reach every entry.
UniqueNames ==
  \A i, j \in DOMAIN download_queue.items :
    name[download_queue.items[i]] = name[download_queue.items[j]] => i = j

Created(t, e) == phase[t] # "none" /\ entryOf[t] = e

OnceStarted(e) == \A t, u \in Thread : Created(t, e) /\ Created(u, e) => t = u

\* A queued entry that says STARTED is being transferred, whatever the
\* interleaving of its thread with requests to pause, cancel and restart it,
\* as long as download_start was called for it once: status reports tell
\* clients the truth.  (A second thread on an entry can leave it STARTED for
\* ever: a request that finds the first thread cancels it before it starts.)
StartedHasTransfer ==
  \A e \in Items(download_queue) :
    status[e] = "STARTED" /\ OnceStarted(e) =>
      \E t \in Thread : Created(t, e) /\ phase[t] = "performing"

\* The update loop starts a thread only for an entry some client asked for
\* (DOWNLOAD or RESTART) since its last thread was started and since it was last
\* paused or cancelled: one request never starts two transfers.
StartsAreAsked ==
  [][\A t \in Thread : phase[t] = "none" /\ phase'[t] # "none" => wanted[entryOf'[t]]]_vars

\* Until the first node of the thread list is removed, every transfer that has a
\* name and that nobody stopped is in the list, where download_pause and
\* download_cancel look.
Findable ==
  ~thread_list.damaged =>
    \A t \in Thread :
      Live(t) /\ ~cancelled[t] /\ name[entryOf[t]] # EmptyName => t \in Items(thread_list)

SoleHolder(e) ==
  /\ name[e] # EmptyName
  /\ \A t \in Thread : phase[t] # "none" /\ name[entryOf[t]] = name[e] => entryOf[t] = e

Stopped(e) == \A t \in Thread : Created(t, e) /\ phase'[t] # "ended" => cancelled'[t]

\* A request to pause or cancel that read STARTED stops the transfer, although the
\* thread is looked up by name, later, in a list that threads never leave when they
\* end: while that list is whole, and as long as the entry was started once and no
\* thread was created for another entry of its name.  (After a cancel and a second
\* download under the name, the lookup finds the thread of the first; PauseStops
\* is what is left of this without the status STARTED.)
StopReaches ==
  [][/\ pc \in {"pause", "cancel"} /\ seen = "STARTED" /\ pc' = "idle"
     /\ ~thread_list.damaged
     /\ OnceStarted(arg) /\ SoleHolder(arg)
     => Stopped(arg)]_vars

\* queue_cancel finds the entry by name twice, to stop it and to take it out of the
\* queue, and threads run in between: a cancel that is answered took out what it
\* stopped, and nothing else, until the first node of the queue is removed.
CancelRemoves ==
  [][pc = "cancel" /\ pc' = "idle" /\ ~download_queue'.damaged
     => Items(download_queue') = Items(download_queue) \ {arg}]_vars

-----------------------------------------------------------------------------
(* The inductive invariant behind the six properties above.                *)

\* Entries in use have a name; nothing refers to an entry that has none yet.
InUse ==
  /\ \A e \in Items(download_queue) : name[e] \in Names
  /\ \A t \in Thread : phase[t] # "none" => name[entryOf[t]] \in Names
  /\ \A t \in Thread : phase[t] = "none" => ~cancelled[t]

\* While a handler works on an entry, the entry is queued.
HandledIsQueued == pc \in {"pause", "cancel", "restart"} => arg \in Items(download_queue)

\* Whoever read STARTED before pausing or cancelling an entry with one thread
\* reaches a thread that has set STARTED already.
SeenStarted ==
  pc \in {"pause", "cancel"} /\ seen = "STARTED" /\ OnceStarted(arg) =>
    \E t \in Thread : Created(t, arg) /\ phase[t] # "opening"

\* So the only thread of a queued entry is not cancelled before it sets STARTED,
\* and STARTED means it is still transferring.
SingleThread ==
  \A e \in Items(download_queue) : OnceStarted(e) =>
    /\ \A t \in Thread : Created(t, e) /\ phase[t] = "opening" => ~cancelled[t]
    /\ status[e] = "STARTED" =>
         \E t \in Thread : Created(t, e) /\ phase[t] = "performing" /\ ~cancelled[t]

\* Only the main thread sets WAITING, and every WAITING entry was asked for,
\* except the one whose thread is being created.
WaitingIsWanted ==
  /\ pc \in {"pause", "cancel"} /\ seen # "WAITING" => status[arg] # "WAITING"
  /\ pc \notin {"crashed", "hung"} =>
       \A e \in Items(download_queue) :
         status[e] = "WAITING" => wanted[e] \/ (pc = "starting" /\ e = Current)

IInv ==
  /\ TypeOK
  /\ UniqueNames
  /\ InUse
  /\ HandledIsQueued
  /\ SeenStarted
  /\ SingleThread
  /\ WaitingIsWanted
  /\ Findable

-----------------------------------------------------------------------------
(* More properties.                                                        *)

\* What can end or detain a handler that walks the lists: a root that was freed,
\* and the NULL or the freed download_thread_t in front of the one looked for.
ListsBroken ==
  \/ download_queue.freed \/ thread_list.freed
  \/ Items(thread_list) \intersect (released \union {NoThread}) # {}

\* A handler in its switch or in the update loop comes to its end, however the
\* threads move, unless it waits for one of the mutexes nobody initialised or the
\* lists are broken: it waits for no thread, and the walk over the queue advances
\* whatever status each entry has by the time it is reached.
HandlerReturns ==
  (pc \in {"pause", "cancel", "restart", "update", "starting"})
    ~> (pc \in {"idle", "blocked"} \/ ListsBroken)

\* With as many slots as entries, a queued download that waits because a client
\* asked for it gets a thread, unless it is paused or cancelled first or the thread
\* cannot be created: then the thread list has a NULL, and the entry says STARTING
\* although nobody transfers it.
EnoughSlots ==
  \A e \in Entry :
    (e \in Items(download_queue) /\ status[e] = "WAITING" /\ wanted[e]) ~>
      \/ ~wanted[e]
      \/ \E t \in Thread : Created(t, e) /\ Live(t)
      \/ status[e] = "STARTING" /\ NullAnywhere
      \/ pc \in {"crashed", "hung", "blocked"}

\* A transfer whose download_thread_t was freed ends: no thread writes to a file
\* after the controller forgot it, except up to its next cancellation point.
ForgottenTransfersEnd ==
  \A t \in Thread : (t \in released) ~> (phase[t] = "ended" \/ pc = "crashed")

\* server.downloads.max (README.md) is the number of concurrent downloads.
LimitRespected == Cardinality({t \in Thread : phase[t] = "performing"}) <= MaxDownloads

\* Once a pause was answered with success, the file is not being downloaded.
PauseStops ==
  pc = "idle" /\ response = Reply("PAUSE", "SUCCESS", TRUE) =>
    \A t \in Thread : Created(t, arg) /\ Live(t) => cancelled[t]

\* A download that waits for a slot starts when there are slots available (queue.c,
\* line 129: it "will wait until there are available slots"), while the process lives.
WaitingStarts ==
  \A e \in Entry :
    (e \in Items(download_queue) /\ status[e] = "WAITING")
      ~> (status[e] # "WAITING" \/ pc \in {"crashed", "hung"})

\* Every file opens and every transfer ends.
TransfersEnd ==
  \A t \in Thread : WF_vars(ThreadStarted(t)) /\ WF_vars(ThreadCompletes(t))

PromptSpec == FairSpec /\ TransfersEnd

=============================================================================
