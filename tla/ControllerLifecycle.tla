-------------------------- MODULE ControllerLifecycle --------------------------
(***************************************************************************)
(* The lives of the controller process: queue_load when it starts, the     *)
(* requests and transfers of DownloadQueue while it runs, and queue_save,  *)
(* in the handler of SIGHUP, SIGINT, SIGQUIT and SIGTERM, when it ends     *)
(* (server/downstream/controller.c and queue.c).                           *)
(*                                                                         *)
(* The handler interrupts the main thread wherever it is, but not the      *)
(* download threads: they go on storing statuses while it reads them, so   *)
(* saving an entry is three steps.  Linux gives the first signal to the    *)
(* main thread, which blocks none; nor does anyone block a second one,     *)
(* which runs another queue_save inside the first, or in another thread    *)
(* beside it.  The process may also die of anything else, at any moment;   *)
(* all that the next one finds is the index file, .download.idx, one line  *)
(* for each entry.                                                         *)
(*                                                                         *)
(* A line does not keep the name a client gave: it has the last part of    *)
(* the URL in its place, and that is the entry's name from then on.  URLs  *)
(* here have such a part, neither empty nor a number, and no white space;  *)
(* what get_name_from_url returns for text without one has no blank.       *)
(***************************************************************************)
EXTENDS DownloadQueue

CONSTANTS
  Urls,       \* the URLs clients ask for
  BaseName,   \* get_name_from_url, for each of them
  Digitless,  \* the same without the number a %li takes off its front
  MaxStarts,  \* bound of the model: how often the controller is started
  MaxServing, \* bound of the model: how many of these processes receive requests
  NoUrl,      \* the empty URL of an entry that was read from no line
  StrayUrl,   \* other text that is read where a URL should be
  NoIndex     \* there is no index file

AnyUrl == Urls \union {NoUrl, StrayUrl}

\* A line of the index.  It also has figures, which nothing here depends on.
Line == [url : AnyUrl, status : Status]

ASSUME LifecycleAssumption ==
  /\ BaseName \in [Urls -> Names] /\ Digitless \in [Urls -> Names]
  /\ EmptyName \in Names
  /\ MaxStarts \in Nat \ {0} /\ MaxServing \in Nat
  /\ IsFiniteSet(Entry)
  /\ NoUrl \notin Urls /\ StrayUrl \notin Urls /\ NoUrl # StrayUrl
  /\ NoIndex \notin Seq(Line)

VARIABLES
  url,       \* entry->url
  index,     \* the lines of .download.idx
  mode,      \* what the controller process does
  saving,    \* the node list_for_each(download_queue, queue_data_save) is at, and where
  starts,    \* how often the controller was started
  kept,      \* history: the queue when a handler last truncated the index
  complete,  \* history: that handler came to its end
  tangled    \* history: several handlers wrote the index at a time

fileVars  == <<index, kept, complete, tangled>>
lifeVars  == <<url, fileVars, mode, saving, starts>>

allVars == <<vars, lifeVars>>

\* loading: the signal handlers are not installed yet.  stuck: the handler waits
\* for a lock the main thread holds, or walks a list for ever.  tangled: there is
\* more than one handler.  down: no process.
Mode == {"loading", "running", "saving", "stuck", "tangled", "down"}

\* An entry at the moment of the signal, how far the last of its threads is, and if
\* no other entry has its name.
Snapshot ==
  [url : AnyUrl, status : Status, phase : Phase, alone : BOOLEAN]

LifeTypeOK ==
  /\ TypeOK
  /\ url \in [Entry -> AnyUrl]
  /\ index = NoIndex \/ index \in Seq(Line)
  /\ mode \in Mode
  /\ saving \in [pos : Nat, step : {"read", "mark", "print"}]
  /\ starts \in 0..MaxStarts
  /\ kept \in Seq(Snapshot)
  /\ complete \in BOOLEAN /\ tangled \in BOOLEAN
  /\ mode = "saving" /\ saving.step # "read" => saving.pos \in DOMAIN download_queue.items

AtStart == [pos |-> 1, step |-> "read"]

LifeInit ==
  /\ Init
  /\ url = [e \in Entry |-> NoUrl]
  /\ index = NoIndex
  /\ mode = "loading"
  /\ saving = AtStart
  /\ starts = 1
  /\ kept = <<>>
  /\ complete = FALSE
  /\ tangled = FALSE

\* No process, no memory: nothing of it outlives the process.
Gone ==
  /\ name' = [e \in Entry |-> NoName]
  /\ status' = [e \in Entry |-> "WAITING"]
  /\ wanted' = [e \in Entry |-> FALSE]
  /\ url' = [e \in Entry |-> NoUrl]
  /\ download_queue' = EmptyList
  /\ entryOf' = [t \in Thread |-> NoEntry]
  /\ phase' = [t \in Thread |-> "none"]
  /\ cancelled' = [t \in Thread |-> FALSE]
  /\ thread_list' = EmptyList /\ released' = {}
  /\ saving' = AtStart

\* The handler does not return: where the main thread was no longer matters.
Abandoned ==
  /\ pc' = "idle" /\ pos' = 1 /\ arg' = NoEntry /\ seen' = "WAITING"
  /\ response' = Garbage

-----------------------------------------------------------------------------
(* While the process runs.                                                 *)

\* The update loop of queue_load, with nobody to stop it but SIGKILL.
Loading ==
  /\ mode = "loading"
  /\ HandlerStep
  /\ UNCHANGED lifeVars

\* install_signal_handler; the main loop begins.
InstallHandlers ==
  /\ mode = "loading" /\ pc = "idle"
  /\ mode' = "running"
  /\ UNCHANGED <<vars, url, fileVars, saving, starts>>

\* process_request.  A new entry is given the URL of the request.
Serving ==
  /\ mode = "running"
  /\ (starts <= MaxServing /\ Request) \/ HandlerStep
  /\ \E u \in Urls :
       url' = [e \in Entry |-> IF name'[e] # name[e] THEN u ELSE url[e]]
  /\ UNCHANGED <<fileVars, mode, saving, starts>>

\* The download threads, until the process is gone.
Downloading ==
  /\ mode # "down"
  /\ \E t \in Thread : ThreadStep(t)
  /\ UNCHANGED lifeVars

-----------------------------------------------------------------------------
(* queue_save, in termination_handler.                                     *)

SameName(e) == {f \in Items(download_queue) : name[f] = name[e]}

\* What queue_save finds at node i.
SnapshotOf(i) ==
  LET e == download_queue.items[i] IN
    [url    |-> url[e],
     status |-> status[e],
     phase  |-> IF \E t \in Thread : Created(t, e) /\ phase[t] = "opening" THEN "opening"
                ELSE IF \E t \in Thread : Created(t, e) /\ phase[t] = "performing" THEN "performing"
                ELSE "ended",
     alone  |-> SameName(e) = {e}]

\* fopen(..., "w") on the index: from here on the queue is only in memory.
Terminate ==
  /\ mode = "running" /\ pc # "crashed"
  /\ index' = <<>>
  /\ kept' = [i \in DOMAIN download_queue.items |-> SnapshotOf(i)]
  /\ complete' = FALSE /\ tangled' = FALSE
  /\ mode' = "saving" /\ saving' = AtStart
  /\ Abandoned
  /\ UNCHANGED <<entryVars, download_queue, threadVars, managerVars, url, starts>>

\* fopen fails, and the process exits without a word to anyone but the log.
TerminateUnsaved ==
  /\ mode = "running" /\ pc # "crashed"
  /\ mode' = "down"
  /\ Gone /\ Abandoned
  /\ UNCHANGED <<fileVars, starts>>

\* The main thread was in malloc, or in stdio: the handler waits for it for ever.
\* It has opened the index by then, or not.
TerminateSticks ==
  /\ mode = "running" /\ pc # "crashed"
  /\ mode' = "stuck"
  /\ \/ UNCHANGED fileVars
     \/ /\ index' = <<>>
        /\ kept' = [i \in DOMAIN download_queue.items |-> SnapshotOf(i)]
        /\ complete' = FALSE /\ tangled' = FALSE
  /\ Abandoned
  /\ UNCHANGED <<entryVars, download_queue, threadVars, managerVars, url, saving, starts>>

Saved == download_queue.items[saving.pos]

\* queue_data_save reads the status.
SaveRead ==
  /\ mode = "saving" /\ saving.step = "read"
  /\ saving.pos \in DOMAIN download_queue.items
  /\ seen' = status[Saved]
  /\ saving' = [saving EXCEPT !.step =
                  IF seen' \in {"STARTED", "STARTING"} THEN "mark" ELSE "print"]
  /\ UNCHANGED <<entryVars, download_queue, threadVars, managerVars, pc, pos, arg, response,
                 url, fileVars, mode, starts>>

\* A mark that stores the PAUSED of download_pause and nothing after it.
MarkPaused(s) == [s EXCEPT ![Saved] = "PAUSED"]

\* Whatever download_pause did, the entry is to wait.
MarkWaiting(s) == [s EXCEPT ![Saved] = "WAITING"]

\* download_pause, on the first thread of that name in the list, if there is one.
SaveMark ==
  /\ mode = "saving" /\ saving.step = "mark"
  /\ ~NullVisited(name[Saved])
  /\ \/ \E i \in DOMAIN thread_list.items :
          LET t == thread_list.items[i] IN
            /\ FirstThread(i, name[Saved])
            /\ status' = MarkWaiting([status EXCEPT ![entryOf[t]] = "PAUSED"])
            /\ cancelled' = [cancelled EXCEPT ![t] = TRUE]
            /\ released' = released \union {t}
            /\ thread_list' = ListRemove(thread_list, i)
     \/ /\ \A i \in DOMAIN thread_list.items : ~FirstThread(i, name[Saved])
        /\ status' = MarkWaiting(status)
        /\ UNCHANGED <<cancelled, managerVars>>
  /\ saving' = [saving EXCEPT !.step = "print"]
  /\ UNCHANGED <<name, wanted, download_queue, entryOf, phase, pc, localVars, response,
                 url, fileVars, mode, starts>>

\* A traversal that does not look for the end of the list.
NextNodeUnseen == [pos |-> saving.pos + 1, step |-> "print"]

NextNode == [pos |-> saving.pos + 1, step |-> "read"]

\* fprintf and fflush, with the status of that moment.
SavePrint ==
  /\ mode = "saving" /\ saving.step = "print"
  /\ index' = Append(index, [url |-> url[Saved], status |-> status[Saved]])
  /\ saving' = NextNode
  /\ UNCHANGED <<vars, url, mode, starts, kept, complete, tangled>>

\* fclose and exit(0).
SaveDone ==
  /\ mode = "saving" /\ saving.pos \notin DOMAIN download_queue.items
  /\ mode' = "down"
  /\ complete' = TRUE
  /\ Gone /\ Abandoned
  /\ UNCHANGED <<index, starts, kept, tangled>>

\* A freed node in the queue or in the thread list, a thread freed twice, or the
\* NULL of one that was never created: the handler walks on for ever, or dies of it.
SaveHangs ==
  /\ mode = "saving"
  /\ download_queue.freed \/ (saving.step = "mark" /\ thread_list.freed)
  /\ mode' = "stuck"
  /\ saving' = AtStart
  /\ UNCHANGED <<vars, url, fileVars, starts>>

\* A second signal: sa_mask is empty and no thread blocks any, so its handler
\* interrupts the first, or runs in a download thread beside it, and opens the
\* index once more.  What is in memory no longer matters.
SignalsTangle ==
  /\ mode \in {"saving", "stuck"}
  /\ mode' = "tangled"
  /\ index' = <<>> /\ kept' = <<>>
  /\ complete' = FALSE /\ tangled' = TRUE
  /\ Gone /\ Abandoned
  /\ UNCHANGED starts

\* What several handlers write over each other: entries once, in part or not at all,
\* with any status (download_pause has stored PAUSED when the second handler takes
\* the first one's place), pieces of two lines read as one.  Bound of the model: no
\* more lines than entries.
Tangles ==
  UNION {[1..n -> [url : Urls \union {StrayUrl}, status : Status]] : n \in 0..Cardinality(Entry)}

\* The first handler that is done calls exit, or the process is killed.
TangledEnd ==
  /\ mode = "tangled"
  /\ mode' = "down"
  /\ index' \in Tangles
  /\ complete' = FALSE /\ tangled' = TRUE
  /\ UNCHANGED <<vars, url, saving, starts, kept>>

\* Such a fault, SIGKILL, a signal before the handlers are installed, a power cut.
Die ==
  /\ mode # "down"
  /\ mode' = "down"
  /\ Gone /\ Abandoned
  /\ UNCHANGED <<fileVars, starts>>

-----------------------------------------------------------------------------
(* queue_load.                                                             *)

\* A loop that drops the line with which it meets the end of the file.
LinesButLast ==
  IF index = NoIndex \/ index = <<>> THEN <<>> ELSE SubSeq(index, 1, Len(index) - 1)

\* The entries queue_load makes out of the index.  while (!feof(...)) appends an
\* entry before it has read a line: a file without lines makes one of nothing.
Lines ==
  IF index = NoIndex THEN <<>>
  ELSE IF index = <<>> THEN <<[url |-> NoUrl, status |-> "WAITING"]>>
  ELSE index

\* What fscanf takes for the URL of line i.  Where it is missing, %s skips both
\* blanks and takes the size field.
UrlOf(i) ==
  IF index # <<>> /\ Lines[i].url = NoUrl THEN StrayUrl ELSE Lines[i].url

\* The name in a line without a client's URL is what get_name_from_url happened to
\* return.  Such a line is a field short: its last %li goes on into the next line,
\* and takes the digits the name there begins with.
NamesOf(i) ==
  IF Lines[i].url \in Urls
  THEN {BaseName[Lines[i].url]} \union
         (IF i > 1 /\ Lines[i - 1].url \notin Urls THEN {Digitless[Lines[i].url]} ELSE {})
  ELSE IF index = <<>> THEN {EmptyName} ELSE Names

\* If that name was empty, the status is read from the size: 0, which is WAITING.
StatusesOf(i) ==
  {Lines[i].status} \union (IF Lines[i].url \in Urls THEN {} ELSE {"WAITING"})

\* g with the values of f where f has any.
Over(f, g) == [x \in DOMAIN g |-> IF x \in DOMAIN f THEN f[x] ELSE g[x]]

\* The first n lines in the queue of a new process, in the entries addresses lists.
Loads(n, addresses) ==
  LET used == {addresses[i] : i \in 1..n}
      line == [e \in used |-> CHOOSE i \in 1..n : addresses[i] = e]
  IN  /\ \E f \in [used -> Names], s \in [used -> Status] :
           /\ \A e \in used : f[e] \in NamesOf(line[e]) /\ s[e] \in StatusesOf(line[e])
           /\ name' = Over(f, name)
           /\ status' = Over(s, status)
           /\ wanted' = Over([e \in used |-> UrlOf(line[e]) \in Urls /\ s[e] = "WAITING"], wanted)
      /\ url' = Over([e \in used |-> UrlOf(line[e])], url)
      /\ download_queue' = [EmptyList EXCEPT !.items = [i \in 1..n |-> addresses[i]]]

\* A load that leaves the entries to the next DOWNLOAD or RESTART.
NeverUpdates(n) == FALSE

\* Whether the update loop runs after n lines: not if there was no index, or if the
\* next entry found no memory.  Then the queue is served as far as it was read.
UpdatesAfter(n) == index # NoIndex /\ n = Len(Lines)

Start ==
  /\ mode = "down"
  /\ starts < MaxStarts
  /\ starts' = starts + 1
  /\ mode' = "loading"
  /\ \E n \in 0..Len(Lines) :
       /\ \E addresses \in [1..n -> Entry] : IsInjective(addresses) /\ Loads(n, addresses)
       /\ pc' = IF UpdatesAfter(n) THEN "update" ELSE "idle"
  /\ UNCHANGED <<threadVars, managerVars, localVars, response, fileVars, saving>>

-----------------------------------------------------------------------------
SaveStep == SaveRead \/ SaveMark \/ SavePrint \/ SaveDone

LifeNext ==
  \/ Loading \/ InstallHandlers \/ Serving \/ Downloading
  \/ Terminate \/ TerminateUnsaved \/ TerminateSticks
  \/ SaveStep \/ SaveHangs \/ SignalsTangle \/ TangledEnd \/ Die \/ Start

LifeSpec == LifeInit /\ [][LifeNext]_allVars

-----------------------------------------------------------------------------
(* Properties.                                                             *)

\* What may become of a status between the signal and its line: a transfer is to
\* wait for the next process, unless it ends, or its thread is just about to store
\* STARTED, which no cancellation point keeps it from.
Outcomes(k) ==
  (IF k.status \in {"STARTED", "STARTING"} THEN {"WAITING"} ELSE {k.status})
    \union (IF k.phase # "ended" THEN {"COMPLETED"} ELSE {})
    \union (IF k.phase = "opening" THEN {"STARTED", "WAITING"} ELSE {})

Tells(u, s, k) == u = k.url /\ (k.alone => s \in Outcomes(k))

\* As long as one signal ended the process, and however it ended then, whatever its
\* threads stored meanwhile, the index is a beginning of the queue at one moment,
\* that of the signal, with no transfer left STARTED and none paused by the saving
\* itself.  (A transfer whose thread was opening its file is the exception: it may
\* be saved as STARTED, and then nobody transfers it and no restart will.  Where a
\* second signal came, nothing of this is left: see TangledEnd.)
IndexTellsQueue ==
  index # NoIndex /\ ~tangled =>
    /\ Len(index) <= Len(kept)
    /\ \A i \in DOMAIN index : Tells(index[i].url, index[i].status, kept[i])

\* A name that was the last part of the URL at place i, unless the line before had no
\* URL and took the digits off its front.
NameTells(n, i) ==
  \/ n = BaseName[kept[i].url]
  \/ i > 1 /\ kept[i - 1].url \notin Urls /\ n = Digitless[kept[i].url]

\* What one process, ended by one signal, saved to the end the next one has in its
\* queue, in that order, each under the name its URL ends in, provided there was
\* anything to save and memory to load it: nothing is lost, doubled, or served in
\* part.  A download of nothing comes back too, and never as one a client asked for.
SurvivesRestart ==
  [][starts' # starts /\ complete /\ kept # <<>> /\ pc' = "update" =>
       LET queue == download_queue'.items IN
         /\ Len(queue) = Len(kept)
         /\ \A i \in DOMAIN queue :
              IF kept[i].url \in Urls
              THEN /\ Tells(url'[queue[i]], status'[queue[i]], kept[i])
                   /\ NameTells(name'[queue[i]], i)
              ELSE url'[queue[i]] \notin Urls
    ]_allVars

\* With a slot for each, every download that waits in the index is taken up again
\* before the controller reads its first request, if all of them were loaded.
ResumesBeforeServing ==
  [][mode = "loading" /\ mode' = "running" /\ MaxDownloads >= Cardinality(Entry)
      /\ index # NoIndex /\ Len(download_queue.items) = Len(Lines) =>
       \A e \in Items(download_queue) : status[e] # "WAITING"]_allVars

\* In every life a thread is started only for a download that a client asked for, in
\* this life or one whose line waits, and that nobody stopped since.  The exception is
\* the download of nothing that an index without lines is taken for, and the stray
\* text it has for a URL in the lives after: nobody asks for these, and every
\* queue_load starts those that wait.
AskedInEachLife ==
  [][\A t \in Thread : phase[t] = "none" /\ phase'[t] # "none" =>
       wanted[entryOf'[t]] \/ url[entryOf'[t]] \notin Urls]_allVars

\* Loaded entries may share a name, so that a request reaches only the first of them.
\* It still stops that one, in every life, where StopReaches says that it does.
StopsInEachLife ==
  [][/\ mode' = "running"
     /\ pc \in {"pause", "cancel"} /\ seen = "STARTED" /\ pc' = "idle"
     /\ ~thread_list.damaged
     /\ OnceStarted(arg) /\ SoleHolder(arg)
     => Stopped(arg)]_allVars

\* And an answered cancel takes this one out of the queue and not its namesake.
CancelsInEachLife ==
  [][mode' = "running" /\ pc = "cancel" /\ pc' = "idle" /\ ~download_queue'.damaged
     => Items(download_queue') = Items(download_queue) \ {arg}]_allVars

-----------------------------------------------------------------------------
(* The invariant behind the proofs.                                        *)

\* What is known at the signal about node i, and stays true of the entry until its
\* line is written, whatever its threads store meanwhile.
Foreseen(i) ==
  LET e == download_queue.items[i]
      k == kept[i]
  IN  /\ k.url = url[e]
      /\ \A j \in DOMAIN kept : download_queue.items[j] = e => kept[j] = k
      /\ k.alone =>
           /\ SameName(e) = {e}
           /\ \A t \in Thread : Created(t, e) =>
                /\ phase[t] = "opening" => k.phase = "opening"
                /\ phase[t] = "performing" => k.phase # "ended"
           /\ i >= saving.pos => status[e] \in {k.status} \union Outcomes(k)
           /\ i = saving.pos =>
                /\ saving.step = "mark" => "WAITING" \in Outcomes(k)
                /\ saving.step = "print" => status[e] \in Outcomes(k)

\* The handler has written as many lines as it has visited nodes, of the queue it found.
Saving ==
  mode = "saving" =>
    /\ index # NoIndex /\ ~complete /\ ~tangled
    /\ Len(index) = saving.pos - 1
    /\ Len(kept) = Len(download_queue.items) /\ saving.pos <= Len(kept) + 1
    /\ \A i \in DOMAIN kept : Foreseen(i)

WholeIndex == complete => index # NoIndex /\ ~tangled /\ Len(index) = Len(kept)

\* The update loop of queue_load leaves nothing behind that waits.
Resuming ==
  /\ mode \in {"down", "tangled"} => pos = 1
  /\ mode = "loading" =>
       /\ pc \in {"update", "starting", "idle", "crashed", "hung", "blocked"}
       /\ pos # 0 /\ IsInjective(download_queue.items)
       /\ MaxDownloads >= Cardinality(Entry) /\ index # NoIndex
          /\ Len(download_queue.items) = Len(Lines) =>
            \A i \in DOMAIN download_queue.items :
              i < pos \/ pc = "idle" => status[download_queue.items[i]] # "WAITING"

LifeIInv == LifeTypeOK /\ IndexTellsQueue /\ Saving /\ WholeIndex /\ Resuming

-----------------------------------------------------------------------------
(* The invariant of every process, although loaded entries may share names. *)

NamedEntries == \A e \in Items(download_queue) : name[e] \in Names

QueuedOnce ==
  \A i, j \in DOMAIN download_queue.items :
    download_queue.items[i] = download_queue.items[j] => i = j

\* What a handler found is the first entry of its name until the handler is done.
FoundFirst ==
  pc \in {"pause", "cancel", "restart"} =>
    \E i \in DOMAIN download_queue.items :
      FirstNamed(i, name[arg]) /\ download_queue.items[i] = arg

ReadNotWaiting == pc \in {"pause", "cancel"} /\ seen # "WAITING" => status[arg] # "WAITING"

\* Every entry that waits was asked for, has no client's URL, or is being started.
WaitsIfAsked ==
  pc \notin {"crashed", "hung"} =>
    \A e \in Items(download_queue) :
      status[e] = "WAITING" =>
        wanted[e] \/ url[e] \notin Urls \/ (pc = "starting" /\ e = Current)

Serves ==
  /\ mode \in {"down", "tangled"} => \A t \in Thread : phase[t] = "none"
  /\ mode \in {"loading", "running"} =>
       NamedEntries /\ QueuedOnce /\ FoundFirst /\ ReadNotWaiting /\ WaitsIfAsked

=============================================================================
