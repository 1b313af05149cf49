----------------------------- MODULE DownloadFile -----------------------------
(***************************************************************************)
(* What download threads do to the file of one URL, and to the figures of  *)
(* one entry (server/downstream/downloadmanager.c: open_file,              *)
(* download_file, progress_callback, delete_file).                         *)
(*                                                                         *)
(* The file has the name of the last part of the URL, and queue_add only   *)
(* compares the names clients give: other entries may have the same URL,   *)
(* and other URLs end in the same part.  Threads of the former are here    *)
(* beside those of the entry; what the latter do to the file is one step,  *)
(* possible at any moment.                                                 *)
(*                                                                         *)
(* A thread opens the file to append, resumes the transfer where the file  *)
(* ends, and hands what libcurl receives to fwrite: it stays in the buffer *)
(* of the thread's FILE until that is full, or the main loop calls         *)
(* fflush(NULL) (controller.c), or the process calls exit, or the thread   *)
(* closes the FILE.  A thread that is cancelled closes nothing: its FILE   *)
(* stays open, with what is left in its buffer.  That is lost only if the  *)
(* process dies.                                                           *)
(*                                                                         *)
(* DownloadQueue and ControllerLifecycle say when threads are created and  *)
(* cancelled, and how a download comes to have two of them; here that is   *)
(* any moment.                                                             *)
(***************************************************************************)
EXTENDS Integers, Sequences

CONSTANTS
  Thread,     \* download threads
  Size,       \* blocks of the file on the server
  MaxLives,   \* bound of the model: how many entries and processes there are
  NoFile,     \* there is no file of that name
  ErrorPage,  \* a block of the page an HTTP server sends with an error
  Foreign     \* a block of what another URL with the same last part names

ASSUME FileAssumption ==
  /\ Size \in Nat /\ MaxLives \in Nat \ {0}
  /\ ErrorPage \notin Nat
  /\ NoFile \notin Seq(1..Size \union {ErrorPage, Foreign})

VARIABLES
  file,        \* the blocks in the file, as numbers of the server's, or NoFile
  phase,       \* where download_file is in a thread
  linked,      \* is the FILE of a thread the one that has the name?
  offset,      \* CURLOPT_RESUME_FROM
  received,    \* the blocks libcurl has received: dlnow
  buffer,      \* those in the buffer of the thread's FILE
  cancelled,   \* pthread_cancel was called
  own,         \* is the thread's entry the one whose figures these are, and queued?
  figures,     \* entry->size and entry->complete of that entry
  indexed,     \* the figures in the index file
  lives,       \* how many entries and processes there have been
  overlapped,  \* history: a transfer began while another could still write the file
  spoiled,     \* history: an error page went into the file
  mixed,       \* history: a download of another URL wrote to the file
  outdated,    \* history: somebody else removed the file the figures are about
  stale        \* history: that file of the figures in the index was removed

threadVars == <<phase, linked, offset, received, buffer, cancelled, own>>
entryVars  == <<figures, indexed, lives, outdated, stale>>
fileVars   == <<file, overlapped, spoiled, mixed>>

vars == <<threadVars, entryVars, fileVars>>

\* opened: the file is open, its length not read yet.  returned: libcurl is done;
\* closed: so is fclose; completed: the status says so; ended: there is no thread.
Phase == {"none", "opening", "opened", "receiving", "returned", "closed", "completed", "ended"}

Block == 1..Size \union {ErrorPage, Foreign}

NoFigures == [size |-> 0, complete |-> 0]

TypeOK ==
  /\ file = NoFile \/ file \in Seq(Block)
  /\ phase \in [Thread -> Phase]
  /\ linked \in [Thread -> BOOLEAN]
  /\ offset \in [Thread -> Nat]
  /\ received \in [Thread -> 0..Size]
  /\ buffer \in [Thread -> Seq(Block)]
  /\ cancelled \in [Thread -> BOOLEAN]
  /\ own \in [Thread -> BOOLEAN]
  /\ {figures, indexed} \subseteq [size : 0..Size, complete : 0..Size]
  /\ lives \in 1..MaxLives
  /\ {overlapped, spoiled, mixed, outdated, stale} \subseteq BOOLEAN
  /\ \A t \in Thread : phase[t] \in {"none", "opening", "opened"} => buffer[t] = <<>>
  /\ \A t \in Thread : linked[t] => file # NoFile

Init ==
  /\ file = NoFile
  /\ phase = [t \in Thread |-> "none"]
  /\ linked = [t \in Thread |-> FALSE]
  /\ offset = [t \in Thread |-> 0]
  /\ received = [t \in Thread |-> 0]
  /\ buffer = [t \in Thread |-> <<>>]
  /\ cancelled = [t \in Thread |-> FALSE]
  /\ own = [t \in Thread |-> FALSE]
  /\ figures = NoFigures /\ indexed = NoFigures
  /\ lives = 1
  /\ overlapped = FALSE /\ spoiled = FALSE /\ mixed = FALSE
  /\ outdated = FALSE /\ stale = FALSE

-----------------------------------------------------------------------------
(* open_file.                                                              *)

Goes(t, from, to) == phase[t] = from /\ phase' = [phase EXCEPT ![t] = to]

\* download_start, for the entry or for another one with its URL.
Create(t) ==
  /\ Goes(t, "none", "opening")
  /\ \E mine \in BOOLEAN : own' = [own EXCEPT ![t] = mine]
  /\ UNCHANGED <<linked, offset, received, buffer, cancelled, entryVars, fileVars>>

OpenFails(t) ==
  /\ Goes(t, "opening", "ended")
  /\ UNCHANGED <<linked, offset, received, buffer, cancelled, own, entryVars, fileVars>>

\* fopen(..., "a") creates the file if there is none.
Open(t) ==
  /\ Goes(t, "opening", "opened")
  /\ linked' = [linked EXCEPT ![t] = TRUE]
  /\ file' = IF file = NoFile THEN <<>> ELSE file
  /\ UNCHANGED <<offset, received, buffer, cancelled, own, entryVars, overlapped, spoiled, mixed>>

\* FILEs of the file that may still add to it.
Writing == {t \in Thread : linked[t] /\ (phase[t] \in {"receiving", "returned"} \/ buffer[t] # <<>>)}

\* A transfer that starts from the beginning whatever is in the file.
FromStart(t) == {0}

\* exists, fseek and ftell: the length of the FILE the thread has opened, if there
\* is a file of the name; what buffers hold is not counted.  A file that was unlinked
\* meanwhile, with another in its place, may have had any length.
ResumeFrom(t) ==
  IF file = NoFile THEN {0} ELSE IF linked[t] THEN {Len(file)} ELSE 0..Size

Seek(t) ==
  /\ Goes(t, "opened", "receiving")
  /\ \E n \in ResumeFrom(t) : offset' = [offset EXCEPT ![t] = n]
  /\ overlapped' = (overlapped \/ (linked[t] /\ Writing # {}))
  /\ UNCHANGED <<linked, received, buffer, cancelled, own, entryVars, file, spoiled, mixed>>

-----------------------------------------------------------------------------
(* curl_easy_perform.                                                      *)

\* The rest of a file that may already be longer than the server's.
Remainder(t) == Size - offset[t]

Left(t) == IF offset[t] < Size THEN Size - offset[t] ELSE 0

\* fwrite, of a block that fits the buffer.
Receive(t) ==
  /\ phase[t] = "receiving"
  /\ received[t] < Left(t)
  /\ received' = [received EXCEPT ![t] = @ + 1]
  /\ buffer' = [buffer EXCEPT ![t] = Append(@, offset[t] + received'[t])]
  /\ UNCHANGED <<phase, linked, offset, cancelled, own, entryVars, fileVars>>

\* Nothing says CURLOPT_FAILONERROR: the page that comes with an error is data, if
\* the request had no range.
ReceivePage(t) ==
  /\ Goes(t, "receiving", "returned")
  /\ offset[t] = 0 /\ received[t] = 0
  /\ buffer' = [buffer EXCEPT ![t] = <<ErrorPage>>]
  /\ spoiled' = (spoiled \/ linked[t])
  /\ UNCHANGED <<linked, offset, received, cancelled, own, entryVars, file, overlapped, mixed>>

\* write() to a file opened with "a".
Written(t) == IF linked[t] THEN file \o buffer[t] ELSE file

\* A full buffer, fflush(NULL) in the main loop, or exit: also for a FILE whose
\* thread has ended.
Flush(t) ==
  /\ buffer[t] # <<>>
  /\ file' = Written(t)
  /\ buffer' = [buffer EXCEPT ![t] = <<>>]
  /\ UNCHANGED <<phase, linked, offset, received, cancelled, own, entryVars,
                 overlapped, spoiled, mixed>>

\* What a transfer has done, the part that was there before it included.
CompleteInAll(t) == offset[t] + received[t]

\* progress_callback is told of this transfer only.
CompleteNow(t) == received[t]

\* progress_callback, a second or more after the one before; the first of all finds
\* the size.
Progress(t) ==
  /\ phase[t] = "receiving"
  /\ own[t]
  /\ \E complete \in {figures.complete, CompleteNow(t)} :
       figures' = [size     |-> IF figures.size = 0 THEN Left(t) ELSE figures.size,
                   complete |-> IF Left(t) = 0 THEN figures.complete ELSE complete]
  /\ UNCHANGED <<threadVars, indexed, lives, outdated, stale, fileVars>>

\* All is there, or an error: nobody looks at the result.
Return(t) ==
  /\ Goes(t, "receiving", "returned")
  /\ UNCHANGED <<linked, offset, received, buffer, cancelled, own, entryVars, fileVars>>

-----------------------------------------------------------------------------
(* The end of a thread.                                                    *)

\* COMPLETED before the file is closed.
CloseLater(t) ==
  /\ Goes(t, "returned", "completed")
  /\ UNCHANGED <<linked, offset, received, buffer, cancelled, own, entryVars, fileVars>>

\* fclose.
Close(t) ==
  /\ Goes(t, "returned", "closed")
  /\ file' = Written(t)
  /\ buffer' = [buffer EXCEPT ![t] = <<>>]
  /\ UNCHANGED <<linked, offset, received, cancelled, own, entryVars, overlapped, spoiled, mixed>>

\* The status becomes COMPLETED.
Complete(t) ==
  /\ Goes(t, "closed", "completed")
  /\ UNCHANGED <<linked, offset, received, buffer, cancelled, own, entryVars, fileVars>>

\* download_pause, or queue_save.
Stop(t) ==
  /\ phase[t] \notin {"none", "ended"} /\ ~cancelled[t]
  /\ cancelled' = [cancelled EXCEPT ![t] = TRUE]
  /\ UNCHANGED <<phase, linked, offset, received, buffer, own, entryVars, fileVars>>

\* Cancellation is deferred; fclose is the last cancellation point.
ActOnCancel(t) ==
  /\ cancelled[t]
  /\ phase[t] \in {"opening", "opened", "receiving", "returned"}
  /\ phase' = [phase EXCEPT ![t] = "ended"]
  /\ UNCHANGED <<linked, offset, received, buffer, cancelled, own, entryVars, fileVars>>

\* delete_file.  FILEs that are open keep the old file, which has no name any more;
\* unlink may fail.
Unlink ==
  \/ file' = NoFile /\ linked' = [u \in Thread |-> FALSE]
  \/ UNCHANGED <<file, linked>>

\* download_cancel, on a thread of the entry: it leaves the queue, and a client may
\* add a new one for the URL.
Delete(t) ==
  /\ phase[t] # "none" /\ own[t]
  /\ lives < MaxLives
  /\ lives' = lives + 1
  /\ cancelled' = [cancelled EXCEPT ![t] = TRUE]
  /\ own' = [u \in Thread |-> FALSE]
  /\ figures' = NoFigures /\ outdated' = FALSE
  /\ stale' = (indexed # NoFigures)
  /\ Unlink
  /\ UNCHANGED <<phase, offset, received, buffer, indexed, overlapped, spoiled, mixed>>

\* Nobody tells the entry, which may have figures already, or a thread that has read
\* the length of the file.
Untold ==
  /\ outdated' = (outdated \/ figures # NoFigures
                    \/ \E t \in Thread : own[t] /\ phase[t] \in {"opened", "receiving"})
  /\ stale' = (indexed # NoFigures)
  /\ UNCHANGED <<figures, indexed>>

\* The same of another entry that has the URL: the file goes, the figures stay.
DeleteOther(t) ==
  /\ phase[t] # "none" /\ ~own[t]
  /\ lives < MaxLives
  /\ lives' = lives + 1
  /\ cancelled' = [cancelled EXCEPT ![t] = TRUE]
  /\ Unlink
  /\ Untold
  /\ UNCHANGED <<phase, offset, received, buffer, own, overlapped, spoiled, mixed>>

\* A download of another URL with the same last part creates the file, or resumes it
\* where it ends; bound of the model: it does so once, and writes at most a block.
WriteForeign ==
  /\ ~mixed
  /\ LET found == IF file = NoFile THEN <<>> ELSE file
     IN  file' \in {found, Append(found, Foreign)}
  /\ mixed' = TRUE
  /\ UNCHANGED <<threadVars, entryVars, overlapped, spoiled>>

\* Or it is cancelled.
DeleteForeign ==
  /\ file # NoFile
  /\ lives < MaxLives
  /\ lives' = lives + 1
  /\ file' = NoFile /\ linked' = [u \in Thread |-> FALSE]
  /\ Untold
  /\ UNCHANGED <<phase, offset, received, buffer, cancelled, own, overlapped, spoiled, mixed>>

\* queue_save writes the figures down, at a signal.
Save ==
  /\ indexed # figures \/ stale # outdated
  /\ indexed' = figures
  /\ stale' = outdated
  /\ UNCHANGED <<threadVars, figures, lives, outdated, fileVars>>

\* The process dies, of whatever, and is started again; the entry comes out of the
\* index, or is added once more.
Restart ==
  /\ lives < MaxLives
  /\ lives' = lives + 1
  /\ phase' = [t \in Thread |-> "none"]
  /\ linked' = [t \in Thread |-> FALSE]
  /\ offset' = [t \in Thread |-> 0]
  /\ received' = [t \in Thread |-> 0]
  /\ buffer' = [t \in Thread |-> <<>>]
  /\ cancelled' = [t \in Thread |-> FALSE]
  /\ own' = [t \in Thread |-> FALSE]
  /\ \/ figures' = indexed /\ outdated' = stale
     \/ figures' = NoFigures /\ outdated' = FALSE
  /\ UNCHANGED <<indexed, stale, fileVars>>

-----------------------------------------------------------------------------
OpenFile(t) == OpenFails(t) \/ Open(t) \/ Seek(t)

Perform(t) == Receive(t) \/ ReceivePage(t) \/ Progress(t) \/ Return(t)

ThreadStep(t) == OpenFile(t) \/ Perform(t) \/ Close(t) \/ Complete(t) \/ ActOnCancel(t)

Next ==
  \/ \E t \in Thread :
       Create(t) \/ ThreadStep(t) \/ Flush(t) \/ Stop(t) \/ Delete(t) \/ DeleteOther(t)
  \/ WriteForeign \/ DeleteForeign \/ Save \/ Restart

Spec == Init /\ [][Next]_vars

-----------------------------------------------------------------------------
(* Properties.                                                             *)

\* However often a download is paused, resumed, interrupted by the death of the
\* process or cancelled and added again, by however many entries of its URL, the file
\* is a beginning of the server's, without a gap or a repetition, as long as no other
\* URL with the same last part was downloaded to it, and no transfer began while an
\* earlier one could still write: neither its thread, on the way to a cancellation
\* point, nor what it left in the buffer of a FILE nobody closes.
ResumesWhereItEnds ==
  ~overlapped /\ ~spoiled /\ ~mixed /\ file # NoFile => \A i \in DOMAIN file : file[i] = i

\* A download that says COMPLETED has all it received in the file, not in the
\* buffers that the process takes with it when it dies.
CompletedIsOnDisk ==
  \A t \in Thread :
    phase[t] = "completed" /\ linked[t] => Len(file) >= offset[t] + received[t]

\* Over all transfers of a download, each of which counts from where it resumed,
\* status reports ("Downloaded x of y") never show more than the size, whatever else
\* is written to the file: unless transfers overlapped, or the cancel of another entry
\* removed the file, after which this one begins anew under the size it had left.
ProgressFits == ~overlapped /\ ~outdated => figures.complete <= figures.size

-----------------------------------------------------------------------------
(* The invariant behind the proofs.                                        *)

Clean == ~overlapped /\ ~spoiled /\ ~mixed

\* A transfer begins with nothing received, and ends with what was left to receive.
ReceivesWhatIsLeft ==
  \A t \in Thread :
    /\ phase[t] \in {"none", "opening", "opened"} => received[t] = 0
    /\ phase[t] = "receiving" => received[t] <= Left(t)

\* A thread of the entry has its file open under the file's name, if no other entry
\* took the name away.
OwnIsLinked ==
  ~outdated =>
    \A t \in Thread : own[t] /\ phase[t] \in {"opened", "receiving"} => linked[t]

\* A file with a name only grows: what was there when a transfer began, and what it
\* received, is in the file or the buffer.
NothingIsLost ==
  \A t \in Thread : linked[t] /\ phase[t] \in {"receiving", "returned", "closed", "completed"} =>
    /\ Len(file) >= offset[t]
    /\ Len(file) + Len(buffer[t]) >= offset[t] + received[t]
    /\ phase[t] \in {"closed", "completed"} => buffer[t] = <<>>

OneWriter == ~overlapped => \A t, u \in Writing : t = u

\* What is still to be written goes on where the file ends.
BufferContinues ==
  Clean => \A t \in Writing :
    /\ Len(file) + Len(buffer[t]) = offset[t] + received[t]
    /\ \A i \in DOMAIN buffer[t] : buffer[t][i] = Len(file) + i

\* No transfer of an entry has more to receive than the first one, whose size
\* the entry keeps.
Follows(f) ==
  /\ f.complete <= f.size
  /\ f.size # 0 => file # NoFile /\ Size <= Len(file) + f.size

FiguresFollow ==
  ~overlapped =>
    /\ ~outdated =>
         /\ Follows(figures)
         /\ \A t \in Thread :
              own[t] /\ phase[t] = "receiving" /\ figures.size # 0 => Left(t) <= figures.size
    /\ ~stale => Follows(indexed)

IInv ==
  /\ TypeOK /\ ReceivesWhatIsLeft /\ OwnIsLinked /\ NothingIsLost
  /\ OneWriter /\ BufferContinues /\ ResumesWhereItEnds /\ FiguresFollow

=============================================================================
