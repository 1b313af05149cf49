-------------------------------- MODULE Settings --------------------------------
(***************************************************************************)
(* The options of dsserver and dsclient: the configuration file, what the  *)
(* programs load from it (common/options.c), what their main functions do  *)
(* to the options then (server/dsserver.c, client/dsclient.c), and --init, *)
(* which writes the file.                                                  *)
(*                                                                         *)
(* options_new allocates the options and initialises nothing: an option    *)
(* that neither the file nor a default gives a value is what memory held.  *)
(* The file is written through a buffer, so that a process that dies       *)
(* before that is flushed leaves it empty, and empty it is loaded next.    *)
(*                                                                         *)
(* Nobody looks at what sscanf returns: a line after whose "=" there is    *)
(* nothing it can convert leaves the option as it was.  Nor does %256s     *)
(* read more of a text than its part before a blank, or fgets more of a    *)
(* line than 254 characters.                                               *)
(***************************************************************************)
EXTENDS Naturals

CONSTANTS
  Programs,  \* out of {"dsserver", "dsclient"}
  NoFile

ASSUME SettingsAssumption == Programs \subseteq {"dsserver", "dsclient"}

VARIABLES
  program,  \* which of the two; each has a file of its own
  file,     \* the lines of the configuration file, by option, or NoFile
  phase,    \* what the process does next
  options,  \* the options in its memory
  lacking   \* history: options that a file that was loaded once had no value for

vars == <<program, file, phase, options, lacking>>

\* port stands for max_concurrent_downloads too, which no argument sets, and destdir
\* for logdir.
Option == {"port", "host", "destdir", "timeout", "keep_alive", "quiet", "debug"}

Texts == {"host", "destdir"}

Flags == {"keep_alive", "quiet", "debug"}

\* garbage: whatever malloc left there.  nothing: the empty text; in the file also what
\* is no number where one should be.  parted: text that is not read as a whole; part:
\* what is read of it.
Values == {"off", "on", "default", "other", "parted", "part", "nothing", "garbage"}

Value(o) ==
  (IF o \in Flags THEN {"off", "on"} ELSE {"default", "other"})
    \union (IF o \in Texts THEN {"parted", "part", "nothing"} ELSE {})
    \union {"garbage"}

\* What a line may have for an option.
LineValue(o) == Value(o) \union {"nothing"}

\* The options in the file of a program.
Lines(p) ==
  IF p = "dsserver" THEN {"port", "host", "destdir", "timeout", "quiet", "debug"}
  ELSE {"port", "host", "timeout", "keep_alive"}

\* none: there is no process; created, truncated: fopen with "w+" has made the file
\* empty, and its lines are in the buffer; loaded: options_new has returned.
TypeOK ==
  /\ program \in Programs
  /\ file # NoFile =>
       DOMAIN file \subseteq Lines(program) /\ \A o \in DOMAIN file : file[o] \in LineValue(o)
  /\ phase \in {"none", "loading", "created", "loaded", "parsing", "truncated", "running"}
  /\ options \in [Option -> Values] /\ \A o \in Option : options[o] \in Value(o)
  /\ lacking \subseteq Lines(program)

Garbage == [o \in Option |-> "garbage"]

Empty == [o \in {} |-> "garbage"]

Init ==
  /\ program \in Programs
  /\ file = NoFile
  /\ phase = "none"
  /\ options = Garbage
  /\ lacking = {}

-----------------------------------------------------------------------------
(* Functions of options.c.                                                 *)

\* A file with all options, whichever program it is for.
WritesAll(o) == o

\* options_write_for_server and options_write_for_client.
Written(o) == [l \in Lines(program) |-> o[l]]

\* What the two have for a file that does not exist, with directories in $HOME, whose
\* name may have a blank.
Defaults(o, home) ==
  IF program = "dsserver"
  THEN [o EXCEPT !["port"] = "default", !["host"] = "default", !["destdir"] = home,
                 !["quiet"] = "off", !["debug"] = "on"]
  ELSE [o EXCEPT !["port"] = "default", !["host"] = "default", !["timeout"] = "default",
                 !["keep_alive"] = "off"]

\* The lines sscanf finds a value in.
Readable == {l \in DOMAIN file : file[l] # "nothing"}

\* What it finds there.
Scanned(l) == IF file[l] = "parted" THEN "part" ELSE file[l]

\* options_read_short and options_read_char.
ReadLine(o, l) == IF l \in Readable THEN [o EXCEPT ![l] = Scanned(l)] ELSE o

\* options_read_short into a bool: two bytes, the second of which is the flag that
\* follows in options_t.
ReadFlag(o, l, next) ==
  IF l \in Readable THEN [o EXCEPT ![l] = Scanned(l), ![next] = "off"] ELSE o

\* The last flag is followed by padding.
ReadLastFlag(o, l) == ReadLine(o, l)

\* The flags of the server, in the order in which options_t does not have them.
ReadFlagsBackwards(o) == ReadFlag(ReadLastFlag(o, "debug"), "quiet", "debug")

ReadFlags(o) == ReadLastFlag(ReadFlag(o, "quiet", "debug"), "debug")

\* port, ip and timeout, in both programs.
ReadConnection(o) == ReadLine(ReadLine(ReadLine(o, "port"), "host"), "timeout")

ReadForServer(o) == ReadFlags(ReadLine(ReadConnection(o), "destdir"))

ReadForClient(o) == ReadFlag(ReadConnection(o), "keep_alive", "quiet")

Read(o) == IF program = "dsserver" THEN ReadForServer(o) ELSE ReadForClient(o)

\* A server that takes its timeout from the file, or has none.
FinishNothing(o) == o

\* The last lines of options_new_for_server.  The call of options_new_for_client
\* after it looks for lines that the server's file does not have.
Finish(o) == IF program = "dsserver" THEN [o EXCEPT !["timeout"] = "default"] ELSE o

-----------------------------------------------------------------------------
(* A process.                                                              *)

\* main, options_get_filename and malloc.
Start ==
  /\ phase = "none"
  /\ phase' = "loading"
  /\ UNCHANGED <<program, file, options, lacking>>

\* options_new_for_server or options_new_for_client of a file that exists.
Load ==
  /\ phase = "loading"
  /\ file # NoFile
  /\ options' = Finish(Read(options))
  /\ phase' = "loaded"
  /\ lacking' = lacking \union (Lines(program) \ Readable)
  /\ UNCHANGED <<program, file>>

\* The same if it does not exist, up to fopen.
Create ==
  /\ phase = "loading"
  /\ file = NoFile
  /\ \E home \in {"default", "parted"} : options' = Defaults(options, home)
  /\ file' = Empty
  /\ phase' = "created"
  /\ UNCHANGED <<program, lacking>>

\* fflush and the rest.
FlushCreated ==
  /\ phase = "created"
  /\ file' = Written(options)
  /\ options' = Finish(options)
  /\ phase' = "loaded"
  /\ UNCHANGED <<program, lacking>>

\* The main function of the server sets two options itself.
Settle ==
  /\ phase = "loaded"
  /\ options' = IF program = "dsserver"
                THEN [options EXCEPT !["quiet"] = "off", !["debug"] = "on"] ELSE options
  /\ phase' = "parsing"
  /\ UNCHANGED <<program, file, lacking>>

\* -p, -H, -q, -d and -k.
Arguments ==
  {"port", "host"} \union (IF program = "dsserver" THEN {"quiet", "debug"} ELSE {"keep_alive"})

\* What an argument gives: strtol always finds a number.
Given(o) ==
  IF o \in Flags THEN {"on"} ELSE IF o \in Texts THEN {"other", "parted", "nothing"} ELSE {"other"}

ParseArgument ==
  /\ phase = "parsing"
  /\ \E o \in Arguments : \E v \in Given(o) : options' = [options EXCEPT ![o] = v]
  /\ UNCHANGED <<program, file, phase, lacking>>

\* -i: fopen in options_save.  What follows on the command line is not parsed.
Save ==
  /\ phase = "parsing"
  /\ file' = Empty
  /\ phase' = "truncated"
  /\ UNCHANGED <<program, options, lacking>>

\* main returns, and the file is flushed.
FlushSaved ==
  /\ phase = "truncated"
  /\ file' = Written(options)
  /\ phase' = "none" /\ options' = Garbage
  /\ UNCHANGED <<program, lacking>>

\* All arguments are parsed: run.
Run ==
  /\ phase = "parsing"
  /\ phase' = "running"
  /\ UNCHANGED <<program, file, options, lacking>>

\* The process ends, is killed, or fails to make its directories; in
\* pthread_mutex_lock, on a mutex nobody initialised, it may have to be killed.
Die ==
  /\ phase # "none"
  /\ phase' = "none" /\ options' = Garbage
  /\ UNCHANGED <<program, file, lacking>>

\* The user edits the file while there is no process.
Edit ==
  /\ phase = "none"
  /\ file # NoFile
  /\ \E o \in Lines(program) :
       \/ \E v \in LineValue(o) \ {"garbage"} :
            file' = [l \in DOMAIN file \union {o} |-> IF l = o THEN v ELSE file[l]]
       \/ file' = [l \in DOMAIN file \ {o} |-> file[l]]
  /\ UNCHANGED <<program, phase, options, lacking>>

-----------------------------------------------------------------------------
Next ==
  \/ Start \/ Load \/ Create \/ FlushCreated
  \/ Settle \/ ParseArgument \/ Save \/ FlushSaved \/ Run
  \/ Die \/ Edit

Spec == Init /\ [][Next]_vars

-----------------------------------------------------------------------------
(* Properties.                                                             *)

\* A process runs with an option nobody gave a value, neither default nor file nor
\* argument, only if it, or a process that saved its options, had loaded a file without
\* a value for it: one a user edited, one that -H with an empty text was saved in, or
\* one a process that died left empty.
RunsInitialised ==
  phase = "running" => \A o \in Lines(program) : options[o] = "garbage" => o \in lacking

\* Each line of the file is what options_new returns, if there is a value in it that
\* can be read as a whole, although a flag is read with the byte that follows it; but
\* for the server's timeout.
LoadsEachLine ==
  phase = "loaded" =>
    \A o \in DOMAIN file :
      \/ options[o] = file[o]
      \/ file[o] \in {"nothing", "parted"}
      \/ program = "dsserver" /\ o = "timeout"

-----------------------------------------------------------------------------
(* The invariant behind the proofs.                                        *)

\* The one option that is written down before it has a value, and overwritten when
\* it is read.
NeverRead(o) == program = "dsserver" /\ o = "timeout"

\* What processes leave in the file.
LinesGiven ==
  file # NoFile => \A o \in DOMAIN file : file[o] = "garbage" => o \in lacking \/ NeverRead(o)

\* What has a value between Defaults and the end of options_new, and after that.
OptionsGiven ==
  \A o \in Lines(program) : options[o] = "garbage" =>
    /\ phase = "created" => NeverRead(o)
    /\ phase \in {"loaded", "parsing", "truncated", "running"} => o \in lacking

IInv == TypeOK /\ LinesGiven /\ OptionsGiven /\ LoadsEachLine

=============================================================================
