----------------------------- MODULE SettingsProofs -----------------------------
(***************************************************************************)
(* Theorems about Settings, for both programs and whatever is edited,      *)
(* saved and interrupted, any number of times.                             *)
(***************************************************************************)
EXTENDS Settings, TLAPS

-----------------------------------------------------------------------------
(* What is read.                                                           *)

\* Options each of which has a value it may have.
IsOptions(o) == o \in [Option -> Values] /\ \A l \in Option : o[l] \in Value(l)

\* What sscanf finds is something the option may be.
LEMMA ScannedType ==
  ASSUME TypeOK, file # NoFile, NEW l \in Readable
  PROVE  Scanned(l) \in Value(l) /\ Scanned(l) \in Values
<1>1. file[l] \in LineValue(l) /\ file[l] # "nothing"
  BY DEF TypeOK, Readable
<1>2. file[l] \in Value(l)
  BY <1>1 DEF LineValue
<1>3. Value(l) \subseteq Values
  BY DEF Value, Values
<1>4. file[l] = "parted" => "part" \in Value(l)
  BY <1>2 DEF Value
<1> QED BY <1>2, <1>3, <1>4 DEF Scanned

\* A line that is there becomes the option's value, as far as it is read, and touches no
\* other.
LEMMA LineRead ==
  ASSUME TypeOK, file # NoFile, NEW o, IsOptions(o), NEW l \in Option
  PROVE  /\ IsOptions(ReadLine(o, l))
         /\ \A k \in Option : ReadLine(o, l)[k] = IF k = l /\ l \in Readable THEN Scanned(l) ELSE o[k]
<1>1. l \in Readable => Scanned(l) \in Value(l) /\ Scanned(l) \in Values
  BY ScannedType
<1> QED BY <1>1 DEF ReadLine, IsOptions

\* A flag that is there becomes the option's value, and takes the next flag with it.
LEMMA FlagRead ==
  ASSUME TypeOK, file # NoFile, NEW o, IsOptions(o), NEW l \in Option, NEW next \in Flags, l # next
  PROVE  /\ IsOptions(ReadFlag(o, l, next))
         /\ \A k \in Option :
              ReadFlag(o, l, next)[k] =
                IF l \notin Readable THEN o[k]
                ELSE IF k = l THEN Scanned(l) ELSE IF k = next THEN "off" ELSE o[k]
<1>1. l \in Readable => Scanned(l) \in Value(l) /\ Scanned(l) \in Values
  BY ScannedType
<1>2. next \in Option /\ "off" \in Value(next) /\ "off" \in Values
  BY DEF Flags, Option, Value, Values
<1>3. CASE l \notin Readable
  BY <1>3 DEF ReadFlag
<1>4. CASE l \in Readable
  <2>1. ReadFlag(o, l, next) = [o EXCEPT ![l] = Scanned(l), ![next] = "off"]
    BY <1>4 DEF ReadFlag
  <2> QED BY <1>1, <1>2, <1>4, <2>1 DEF IsOptions
<1> QED BY <1>3, <1>4

\* What both programs read first.
LEMMA ConnectionRead ==
  ASSUME TypeOK, file # NoFile, IsOptions(options)
  PROVE  /\ IsOptions(ReadConnection(options))
         /\ \A l \in Readable \intersect {"port", "host", "timeout"} :
              ReadConnection(options)[l] = Scanned(l)
<1> DEFINE o1 == ReadLine(options, "port")
           o2 == ReadLine(o1, "host")
           o3 == ReadLine(o2, "timeout")
<1>0. {"port", "host", "timeout"} \subseteq Option
  BY DEF Option
<1>1. IsOptions(o1) /\ \A k \in Option : o1[k] = IF k = "port" /\ "port" \in Readable THEN Scanned("port") ELSE options[k]
  BY <1>0, LineRead
<1> HIDE DEF o1
<1>2. IsOptions(o2) /\ \A k \in Option : o2[k] = IF k = "host" /\ "host" \in Readable THEN Scanned("host") ELSE o1[k]
  BY <1>0, <1>1, LineRead
<1> HIDE DEF o2
<1>3. IsOptions(o3) /\ \A k \in Option : o3[k] = IF k = "timeout" /\ "timeout" \in Readable THEN Scanned("timeout") ELSE o2[k]
  BY <1>0, <1>2, LineRead
<1> HIDE DEF o3
<1>4. ReadConnection(options) = o3
  BY DEF ReadConnection, o1, o2, o3
<1>5. ASSUME NEW l \in Readable, l \in {"port", "host", "timeout"} PROVE o3[l] = Scanned(l)
  <2>1. CASE l = "port"
    BY <1>0, <1>1, <1>2, <1>3, <1>5, <2>1
  <2>2. CASE l = "host"
    BY <1>0, <1>2, <1>3, <1>5, <2>2
  <2>3. CASE l = "timeout"
    BY <1>0, <1>3, <1>5, <2>3
  <2> QED BY <1>5, <2>1, <2>2, <2>3
<1> QED BY <1>3, <1>4, <1>5

\* What the server has read has all lines of the file that have a value.
LEMMA ServerRead ==
  ASSUME TypeOK, file # NoFile, program = "dsserver", IsOptions(options)
  PROVE  /\ IsOptions(Read(options))
         /\ \A l \in Readable : Read(options)[l] = Scanned(l)
<1> DEFINE o1 == ReadConnection(options)
           o2 == ReadLine(o1, "destdir")
           o3 == ReadFlag(o2, "quiet", "debug")
           o4 == ReadLine(o3, "debug")
<1>0. /\ {"port", "host", "timeout", "destdir", "quiet", "debug"} \subseteq Option
      /\ "debug" \in Flags /\ "quiet" # "debug"
  BY DEF Option, Flags
<1>1. IsOptions(o1) /\ \A l \in Readable \intersect {"port", "host", "timeout"} : o1[l] = Scanned(l)
  BY ConnectionRead
<1> HIDE DEF o1
<1>2. IsOptions(o2) /\ \A k \in Option : o2[k] = IF k = "destdir" /\ "destdir" \in Readable THEN Scanned("destdir") ELSE o1[k]
  BY <1>0, <1>1, LineRead
<1> HIDE DEF o2
<1>3. /\ IsOptions(o3)
      /\ \A k \in Option :
           o3[k] = IF "quiet" \notin Readable THEN o2[k]
                   ELSE IF k = "quiet" THEN Scanned("quiet") ELSE IF k = "debug" THEN "off" ELSE o2[k]
  BY <1>0, <1>2, FlagRead
<1> HIDE DEF o3
<1>4. IsOptions(o4) /\ \A k \in Option : o4[k] = IF k = "debug" /\ "debug" \in Readable THEN Scanned("debug") ELSE o3[k]
  BY <1>0, <1>3, LineRead
<1> HIDE DEF o4
<1>5. Read(options) = o4
  BY DEF Read, ReadForServer, ReadFlags, ReadLastFlag, o1, o2, o3, o4
<1>6. ASSUME NEW l \in Readable PROVE o4[l] = Scanned(l)
  <2>1. l \in {"port", "host", "timeout", "destdir", "quiet", "debug"}
    BY DEF TypeOK, Lines, Readable
  <2>2. CASE l \in {"port", "host", "timeout"}
    <3>1. l \in Option /\ l \notin {"destdir", "quiet", "debug"}
      BY <2>2 DEF Option
    <3>2. o1[l] = Scanned(l)
      BY <1>1, <1>6, <2>2
    <3> QED BY <1>2, <1>3, <1>4, <3>1, <3>2
  <2>3. CASE l = "destdir"
    BY <1>0, <1>2, <1>3, <1>4, <1>6, <2>3
  <2>4. CASE l = "quiet" \/ l = "debug"
    BY <1>0, <1>3, <1>4, <1>6, <2>4
  <2> QED BY <2>1, <2>2, <2>3, <2>4
<1> QED BY <1>4, <1>5, <1>6

\* So has what the client has read.
LEMMA ClientRead ==
  ASSUME TypeOK, file # NoFile, program = "dsclient", IsOptions(options)
  PROVE  /\ IsOptions(Read(options))
         /\ \A l \in Readable : Read(options)[l] = Scanned(l)
<1> DEFINE o1 == ReadConnection(options)
           o2 == ReadFlag(o1, "keep_alive", "quiet")
<1>0. {"port", "host", "timeout", "keep_alive"} \subseteq Option /\ "quiet" \in Flags /\ "keep_alive" # "quiet"
  BY DEF Option, Flags
<1>1. IsOptions(o1) /\ \A l \in Readable \intersect {"port", "host", "timeout"} : o1[l] = Scanned(l)
  BY ConnectionRead
<1> HIDE DEF o1
<1>2. /\ IsOptions(o2)
      /\ \A k \in Option :
           o2[k] = IF "keep_alive" \notin Readable THEN o1[k]
                   ELSE IF k = "keep_alive" THEN Scanned("keep_alive") ELSE IF k = "quiet" THEN "off" ELSE o1[k]
  BY <1>0, <1>1, FlagRead
<1> HIDE DEF o2
<1>3. Read(options) = o2
  BY DEF Read, ReadForClient, o1, o2
<1>4. ASSUME NEW l \in Readable PROVE o2[l] = Scanned(l)
  <2>1. l \in {"port", "host", "timeout", "keep_alive"}
    BY DEF TypeOK, Lines, Readable
  <2>2. CASE l \in {"port", "host", "timeout"}
    <3>1. l \in Option /\ l \notin {"keep_alive", "quiet"}
      BY <2>2 DEF Option
    <3>2. o1[l] = Scanned(l)
      BY <1>1, <1>4, <2>2
    <3> QED BY <1>2, <3>1, <3>2
  <2>3. CASE l = "keep_alive"
    BY <1>0, <1>2, <1>4, <2>3
  <2> QED BY <2>1, <2>2, <2>3
<1> QED BY <1>2, <1>3, <1>4

\* What options_new returns for a file: its lines, and a timeout for the server.
LEMMA Loaded ==
  ASSUME TypeOK, file # NoFile
  PROVE  /\ IsOptions(Finish(Read(options)))
         /\ \A l \in Readable : Finish(Read(options))[l] = Scanned(l) \/ NeverRead(l)
         /\ program = "dsserver" => Finish(Read(options))["timeout"] = "default"
<1>1. program = "dsserver" \/ program = "dsclient"
  BY SettingsAssumption DEF TypeOK
<1>2. IsOptions(Read(options)) /\ \A l \in Readable : Read(options)[l] = Scanned(l)
  <2>1. IsOptions(options)
    BY DEF TypeOK, IsOptions
  <2> QED BY <1>1, <2>1, ServerRead, ClientRead
<1>3. /\ "timeout" \in Option /\ "default" \in Values /\ "default" \in Value("timeout")
      /\ Readable \subseteq Option
  BY <1>1 DEF Option, Value, Values, Flags, TypeOK, Lines, Readable
<1> DEFINE read == Read(options)
<1> HIDE DEF read
<1>4. IsOptions(read) /\ \A l \in Readable : read[l] = Scanned(l)
  BY <1>2 DEF read
<1>5. CASE program = "dsserver"
  <2>1. Finish(read) = [read EXCEPT !["timeout"] = "default"]
    BY <1>5 DEF Finish
  <2>2. /\ IsOptions(Finish(read))
        /\ \A l \in Option : Finish(read)[l] = IF l = "timeout" THEN "default" ELSE read[l]
    BY <1>3, <1>4, <2>1 DEF IsOptions
  <2> QED BY <1>3, <1>4, <1>5, <2>2 DEF read, NeverRead
<1>6. CASE program = "dsclient"
  BY <1>4, <1>6 DEF Finish, read
<1> QED BY <1>1, <1>5, <1>6

\* What options_new writes for a file that does not exist has all its values but one,
\* which it gives the options it returns.
LEMMA Created ==
  ASSUME TypeOK, NEW home \in {"default", "parted"}
  PROVE  /\ IsOptions(Defaults(options, home))
         /\ \A l \in Lines(program) : Defaults(options, home)[l] = "garbage" => NeverRead(l)
         /\ IsOptions(Finish(options))
         /\ \A l \in Lines(program) :
              Finish(options)[l] = IF NeverRead(l) THEN "default" ELSE options[l]
         /\ Lines(program) \subseteq Option
<1> USE DEF IsOptions, NeverRead, Lines
<1>1. program = "dsserver" \/ program = "dsclient"
  BY SettingsAssumption DEF TypeOK
<1>2. IsOptions(options)
  BY DEF TypeOK
<1>3. /\ {"port", "host", "destdir", "timeout", "keep_alive", "quiet", "debug"} = Option
      /\ {"off", "on", "default", "parted"} \subseteq Values
      /\ \A l \in {"port", "host", "destdir", "timeout"} : "default" \in Value(l)
      /\ "parted" \in Value("destdir")
      /\ \A l \in {"keep_alive", "quiet", "debug"} : {"off", "on"} \subseteq Value(l)
  BY DEF Option, Values, Value, Flags, Texts
<1>4. CASE program = "dsserver"
  <2>1. /\ Defaults(options, home) = [options EXCEPT !["port"] = "default", !["host"] = "default",
                                        !["destdir"] = home, !["quiet"] = "off", !["debug"] = "on"]
        /\ Finish(options) = [options EXCEPT !["timeout"] = "default"]
    BY <1>4 DEF Defaults, Finish
  <2>2. /\ IsOptions(Defaults(options, home))
        /\ \A l \in Lines(program) : Defaults(options, home)[l] = "garbage" => NeverRead(l)
    BY <1>2, <1>3, <1>4, <2>1
  <2>3. IsOptions(Finish(options))
    BY <1>2, <1>3, <2>1
  <2> QED BY <1>2, <1>3, <1>4, <2>1, <2>2, <2>3
<1>5. CASE program = "dsclient"
  <2>1. /\ Defaults(options, home) = [options EXCEPT !["port"] = "default", !["host"] = "default",
                                        !["timeout"] = "default", !["keep_alive"] = "off"]
        /\ Finish(options) = options
    BY <1>5 DEF Defaults, Finish
  <2> QED BY <1>2, <1>3, <1>5, <2>1
<1> QED BY <1>1, <1>4, <1>5

-----------------------------------------------------------------------------
(* Every action keeps the invariant.                                       *)

\* A file that has the options of a process has lines that are there and values that
\* may be.
LEMMA WrittenType ==
  ASSUME TypeOK
  PROVE  /\ DOMAIN Written(options) = Lines(program)
         /\ \A l \in Lines(program) : Written(options)[l] = options[l] /\ options[l] \in LineValue(l)
<1>1. Lines(program) \subseteq Option
  BY Created
<1> QED BY <1>1 DEF Written, TypeOK, LineValue

\* Each step keeps the types, and what has a value.
LEMMA SettingsStep == IInv /\ [Next]_vars => IInv'
<1> SUFFICES ASSUME IInv, [Next]_vars PROVE IInv'
  OBVIOUS
<1>0. TypeOK /\ LinesGiven /\ OptionsGiven /\ LoadsEachLine
  BY DEF IInv
<1>a. Lines(program) \subseteq Option /\ (program' = program => Lines(program') = Lines(program))
  BY <1>0, Created
<1>b. Garbage \in [Option -> Values] /\ \A o \in Option : Garbage[o] \in Value(o)
  BY DEF Garbage, Values, Value
<1>1. CASE UNCHANGED vars
  BY <1>1 DEF vars, IInv, TypeOK, LinesGiven, OptionsGiven, LoadsEachLine, NeverRead
<1>2. CASE Start
  BY <1>0, <1>2 DEF Start, IInv, TypeOK, LinesGiven, OptionsGiven, LoadsEachLine, NeverRead
<1>3. CASE Load
  <2>1. /\ phase' = "loaded" /\ program' = program /\ file' = file /\ file # NoFile
        /\ options' = Finish(Read(options))
        /\ lacking' = lacking \union (Lines(program) \ Readable)
    BY <1>3 DEF Load
  <2>2. /\ IsOptions(options')
        /\ \A l \in Readable : options'[l] = Scanned(l) \/ NeverRead(l)
        /\ program = "dsserver" => options'["timeout"] = "default"
    BY <1>0, <2>1, Loaded
  <2>3. ASSUME NEW l \in Lines(program), options'[l] = "garbage" PROVE l \in lacking'
    <3>1. CASE l \notin Readable
      BY <2>1, <3>1
    <3>2. CASE l \in Readable /\ NeverRead(l)
      BY <2>2, <2>3, <3>2 DEF NeverRead
    <3>3. CASE l \in Readable /\ ~NeverRead(l)
      <4>1. file[l] = "garbage" /\ l \in DOMAIN file
        BY <2>2, <2>3, <3>3 DEF Scanned, Readable
      <4> QED BY <1>0, <2>1, <3>3, <4>1 DEF LinesGiven
    <3> QED BY <3>1, <3>2, <3>3
  <2>4. TypeOK'
    BY <1>0, <2>1, <2>2 DEF TypeOK, IsOptions
  <2>5. LoadsEachLine'
    <3>1. \A l \in DOMAIN file : file[l] \notin {"nothing", "parted"} => l \in Readable /\ Scanned(l) = file[l]
      BY DEF Readable, Scanned
    <3> QED BY <2>1, <2>2, <3>1 DEF LoadsEachLine, NeverRead
  <2> QED BY <1>0, <2>1, <2>3, <2>4, <2>5 DEF IInv, LinesGiven, OptionsGiven, NeverRead
<1>4. CASE Create
  <2>1. /\ phase' = "created" /\ program' = program /\ file' = Empty /\ lacking' = lacking
        /\ \E home \in {"default", "parted"} : options' = Defaults(options, home)
    BY <1>4 DEF Create
  <2>2. IsOptions(options') /\ \A l \in Lines(program) : options'[l] = "garbage" => NeverRead(l)
    BY <1>0, <2>1, Created
  <2>3. DOMAIN Empty = {}
    BY DEF Empty
  <2> QED BY <1>0, <2>1, <2>2, <2>3 DEF IInv, TypeOK, IsOptions, LinesGiven, OptionsGiven, LoadsEachLine, NeverRead
<1>5. CASE FlushCreated
  <2>1. /\ phase = "created" /\ phase' = "loaded" /\ program' = program /\ lacking' = lacking
        /\ file' = Written(options) /\ options' = Finish(options)
    BY <1>5 DEF FlushCreated
  <2>2. /\ DOMAIN file' = Lines(program)
        /\ \A l \in Lines(program) : file'[l] = options[l] /\ options[l] \in LineValue(l)
    BY <1>0, <2>1, WrittenType
  <2>3. \A l \in Lines(program) : options[l] = "garbage" => NeverRead(l)
    BY <1>0, <2>1 DEF OptionsGiven
  <2>4. /\ IsOptions(options')
        /\ \A l \in Lines(program) : options'[l] = IF NeverRead(l) THEN "default" ELSE options[l]
    BY <1>0, <2>1, Created
  <2> QED BY <1>0, <2>1, <2>2, <2>3, <2>4
          DEF IInv, TypeOK, IsOptions, LinesGiven, OptionsGiven, LoadsEachLine, NeverRead
<1>6. CASE Settle \/ ParseArgument
  <2>1. /\ phase \in {"loaded", "parsing"} /\ phase' = "parsing"
        /\ program' = program /\ file' = file /\ lacking' = lacking
    BY <1>6 DEF Settle, ParseArgument
  <2>2. IsOptions(options') /\ \A l \in Option : options'[l] = "garbage" => options[l] = "garbage"
    BY <1>0, <1>6 DEF Settle, ParseArgument, Arguments, Given, TypeOK, IsOptions, Option, Value, Values, Flags, Texts
  <2> QED BY <1>0, <1>a, <2>1, <2>2 DEF IInv, TypeOK, IsOptions, LinesGiven, OptionsGiven, LoadsEachLine, NeverRead
<1>7. CASE Save
  <2>1. DOMAIN Empty = {}
    BY DEF Empty
  <2> QED BY <1>0, <1>7, <2>1 DEF Save, IInv, TypeOK, LinesGiven, OptionsGiven, LoadsEachLine, NeverRead
<1>8. CASE FlushSaved
  <2>1. /\ phase = "truncated" /\ phase' = "none" /\ program' = program /\ lacking' = lacking
        /\ file' = Written(options) /\ options' = Garbage
    BY <1>8 DEF FlushSaved
  <2>2. /\ DOMAIN file' = Lines(program)
        /\ \A l \in Lines(program) : file'[l] = options[l] /\ options[l] \in LineValue(l)
    BY <1>0, <2>1, WrittenType
  <2>3. \A l \in Lines(program) : options[l] = "garbage" => l \in lacking
    BY <1>0, <2>1 DEF OptionsGiven
  <2> QED BY <1>0, <1>b, <2>1, <2>2, <2>3 DEF IInv, TypeOK, LinesGiven, OptionsGiven, LoadsEachLine
<1>9. CASE Run \/ Die
  BY <1>0, <1>b, <1>9 DEF Run, Die, IInv, TypeOK, LinesGiven, OptionsGiven, LoadsEachLine, NeverRead
<1>10. CASE Edit
  <2>1. /\ phase = "none" /\ phase' = phase /\ file # NoFile
        /\ program' = program /\ lacking' = lacking /\ options' = options
    BY <1>10 DEF Edit
  <2>2. ASSUME NEW l \in DOMAIN file'
        PROVE  l \in Lines(program) /\ file'[l] \in LineValue(l)
               /\ (file'[l] = "garbage" => l \in DOMAIN file /\ file'[l] = file[l])
    <3>1. PICK o \in Lines(program) :
            \/ \E v \in LineValue(o) \ {"garbage"} :
                 file' = [k \in DOMAIN file \union {o} |-> IF k = o THEN v ELSE file[k]]
            \/ file' = [k \in DOMAIN file \ {o} |-> file[k]]
      BY <1>10 DEF Edit
    <3>2. DOMAIN file \subseteq Lines(program) /\ \A k \in DOMAIN file : file[k] \in LineValue(k)
      BY <1>0, <2>1 DEF TypeOK
    <3>3. CASE file' = [k \in DOMAIN file \ {o} |-> file[k]]
      BY <2>2, <3>2, <3>3
    <3>4. ASSUME NEW v \in LineValue(o) \ {"garbage"},
                 file' = [k \in DOMAIN file \union {o} |-> IF k = o THEN v ELSE file[k]]
          PROVE  l \in Lines(program) /\ file'[l] \in LineValue(l)
                 /\ (file'[l] = "garbage" => l \in DOMAIN file /\ file'[l] = file[l])
      BY <2>2, <3>2, <3>4
    <3> QED BY <3>1, <3>3, <3>4
  <2> QED BY <1>0, <2>1, <2>2 DEF IInv, TypeOK, LinesGiven, OptionsGiven, LoadsEachLine, NeverRead
<1> QED BY <1>1, <1>2, <1>3, <1>4, <1>5, <1>6, <1>7, <1>8, <1>9, <1>10 DEF Next

-----------------------------------------------------------------------------
(* The theorems.                                                           *)

\* What has a value, in memory and in the file, in every state.
THEOREM Invariance == Spec => []IInv
<1>1. Init => IInv
  <2> SUFFICES ASSUME Init PROVE IInv
    OBVIOUS
  <2>1. Garbage \in [Option -> Values] /\ \A o \in Option : Garbage[o] \in Value(o)
    BY DEF Garbage, Values, Value
  <2> QED BY <2>1 DEF Init, IInv, TypeOK, LinesGiven, OptionsGiven, LoadsEachLine
<1> QED BY <1>1, SettingsStep, PTL DEF Spec

\* Options and lines have the values they may have, and garbage.
THEOREM TypeCorrect == Spec => []TypeOK
<1>1. IInv => TypeOK
  BY DEF IInv
<1> QED BY <1>1, Invariance, PTL

\* No process runs with an option that nothing gave a value, unless a file was loaded
\* that had no value for it, in no line or in an empty one.
THEOREM NoGarbage == Spec => []RunsInitialised
<1>1. IInv => RunsInitialised
  BY DEF IInv, OptionsGiven, RunsInitialised
<1> QED BY <1>1, Invariance, PTL

\* options_new returns what the file says, line by line, where sscanf can read it.
THEOREM LinesLoaded == Spec => []LoadsEachLine
<1>1. IInv => LoadsEachLine
  BY DEF IInv
<1> QED BY <1>1, Invariance, PTL

=============================================================================
