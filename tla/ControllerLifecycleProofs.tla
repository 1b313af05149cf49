---------------------- MODULE ControllerLifecycleProofs ----------------------
(***************************************************************************)
(* Theorems about ControllerLifecycle: what the index file tells about the *)
(* queue, what a restart makes of it, and what is resumed before requests  *)
(* are served, for every finite number of entries and threads, any URLs    *)
(* and any number of lives.                                                *)
(***************************************************************************)
EXTENDS ControllerLifecycle, DownloadQueueProofs, FiniteSetTheorems, FunctionTheorems

-----------------------------------------------------------------------------
(* Types.                                                                  *)

\* A process that is gone leaves what the types allow.
LEMMA GoneType ==
  ASSUME Gone, Abandoned
  PROVE  /\ TypeOK'
         /\ url' \in [Entry -> AnyUrl]
         /\ saving' = AtStart
<1>1. /\ download_queue' \in ListOf(Entry) /\ thread_list' \in ListOf(Thread \union {NoThread})
      /\ Items(thread_list') = {}
  BY DEF Gone, EmptyList, ListOf, Items
<1>2. response' \in Response
  BY DEF Abandoned, Garbage, Reply, Response, AllCommands
<1>3. Items(thread_list)' = Items(thread_list')
  BY DEF Items
<1> QED BY <1>1, <1>2, <1>3 DEF Gone, Abandoned, TypeOK, Status, Phase, Control, AnyUrl

\* So does a handler that leaves the main thread where it was.
LEMMA AbandonedType ==
  ASSUME TypeOK, Abandoned, UNCHANGED <<entryVars, download_queue, threadVars, managerVars>>
  PROVE  TypeOK'
<1>1. response' \in Response
  BY DEF Abandoned, Garbage, Reply, Response, AllCommands
<1> QED BY <1>1 DEF Abandoned, TypeOK, Status, Control, entryVars, threadVars, managerVars, Items

\* The snapshots of a queue.
LEMMA SnapshotType ==
  ASSUME TypeOK, url \in [Entry -> AnyUrl]
  PROVE  [i \in DOMAIN download_queue.items |-> SnapshotOf(i)] \in Seq(Snapshot)
<1>1. \A i \in DOMAIN download_queue.items : download_queue.items[i] \in Entry
  BY ItemsType DEF TypeOK
<1>2. \A i \in DOMAIN download_queue.items : SnapshotOf(i) \in Snapshot
  BY <1>1 DEF SnapshotOf, Snapshot, TypeOK, Phase
<1>3. DOMAIN download_queue.items = 1..Len(download_queue.items) /\ Len(download_queue.items) \in Nat
  BY DEF TypeOK, ListOf
<1> QED BY <1>2, <1>3, IsASeq

\* The lines queue_load reads are lines.
LEMMA LinesType ==
  ASSUME index = NoIndex \/ index \in Seq(Line)
  PROVE  /\ Lines \in Seq(Line) /\ Len(Lines) \in Nat
         /\ \A i \in 1..Len(Lines) : Lines[i] \in Line
<1>1. [url |-> NoUrl, status |-> "WAITING"] \in Line
  BY DEF Line, Status, AnyUrl
<1>2. Lines \in Seq(Line)
  BY <1>1, EmptySeq DEF Lines
<1> QED BY <1>2, ElementOfSeq, LenProperties

\* What several handlers leave are lines.
LEMMA TanglesType == \A f \in Tangles : f \in Seq(Line)
<1> SUFFICES ASSUME NEW f \in Tangles PROVE f \in Seq(Line)
  OBVIOUS
<1>1. PICK n \in 0..Cardinality(Entry) :
        f \in [1..n -> [url : Urls \union {StrayUrl}, status : Status]]
  BY DEF Tangles
<1>2. n \in Nat /\ \A i \in 1..n : f[i] \in Line
  BY <1>1, FS_CardinalityType, LifecycleAssumption DEF Line, AnyUrl
<1>3. f = [i \in 1..n |-> f[i]]
  BY <1>1
<1> QED BY <1>2, <1>3, IsASeq

\* The queue a new process loads has its entries in the order of the lines, each with
\* what its line says.
LEMMA LoadEffect ==
  ASSUME LifeTypeOK, NEW n \in 0..Len(Lines), NEW addresses \in [1..n -> Entry],
         IsInjective(addresses), Loads(n, addresses)
  PROVE  /\ name' \in [Entry -> Names \union {NoName}] /\ status' \in [Entry -> Status]
         /\ wanted' \in [Entry -> BOOLEAN] /\ url' \in [Entry -> AnyUrl]
         /\ download_queue' \in ListOf(Entry)
         /\ Len(download_queue'.items) = n /\ DOMAIN download_queue'.items = 1..n
         /\ \A i \in 1..n :
              LET e == download_queue'.items[i] IN
                /\ e = addresses[i]
                /\ url'[e] = UrlOf(i) /\ status'[e] \in StatusesOf(i)
                /\ name'[e] \in NamesOf(i) /\ name'[e] \in Names
                /\ wanted'[e] = (UrlOf(i) \in Urls /\ status'[e] = "WAITING")
<1> DEFINE used == {addresses[i] : i \in 1..n}
           line == [e \in used |-> CHOOSE i \in 1..n : addresses[i] = e]
<1>1. n \in Nat /\ used \in SUBSET Entry
  BY LinesType DEF LifeTypeOK
<1>2. \A i \in 1..n : UrlOf(i) \in AnyUrl
  <2> SUFFICES ASSUME NEW i \in 1..n PROVE UrlOf(i) \in AnyUrl
    OBVIOUS
  <2>1. Lines[i] \in Line
    BY LinesType DEF LifeTypeOK
  <2>2. Lines[i].url \in AnyUrl
    BY <2>1 DEF Line
  <2> QED BY <2>2 DEF UrlOf, AnyUrl
<1>3. \A i \in 1..n : addresses[i] \in used /\ line[addresses[i]] = i
  <2> SUFFICES ASSUME NEW i \in 1..n PROVE addresses[i] \in used /\ line[addresses[i]] = i
    OBVIOUS
  <2>1. (CHOOSE j \in 1..n : addresses[j] = addresses[i]) = i
    BY DEF IsInjective
  <2> QED BY <2>1
<1>4. \A e \in used : \E i \in 1..n : e = addresses[i]
  OBVIOUS
<1>5. PICK f \in [used -> Names], s \in [used -> Status] :
        /\ \A e \in used : f[e] \in NamesOf(line[e]) /\ s[e] \in StatusesOf(line[e])
        /\ name' = Over(f, name)
        /\ status' = Over(s, status)
        /\ wanted' = Over([e \in used |-> UrlOf(line[e]) \in Urls /\ s[e] = "WAITING"], wanted)
  BY DEF Loads
<1>6. /\ url' = Over([e \in used |-> UrlOf(line[e])], url)
      /\ download_queue' = [EmptyList EXCEPT !.items = [i \in 1..n |-> addresses[i]]]
  BY DEF Loads
<1> HIDE DEF line
<1>8. \A e \in used : UrlOf(line[e]) \in AnyUrl
  BY <1>2, <1>3, <1>4
<1> HIDE DEF used
<1> DEFINE w == [e \in used |-> UrlOf(line[e]) \in Urls /\ s[e] = "WAITING"]
           u == [e \in used |-> UrlOf(line[e])]
<1>9. /\ name' \in [Entry -> Names \union {NoName}]
      /\ \A e \in used : name'[e] = f[e]
  <2>1. name \in [Entry -> Names \union {NoName}]
    BY DEF LifeTypeOK, TypeOK
  <2> QED BY <1>1, <1>5, <2>1 DEF Over
<1>10. /\ status' \in [Entry -> Status]
       /\ \A e \in used : status'[e] = s[e]
  <2>1. status \in [Entry -> Status]
    BY DEF LifeTypeOK, TypeOK
  <2> QED BY <1>1, <1>5, <2>1 DEF Over
<1>11. /\ wanted' \in [Entry -> BOOLEAN]
       /\ \A e \in used : wanted'[e] = (UrlOf(line[e]) \in Urls /\ s[e] = "WAITING")
  <2>1. wanted \in [Entry -> BOOLEAN]
    BY DEF LifeTypeOK, TypeOK
  <2>2. DOMAIN w = used /\ \A e \in used : /\ w[e] \in BOOLEAN
                                           /\ w[e] = (UrlOf(line[e]) \in Urls /\ s[e] = "WAITING")
    OBVIOUS
  <2>3. wanted' = Over(w, wanted)
    BY <1>5
  <2> HIDE DEF w
  <2> QED BY <1>1, <2>1, <2>2, <2>3 DEF Over
<1>12. /\ url' \in [Entry -> AnyUrl]
       /\ \A e \in used : url'[e] = UrlOf(line[e])
  <2>1. url \in [Entry -> AnyUrl]
    BY DEF LifeTypeOK
  <2>2. DOMAIN u = used /\ \A e \in used : u[e] \in AnyUrl /\ u[e] = UrlOf(line[e])
    BY <1>8
  <2>3. url' = Over(u, url)
    BY <1>6
  <2> HIDE DEF u
  <2> QED BY <1>1, <2>1, <2>2, <2>3 DEF Over
<1>13. /\ download_queue' \in ListOf(Entry)
       /\ Len(download_queue'.items) = n /\ DOMAIN download_queue'.items = 1..n
       /\ \A i \in 1..n : download_queue'.items[i] = addresses[i]
  <2>1. download_queue'.items = [i \in 1..n |-> addresses[i]]
    BY <1>6 DEF EmptyList
  <2>2. download_queue'.items \in Seq(Entry) /\ Len(download_queue'.items) = n
    BY <1>1, <2>1, IsASeq, LenProperties
  <2>3. download_queue' \in ListOf(Entry)
    BY <1>6, <2>1, <2>2 DEF EmptyList, ListOf
  <2> QED BY <2>1, <2>2, <2>3
<1>14. ASSUME NEW i \in 1..n
       PROVE  /\ url'[addresses[i]] = UrlOf(i) /\ status'[addresses[i]] \in StatusesOf(i)
              /\ name'[addresses[i]] \in NamesOf(i) /\ name'[addresses[i]] \in Names
              /\ wanted'[addresses[i]] = (UrlOf(i) \in Urls /\ status'[addresses[i]] = "WAITING")
  <2>1. addresses[i] \in used /\ line[addresses[i]] = i
    BY <1>3
  <2> QED BY <2>1, <1>5, <1>9, <1>10, <1>11, <1>12
<1> QED BY <1>9, <1>10, <1>11, <1>12, <1>13, <1>14

LEMMA LifeTypeStep ==
  ASSUME LifeTypeOK, Saving, [LifeNext]_allVars
  PROVE  LifeTypeOK'
<1> USE DEF entryVars, threadVars, managerVars, localVars, fileVars, lifeVars
<1>1. /\ TypeOK /\ url \in [Entry -> AnyUrl]
      /\ saving \in [pos : Nat, step : {"read", "mark", "print"}]
      /\ kept \in Seq(Snapshot) /\ starts \in 0..MaxStarts
  BY DEF LifeTypeOK
<1>2. ASSUME [Next]_vars, url' \in [Entry -> AnyUrl], UNCHANGED <<index, kept, complete, tangled>>,
             mode' \in Mode, UNCHANGED <<saving, starts>>,
             mode' # "saving" \/ (mode' = mode /\ download_queue' = download_queue)
      PROVE  LifeTypeOK'
  <2>1. TypeOK'
    BY <1>1, <1>2, TypeStep
  <2> QED BY <1>2, <2>1 DEF LifeTypeOK
<1>3. CASE Loading \/ InstallHandlers
  <2>1. [Next]_vars /\ UNCHANGED <<index, kept, complete, tangled, url, saving, starts>>
    BY <1>3 DEF Loading, InstallHandlers, Next
  <2>2. mode' \in {"loading", "running"}
    BY <1>3 DEF Loading, InstallHandlers
  <2> QED BY <1>1, <1>2, <2>1, <2>2 DEF Mode
<1>4. CASE Serving
  <2>1. [Next]_vars /\ UNCHANGED <<index, kept, complete, tangled, saving, starts, mode>> /\ mode = "running"
    BY <1>4 DEF Serving, Next
  <2>2. url' \in [Entry -> AnyUrl]
    BY <1>1, <1>4 DEF Serving, AnyUrl
  <2> QED BY <1>2, <2>1, <2>2 DEF Mode
<1>5. CASE Downloading
  <2>1. [Next]_vars /\ UNCHANGED lifeVars
    BY <1>5 DEF Downloading, Next
  <2>2. download_queue' = download_queue
    BY <1>5 DEF Downloading, ThreadStep, ThreadStarted, OpenFails, ThreadCompletes, ThreadCancelled, Moves
  <2>3. mode' \in Mode
    BY <2>1 DEF LifeTypeOK
  <2> QED BY <1>1, <1>2, <2>1, <2>2, <2>3
<1>6. CASE Terminate \/ TerminateSticks
  <2>1. TypeOK' /\ UNCHANGED <<url, starts>>
    BY <1>1, <1>6, AbandonedType DEF Terminate, TerminateSticks
  <2>2. kept' \in Seq(Snapshot)
    BY <1>1, <1>6, SnapshotType DEF Terminate, TerminateSticks
  <2>3. index' = NoIndex \/ index' \in Seq(Line)
    BY <1>6, EmptySeq DEF Terminate, TerminateSticks, LifeTypeOK
  <2>4. saving' \in [pos : Nat, step : {"read", "mark", "print"}]
        /\ (mode' = "saving" => saving'.step = "read")
    BY <1>1, <1>6 DEF Terminate, TerminateSticks, AtStart
  <2>5. mode' \in Mode /\ complete' \in BOOLEAN /\ tangled' \in BOOLEAN
    BY <1>6 DEF Terminate, TerminateSticks, Mode, LifeTypeOK
  <2> QED BY <1>1, <2>1, <2>2, <2>3, <2>4, <2>5 DEF LifeTypeOK
<1>7. CASE TerminateUnsaved \/ SaveDone \/ Die
  <2>1. Gone /\ Abandoned /\ UNCHANGED <<index, starts, kept, tangled>> /\ mode' = "down"
        /\ complete' \in {complete, TRUE}
    BY <1>7 DEF TerminateUnsaved, SaveDone, Die
  <2>2. /\ TypeOK' /\ url' \in [Entry -> AnyUrl]
        /\ saving' \in [pos : Nat, step : {"read", "mark", "print"}]
    BY <2>1, GoneType DEF AtStart
  <2> QED BY <1>1, <2>1, <2>2 DEF LifeTypeOK, Mode
<1>8. CASE SaveRead
  <2>1. Saved \in Entry /\ saving.pos \in DOMAIN download_queue.items
    BY <1>1, <1>8, ItemsType DEF SaveRead, Saved, TypeOK
  <2>2. TypeOK'
    BY <1>1, <1>8, <2>1 DEF SaveRead, TypeOK, Items
  <2>3. saving' \in [pos : Nat, step : {"read", "mark", "print"}] /\ saving'.pos = saving.pos
    BY <1>1, <1>8 DEF SaveRead
  <2> QED BY <1>8, <2>1, <2>2, <2>3 DEF LifeTypeOK, SaveRead
<1>9. CASE SaveMark
  <2>1. Saved \in Entry /\ saving.pos \in DOMAIN download_queue.items
    BY <1>9, ItemsType DEF SaveMark, Saved, LifeTypeOK, TypeOK
  <2>2. TypeOK'
    <3>1. CASE \E i \in DOMAIN thread_list.items :
                 LET t == thread_list.items[i] IN
                   /\ FirstThread(i, name[Saved])
                   /\ status' = MarkWaiting([status EXCEPT ![entryOf[t]] = "PAUSED"])
                   /\ cancelled' = [cancelled EXCEPT ![t] = TRUE]
                   /\ released' = released \union {t}
                   /\ thread_list' = ListRemove(thread_list, i)
      <4>1. PICK i \in DOMAIN thread_list.items :
              /\ FirstThread(i, name[Saved])
              /\ status' = MarkWaiting([status EXCEPT ![entryOf[thread_list.items[i]]] = "PAUSED"])
              /\ cancelled' = [cancelled EXCEPT ![thread_list.items[i]] = TRUE]
              /\ released' = released \union {thread_list.items[i]}
              /\ thread_list' = ListRemove(thread_list, i)
        BY <3>1
      <4>2. thread_list.items[i] \in Thread /\ entryOf[thread_list.items[i]] \in Entry
        BY <1>1, <4>1, FirstThreadType
      <4>3. /\ thread_list' \in ListOf(Thread \union {NoThread})
            /\ Items(thread_list') \subseteq Items(thread_list)
        BY <4>1, <1>1, RemoveItems DEF TypeOK
      <4>4. Items(thread_list)' = Items(thread_list')
        BY DEF Items
      <4>5. status' \in [Entry -> Status]
        BY <1>1, <2>1, <4>1, <4>2 DEF MarkWaiting, Status, TypeOK
      <4>6. cancelled' \in [Thread -> BOOLEAN] /\ released' \in SUBSET Thread
        BY <1>1, <4>1, <4>2 DEF TypeOK
      <4>7. UNCHANGED <<name, wanted, download_queue, entryOf, phase, pc, pos, arg, seen, response>>
        BY <1>9 DEF SaveMark, localVars
      <4>8. \A t \in Items(thread_list') \ {NoThread} : phase[t] # "none"
        BY <1>1, <4>3 DEF TypeOK
      <4> QED BY <1>1, <4>3, <4>4, <4>5, <4>6, <4>7, <4>8 DEF TypeOK
    <3>2. CASE status' = MarkWaiting(status) /\ UNCHANGED <<cancelled, managerVars>>
      <4>1. status' \in [Entry -> Status]
        BY <1>1, <2>1, <3>2 DEF MarkWaiting, Status, TypeOK
      <4> QED BY <1>1, <1>9, <3>2, <4>1 DEF SaveMark, TypeOK, Items
    <3> QED BY <1>9, <3>1, <3>2 DEF SaveMark
  <2>3. saving' \in [pos : Nat, step : {"read", "mark", "print"}] /\ saving'.pos = saving.pos
    BY <1>1, <1>9 DEF SaveMark
  <2> QED BY <1>9, <2>1, <2>2, <2>3 DEF LifeTypeOK, SaveMark
<1>10. CASE SavePrint
  <2>1. Saved \in Entry
    BY <1>10, ItemsType DEF SavePrint, Saved, LifeTypeOK, TypeOK
  <2>2. [url |-> url[Saved], status |-> status[Saved]] \in Line
    BY <1>1, <2>1 DEF Line, TypeOK
  <2>3. index' = NoIndex \/ index' \in Seq(Line)
    <3>1. index \in Seq(Line)
      BY <1>10 DEF SavePrint, Saving, LifeTypeOK
    <3>2. index' = Append(index, [url |-> url[Saved], status |-> status[Saved]])
      BY <1>10 DEF SavePrint
    <3> QED BY <2>2, <3>1, <3>2, AppendProperties
  <2>4. TypeOK'
    BY <1>1, <1>10, TypeStep DEF SavePrint
  <2>5. saving' \in [pos : Nat, step : {"read", "mark", "print"}] /\ saving'.step = "read"
    BY <1>1, <1>10 DEF SavePrint, NextNode
  <2> QED BY <1>10, <2>3, <2>4, <2>5 DEF LifeTypeOK, SavePrint
<1>11. CASE SaveHangs
  <2>1. TypeOK'
    BY <1>1, <1>11, TypeStep DEF SaveHangs
  <2> QED BY <1>11, <2>1 DEF LifeTypeOK, SaveHangs, Mode, AtStart
<1>12. CASE Start
  <2>0. PICK n \in 0..Len(Lines) :
          \E addresses \in [1..n -> Entry] : IsInjective(addresses) /\ Loads(n, addresses)
    BY <1>12 DEF Start
  <2>1. PICK addresses \in [1..n -> Entry] : IsInjective(addresses) /\ Loads(n, addresses)
    BY <2>0
  <2>2. /\ name' \in [Entry -> Names \union {NoName}] /\ status' \in [Entry -> Status]
        /\ wanted' \in [Entry -> BOOLEAN] /\ url' \in [Entry -> AnyUrl]
        /\ download_queue' \in ListOf(Entry)
    BY <2>1, LoadEffect
  <2>3. /\ UNCHANGED <<entryOf, phase, cancelled, thread_list, released, pos, arg, seen, response>>
        /\ UNCHANGED <<index, kept, complete, tangled, saving>>
        /\ pc' \in {"update", "idle"} /\ mode' = "loading" /\ starts' = starts + 1 /\ starts < MaxStarts
    BY <1>12 DEF Start
  <2>4. TypeOK'
    BY <1>1, <2>2, <2>3 DEF TypeOK, Control, Items
  <2>5. starts' \in 0..MaxStarts
    BY <1>1, <2>3, LifecycleAssumption
  <2> QED BY <2>2, <2>3, <2>4, <2>5 DEF LifeTypeOK, Mode
<1>13. CASE SignalsTangle
  <2>1. /\ TypeOK' /\ url' \in [Entry -> AnyUrl]
        /\ saving' \in [pos : Nat, step : {"read", "mark", "print"}]
    BY <1>13, GoneType DEF SignalsTangle, AtStart
  <2>2. index' \in Seq(Line) /\ kept' \in Seq(Snapshot)
    BY <1>13, EmptySeq DEF SignalsTangle
  <2> QED BY <1>1, <1>13, <2>1, <2>2 DEF SignalsTangle, LifeTypeOK, Mode
<1>14. CASE TangledEnd
  <2>1. TypeOK'
    BY <1>1, <1>14, TypeStep DEF TangledEnd
  <2>2. index' \in Seq(Line)
    BY <1>14, TanglesType DEF TangledEnd
  <2> QED BY <1>14, <2>1, <2>2 DEF TangledEnd, LifeTypeOK, Mode
<1>15. CASE UNCHANGED allVars
  <2>1. [Next]_vars /\ UNCHANGED <<index, kept, complete, tangled, url, saving, starts, mode, download_queue>>
    BY <1>15 DEF allVars, vars
  <2> QED BY <1>2, <2>1 DEF LifeTypeOK
<1> QED BY <1>3, <1>4, <1>5, <1>6, <1>7, <1>8, <1>9, <1>10, <1>11, <1>12, <1>13, <1>14, <1>15
     DEF LifeNext, SaveStep

-----------------------------------------------------------------------------
(* What a handler writes about an entry.                                   *)

\* The statuses that may be written, one by one.
LEMMA OutcomesOf ==
  ASSUME NEW k \in Snapshot
  PROVE  /\ k.status \notin {"STARTED", "STARTING"} => k.status \in Outcomes(k)
         /\ k.status \in {"STARTED", "STARTING"} => "WAITING" \in Outcomes(k)
         /\ k.phase # "ended" => "COMPLETED" \in Outcomes(k)
         /\ k.phase = "opening" => "STARTED" \in Outcomes(k) /\ "WAITING" \in Outcomes(k)
         /\ "STARTED" \in Outcomes(k) => k.phase = "opening"
         /\ "STARTING" \notin Outcomes(k)
BY DEF Outcomes

\* What a handler finds when it begins.
LEMMA TerminateForesees ==
  ASSUME LifeTypeOK, LifeTypeOK', Terminate
  PROVE  Saving'
<1> USE DEF entryVars, threadVars, managerVars, localVars
<1>1. /\ UNCHANGED <<name, status, download_queue, entryOf, phase, url>>
      /\ index' = <<>> /\ complete' = FALSE /\ tangled' = FALSE /\ saving' = [pos |-> 1, step |-> "read"]
      /\ kept' = [i \in DOMAIN download_queue.items |-> SnapshotOf(i)]
  BY DEF Terminate, AtStart
<1> DEFINE n == Len(download_queue.items)
<1>2. n \in Nat /\ DOMAIN download_queue.items = 1..n
  BY DEF LifeTypeOK, TypeOK, ListOf
<1>3. Len(kept') = n /\ DOMAIN kept' = 1..n
  BY <1>1, <1>2 DEF LifeTypeOK
<1>4. index' # NoIndex /\ Len(index') = 0
  BY <1>1, EmptySeq, LifecycleAssumption
<1>5. ASSUME NEW i \in DOMAIN kept' PROVE Foreseen(i)'
  <2> DEFINE e == download_queue.items[i]
  <2>1. i \in 1..n /\ kept'[i] = SnapshotOf(i) /\ e \in Entry
    BY <1>1, <1>2, <1>3, ItemsType DEF LifeTypeOK, TypeOK
  <2>2. /\ kept'[i].url = url'[e] /\ kept'[i].status = status'[e]
        /\ kept'[i].alone => SameName(e) = {e}
    BY <1>1, <2>1 DEF SnapshotOf
  <2>3. \A j \in DOMAIN kept' : download_queue.items[j] = e => kept'[j] = kept'[i]
    BY <1>1, <2>1 DEF SnapshotOf
  <2>4. ASSUME NEW t \in Thread, Created(t, e)
        PROVE  /\ phase[t] = "opening" => kept'[i].phase = "opening"
               /\ phase[t] = "performing" => kept'[i].phase # "ended"
    BY <2>1, <2>4 DEF SnapshotOf
  <2>5. SameName(e)' = SameName(e)
    BY <1>1 DEF SameName, Items
  <2>6. \A t \in Thread : Created(t, e)' = Created(t, e)
    BY <1>1 DEF Created
  <2> QED BY <1>1, <2>2, <2>3, <2>4, <2>5, <2>6 DEF Foreseen
<1> QED BY <1>1, <1>2, <1>3, <1>4, <1>5 DEF Saving

\* What a handler foresees for each node, at every step of it and of the threads.
LEMMA Foresight ==
  ASSUME LifeTypeOK, Saving, mode = "saving"
  PROVE  /\ DOMAIN kept = 1..Len(kept) /\ DOMAIN download_queue.items = 1..Len(kept)
         /\ Len(kept) \in Nat /\ saving.pos \in Nat
         /\ \A i \in DOMAIN kept :
              /\ Foreseen(i) /\ kept[i] \in Snapshot /\ download_queue.items[i] \in Entry
<1>1. kept \in Seq(Snapshot) /\ download_queue.items \in Seq(Entry)
      /\ saving \in [pos : Nat, step : {"read", "mark", "print"}]
  BY DEF LifeTypeOK, TypeOK, ListOf
<1>2. Len(kept) = Len(download_queue.items) /\ \A i \in DOMAIN kept : Foreseen(i)
  BY DEF Saving
<1> QED BY <1>1, <1>2

\* A thread stores nothing that was not foreseen.
LEMMA ThreadForeseen ==
  ASSUME LifeTypeOK, Saving, mode = "saving", NEW t \in Thread, ThreadStep(t),
         UNCHANGED <<url, kept, saving>>, NEW i \in DOMAIN kept
  PROVE  Foreseen(i)'
<1> DEFINE e == download_queue.items[i]
           k == kept[i]
<1>1. /\ UNCHANGED <<name, download_queue, entryOf>>
      /\ Foreseen(i) /\ k \in Snapshot /\ e \in Entry
  BY Foresight DEF ThreadStep, ThreadStarted, OpenFails, ThreadCompletes, ThreadCancelled, Moves
<1>2. /\ phase \in [Thread -> Phase] /\ status \in [Entry -> Status] /\ phase[t] # "none"
  BY DEF LifeTypeOK, TypeOK, ThreadStep, ThreadStarted, OpenFails, ThreadCompletes, ThreadCancelled,
         Runs, Live
<1>3. \A u \in Thread :
        /\ u # t => phase'[u] = phase[u]
        /\ Created(u, e)' => Created(u, e)
  BY <1>1, <1>2 DEF Created, ThreadStep, ThreadStarted, OpenFails, ThreadCompletes, ThreadCancelled, Moves
<1>4. SameName(e)' = SameName(e)
  BY <1>1 DEF SameName, Items
<1>5. ASSUME k.alone
      PROVE  /\ \A u \in Thread : Created(u, e)' =>
                  /\ phase'[u] = "opening" => k.phase = "opening"
                  /\ phase'[u] = "performing" => k.phase # "ended"
             /\ status'[e] = status[e] \/ status'[e] \in Outcomes(k)
  <2>1. \A u \in Thread : Created(u, e) =>
          /\ phase[u] = "opening" => k.phase = "opening"
          /\ phase[u] = "performing" => k.phase # "ended"
    BY <1>1, <1>5 DEF Foreseen
  <2>2. CASE entryOf[t] # e
    <3>1. \E s \in Status : status' \in {status, [status EXCEPT ![entryOf[t]] = s]}
      BY DEF Status, ThreadStep, ThreadStarted, OpenFails, ThreadCompletes, ThreadCancelled
    <3>2. status'[e] = status[e]
      BY <1>1, <1>2, <2>2, <3>1
    <3>3. ~Created(t, e)
      BY <2>2 DEF Created
    <3> QED BY <1>3, <2>1, <3>2, <3>3
  <2>3. CASE entryOf[t] = e
    <3>1. Created(t, e)
      BY <1>2, <2>3 DEF Created
    <3>2. CASE ThreadStarted(t)
      <4>1. phase[t] = "opening" /\ phase'[t] = "performing" /\ status'[e] = "STARTED"
        BY <1>1, <1>2, <2>3, <3>2 DEF ThreadStarted, Runs, Moves
      <4> QED BY <1>1, <1>3, <2>1, <3>1, <4>1, OutcomesOf
    <3>3. CASE ThreadCompletes(t)
      <4>1. phase[t] = "performing" /\ phase'[t] = "ended" /\ status'[e] = "COMPLETED"
        BY <1>1, <1>2, <2>3, <3>3 DEF ThreadCompletes, Runs, Moves
      <4> QED BY <1>1, <1>3, <2>1, <3>1, <4>1, OutcomesOf
    <3>4. CASE OpenFails(t) \/ ThreadCancelled(t)
      <4>1. phase'[t] = "ended" /\ status'[e] = status[e]
        BY <1>1, <1>2, <3>4 DEF OpenFails, ThreadCancelled, Moves
      <4> QED BY <1>3, <2>1, <4>1
    <3> QED BY <3>2, <3>3, <3>4 DEF ThreadStep
  <2> QED BY <2>2, <2>3
<1> QED BY <1>1, <1>4, <1>5 DEF Foreseen

\* A transfer is marked to wait, and nothing else that was foreseen changes: the thread
\* that is stopped has the name of the entry.
LEMMA MarkForeseen ==
  ASSUME LifeTypeOK, Saving, SaveMark, NEW i \in DOMAIN kept
  PROVE  Foreseen(i)'
<1> USE DEF entryVars, threadVars, managerVars, localVars, fileVars, lifeVars
<1> DEFINE e == download_queue.items[i]
           k == kept[i]
<1>1. /\ UNCHANGED <<name, download_queue, entryOf, phase, url, kept>>
      /\ mode = "saving" /\ saving.step = "mark" /\ saving.pos \in DOMAIN download_queue.items
      /\ saving'.pos = saving.pos /\ saving'.step = "print"
  <2>1. UNCHANGED <<name, download_queue, entryOf, phase, url, kept>>
    BY DEF SaveMark
  <2>2. mode = "saving" /\ saving.step = "mark" /\ saving' = [saving EXCEPT !.step = "print"]
    BY DEF SaveMark
  <2>3. saving \in [pos : Nat, step : {"read", "mark", "print"}]
    BY DEF LifeTypeOK
  <2>4. saving.pos \in DOMAIN download_queue.items
    BY <2>2 DEF LifeTypeOK
  <2> QED BY <2>1, <2>2, <2>3, <2>4
<1>2. /\ Foreseen(i) /\ k \in Snapshot /\ e \in Entry /\ saving.pos \in DOMAIN kept
      /\ Foreseen(saving.pos) /\ Saved \in Entry /\ Saved \in Items(download_queue)
  BY <1>1, Foresight DEF Saved, Items
<1>3. SameName(e)' = SameName(e) /\ \A t \in Thread : Created(t, e)' = Created(t, e)
  BY <1>1 DEF SameName, Items, Created
<1>4. status \in [Entry -> Status] /\ status' \in [Entry -> Status]
  BY LifeTypeStep DEF LifeNext, SaveStep, LifeTypeOK, TypeOK
<1>5. \/ status' = MarkWaiting(status)
      \/ \E d \in Entry : /\ status' = MarkWaiting([status EXCEPT ![d] = "PAUSED"])
                          /\ name[d] = name[Saved]
  BY FirstThreadType DEF SaveMark, LifeTypeOK
<1>6. ASSUME k.alone
      PROVE  IF e = Saved THEN status'[e] = "WAITING" /\ "WAITING" \in Outcomes(k)
                          ELSE status'[e] = status[e] /\ i # saving.pos
  <2>1. CASE e = Saved
    <3>1. status'[e] = "WAITING"
      BY <1>2, <1>4, <1>5, <2>1 DEF MarkWaiting
    <3>2. kept[saving.pos] = k
      BY <1>2, <2>1 DEF Foreseen, Saved
    <3>3. "WAITING" \in Outcomes(k)
      BY <1>1, <1>2, <1>6, <3>2 DEF Foreseen
    <3> QED BY <2>1, <3>1, <3>3
  <2>2. CASE e # Saved
    <3>1. name[e] # name[Saved]
      BY <1>2, <1>6, <2>2 DEF Foreseen, SameName
    <3>2. status'[e] = status[e]
      BY <1>2, <1>4, <1>5, <2>2, <3>1 DEF MarkWaiting
    <3> QED BY <2>2, <3>2 DEF Saved
  <2> QED BY <2>1, <2>2
<1> QED BY <1>1, <1>2, <1>3, <1>6 DEF Foreseen

\* The status read decides whether the transfer is to be marked.
LEMMA ReadForeseen ==
  ASSUME LifeTypeOK, Saving, SaveRead, NEW i \in DOMAIN kept
  PROVE  Foreseen(i)'
<1> USE DEF entryVars, threadVars, managerVars, localVars, fileVars, lifeVars
<1> DEFINE e == download_queue.items[i]
           k == kept[i]
<1>1. /\ UNCHANGED <<name, status, download_queue, entryOf, phase, url, kept>>
      /\ mode = "saving"
      /\ saving'.pos = saving.pos
      /\ saving'.step = IF status[Saved] \in {"STARTED", "STARTING"} THEN "mark" ELSE "print"
  <2>1. UNCHANGED <<name, status, download_queue, entryOf, phase, url, kept>> /\ mode = "saving"
    BY DEF SaveRead
  <2>2. saving' = [saving EXCEPT !.step =
                     IF status[Saved] \in {"STARTED", "STARTING"} THEN "mark" ELSE "print"]
    BY DEF SaveRead
  <2>3. saving \in [pos : Nat, step : {"read", "mark", "print"}]
    BY DEF LifeTypeOK
  <2> QED BY <2>1, <2>2, <2>3
<1>2. Foreseen(i) /\ k \in Snapshot /\ e \in Entry /\ saving.pos \in Nat /\ i \in Nat
  BY <1>1, Foresight
<1>3. SameName(e)' = SameName(e) /\ \A t \in Thread : Created(t, e)' = Created(t, e)
  BY <1>1 DEF SameName, Items, Created
<1>4. ASSUME k.alone, i = saving.pos
      PROVE  /\ saving'.step = "mark" => "WAITING" \in Outcomes(k)
             /\ saving'.step = "print" => status[e] \in Outcomes(k)
  <2>1. status[e] \in {k.status} \union Outcomes(k) /\ e = Saved
    BY <1>2, <1>4 DEF Foreseen, Saved
  <2>2. CASE status[e] \in {"STARTED", "STARTING"}
    BY <1>1, <1>2, <2>1, <2>2, OutcomesOf
  <2>3. CASE status[e] \notin {"STARTED", "STARTING"}
    BY <1>1, <1>2, <2>1, <2>3, OutcomesOf
  <2> QED BY <2>2, <2>3
<1> QED BY <1>1, <1>2, <1>3, <1>4 DEF Foreseen

\* The next node is as foreseen as it was.
LEMMA PrintForeseen ==
  ASSUME LifeTypeOK, Saving, SavePrint, NEW i \in DOMAIN kept
  PROVE  Foreseen(i)'
<1> USE DEF entryVars, threadVars, managerVars, localVars, fileVars, lifeVars
<1> DEFINE e == download_queue.items[i]
           k == kept[i]
<1>1. /\ UNCHANGED <<name, status, download_queue, entryOf, phase, url, kept>>
      /\ mode = "saving" /\ saving' = [pos |-> saving.pos + 1, step |-> "read"]
  BY DEF SavePrint, NextNode, vars
<1>2. Foreseen(i) /\ k \in Snapshot /\ e \in Entry /\ saving.pos \in Nat /\ i \in Nat
  BY <1>1, Foresight
<1>3. SameName(e)' = SameName(e) /\ \A t \in Thread : Created(t, e)' = Created(t, e)
  BY <1>1 DEF SameName, Items, Created
<1>4. i >= saving.pos + 1 => i >= saving.pos
  BY <1>2
<1> QED BY <1>1, <1>2, <1>3, <1>4 DEF Foreseen

\* Every action keeps what is known while a handler saves.
LEMMA SavingStep ==
  ASSUME LifeTypeOK, LifeTypeOK', Saving, [LifeNext]_allVars
  PROVE  Saving'
<1> USE DEF entryVars, threadVars, managerVars, localVars, fileVars, lifeVars
<1>1. CASE mode' # "saving"
  BY <1>1 DEF Saving
<1>2. CASE Terminate
  BY <1>2, TerminateForesees
<1>3. ASSUME mode = "saving", UNCHANGED <<mode, index, complete, tangled, kept, download_queue>>,
             saving'.pos = saving.pos, \A i \in DOMAIN kept : Foreseen(i)'
      PROVE  Saving'
  BY <1>3 DEF Saving
<1>4. CASE SaveRead
  <2>1. saving'.pos = saving.pos
    BY <1>4 DEF SaveRead, LifeTypeOK
  <2> QED BY <1>3, <1>4, <2>1, ReadForeseen DEF SaveRead
<1>5. CASE SaveMark
  <2>1. saving'.pos = saving.pos
    BY <1>5 DEF SaveMark, LifeTypeOK
  <2> QED BY <1>3, <1>5, <2>1, MarkForeseen DEF SaveMark
<1>6. CASE SavePrint
  <2>1. /\ mode = "saving" /\ saving.step = "print" /\ saving' = [pos |-> saving.pos + 1, step |-> "read"]
        /\ index' = Append(index, [url |-> url[Saved], status |-> status[Saved]])
        /\ UNCHANGED <<mode, complete, tangled, kept, download_queue>>
    BY <1>6 DEF SavePrint, NextNode, vars
  <2>2. /\ saving.pos \in 1..Len(kept) /\ Len(kept) \in Nat
        /\ index \in Seq(Line) /\ Len(index) = saving.pos - 1
        /\ Len(kept) = Len(download_queue.items) /\ ~complete /\ ~tangled
    BY <2>1, Foresight DEF LifeTypeOK, Saving
  <2>3. Len(index') = Len(index) + 1
    BY <2>1, <2>2
  <2>4. Len(index') = saving'.pos - 1 /\ saving'.pos <= Len(kept) + 1
    BY <2>1, <2>2, <2>3
  <2>5. index' # NoIndex
    <3>1. index' \in Seq(Line)
      <4>1. Saved \in Entry
        BY <2>1, <2>2, Foresight DEF Saved
      <4>2. [url |-> url[Saved], status |-> status[Saved]] \in Line
        BY <4>1 DEF Line, LifeTypeOK, TypeOK
      <4> QED BY <2>1, <2>2, <4>2
    <3> QED BY <3>1, LifecycleAssumption
  <2>6. \A i \in DOMAIN kept : Foreseen(i)'
    BY <1>6, PrintForeseen
  <2> QED BY <2>1, <2>2, <2>4, <2>5, <2>6 DEF Saving
<1>7. CASE Downloading /\ mode = "saving"
  <2>1. PICK t \in Thread : ThreadStep(t)
    BY <1>7 DEF Downloading
  <2>2. UNCHANGED lifeVars /\ download_queue' = download_queue
    BY <1>7, <2>1 DEF Downloading, ThreadStep, ThreadStarted, OpenFails, ThreadCompletes,
                      ThreadCancelled, Moves
  <2>3. \A i \in DOMAIN kept : Foreseen(i)'
    BY <1>7, <2>1, <2>2, ThreadForeseen
  <2> QED BY <1>3, <1>7, <2>2, <2>3
<1>8. CASE UNCHANGED allVars /\ mode = "saving"
  <2>1. /\ UNCHANGED <<name, status, download_queue, entryOf, phase, url, kept, saving, mode>>
        /\ UNCHANGED <<index, complete, tangled>>
    BY <1>8 DEF allVars, vars
  <2>2. \A i \in DOMAIN kept : Foreseen(i)'
    <3> SUFFICES ASSUME NEW i \in DOMAIN kept PROVE Foreseen(i)'
      OBVIOUS
    <3>1. SameName(download_queue.items[i])' = SameName(download_queue.items[i])
      BY <2>1 DEF SameName, Items
    <3>2. \A t \in Thread : Created(t, download_queue.items[i])' = Created(t, download_queue.items[i])
      BY <2>1 DEF Created
    <3>3. Foreseen(i)
      BY <1>8, Foresight
    <3> QED BY <2>1, <3>1, <3>2, <3>3 DEF Foreseen
  <2> QED BY <1>3, <1>8, <2>1, <2>2
<1>9. ASSUME mode' = "saving"
      PROVE  \/ Terminate \/ SaveRead \/ SaveMark \/ SavePrint
             \/ (Downloading /\ mode = "saving") \/ (UNCHANGED allVars /\ mode = "saving")
  <2>1. Loading \/ InstallHandlers \/ Serving => mode' # "saving"
    BY DEF Loading, InstallHandlers, Serving
  <2>2. TerminateUnsaved \/ TerminateSticks \/ SaveDone \/ SaveHangs \/ SignalsTangle
          \/ TangledEnd \/ Die \/ Start => mode' # "saving"
    BY DEF TerminateUnsaved, TerminateSticks, SaveDone, SaveHangs, SignalsTangle, TangledEnd, Die, Start
  <2>3. Downloading \/ UNCHANGED allVars => mode' = mode
    BY DEF Downloading, allVars
  <2> HIDE DEF lifeVars
  <2> QED BY <1>9, <2>1, <2>2, <2>3 DEF LifeNext, SaveStep
<1> QED BY <1>1, <1>2, <1>4, <1>5, <1>6, <1>7, <1>8, <1>9

\* Every line that is written tells what was foreseen.
LEMMA IndexStep ==
  ASSUME LifeTypeOK, Saving, IndexTellsQueue, [LifeNext]_allVars
  PROVE  IndexTellsQueue'
<1> USE DEF fileVars, lifeVars
<1>1. CASE UNCHANGED <<index, kept, tangled>>
  BY <1>1 DEF IndexTellsQueue, Tells
<1>2. CASE index' = <<>> /\ kept' = [i \in DOMAIN download_queue.items |-> SnapshotOf(i)]
  <2>1. kept' \in Seq(Snapshot)
    BY <1>2, SnapshotType DEF LifeTypeOK
  <2>2. Len(index') = 0 /\ DOMAIN index' = {} /\ Len(kept') \in Nat
    BY <1>2, <2>1
  <2> QED BY <2>2 DEF IndexTellsQueue
<1>0. CASE tangled'
  BY <1>0 DEF IndexTellsQueue
<1>3. CASE SavePrint
  <2> DEFINE line == [url |-> url[Saved], status |-> status[Saved]]
             p == saving.pos
  <2>1. /\ mode = "saving" /\ saving.step = "print" /\ kept' = kept /\ index' = Append(index, line)
        /\ p \in DOMAIN download_queue.items /\ ~tangled
    BY <1>3 DEF SavePrint, LifeTypeOK, Saving
  <2>2. /\ p \in 1..Len(kept) /\ Len(kept) \in Nat /\ Foreseen(p) /\ Saved \in Entry
        /\ index \in Seq(Line) /\ Len(index) = p - 1 /\ index # NoIndex
    BY <2>1, Foresight DEF LifeTypeOK, Saving, Saved
  <2>3. line \in Line
    BY <2>2 DEF Line, LifeTypeOK, TypeOK
  <2>4. Tells(line.url, line.status, kept[p])
    BY <2>1, <2>2 DEF Tells, Foreseen, Saved
  <2> HIDE DEF line
  <2>5. /\ Len(index') = p /\ DOMAIN index' = 1..p /\ DOMAIN index = 1..(p - 1)
        /\ index'[p] = line /\ \A j \in 1..(p - 1) : index'[j] = index[j]
    <3>1. index' \in Seq(Line) /\ Len(index') = p
      BY <2>1, <2>2, <2>3
    <3>2. index'[p] = line /\ \A j \in 1..(p - 1) : index'[j] = index[j]
      BY <2>1, <2>2, <2>3
    <3> QED BY <2>2, <3>1, <3>2
  <2>6. \A j \in 1..(p - 1) : Tells(index[j].url, index[j].status, kept[j])
    BY <2>1, <2>2, <2>5 DEF IndexTellsQueue
  <2>7. \A j \in 1..p : Tells(index'[j].url, index'[j].status, kept[j])
    <3> SUFFICES ASSUME NEW j \in 1..p PROVE Tells(index'[j].url, index'[j].status, kept[j])
      OBVIOUS
    <3>1. j = p \/ j \in 1..(p - 1)
      BY <2>2
    <3> QED BY <2>4, <2>5, <2>6, <3>1
  <2> HIDE DEF p
  <2>8. Len(index') <= Len(kept)
    BY <2>2, <2>5
  <2>9. \A j \in DOMAIN index' : Tells(index'[j].url, index'[j].status, kept'[j])
    BY <2>1, <2>5, <2>7
  <2> QED BY <2>1, <2>8, <2>9 DEF IndexTellsQueue, Tells, Outcomes
<1>4. \/ UNCHANGED <<index, kept, tangled>>
      \/ SavePrint
      \/ tangled'
      \/ index' = <<>> /\ kept' = [i \in DOMAIN download_queue.items |-> SnapshotOf(i)]
  BY DEF LifeNext, SaveStep, Loading, InstallHandlers, Serving, Downloading, Terminate,
         TerminateUnsaved, TerminateSticks, SaveRead, SaveMark, SaveDone, SaveHangs, Die, Start,
         SignalsTangle, TangledEnd, allVars
<1> QED BY <1>0, <1>1, <1>2, <1>3, <1>4

\* A handler that came to its end has written all lines.
LEMMA WholeStep ==
  ASSUME LifeTypeOK, Saving, WholeIndex, [LifeNext]_allVars
  PROVE  WholeIndex'
<1> USE DEF fileVars, lifeVars
<1>1. CASE UNCHANGED <<index, kept, complete, tangled>>
  BY <1>1 DEF WholeIndex
<1>2. CASE complete' = FALSE
  BY <1>2 DEF WholeIndex
<1>3. CASE SaveDone
  <2>1. /\ mode = "saving" /\ saving.pos \notin DOMAIN download_queue.items
        /\ UNCHANGED <<index, kept, tangled>> /\ ~tangled
    BY <1>3 DEF SaveDone, Saving
  <2>2. /\ DOMAIN download_queue.items = 1..Len(kept) /\ Len(kept) \in Nat /\ saving.pos \in Nat
        /\ Len(index) = saving.pos - 1 /\ saving.pos <= Len(kept) + 1 /\ index # NoIndex
        /\ index \in Seq(Line)
    BY <2>1, Foresight DEF Saving, LifeTypeOK
  <2>3. Len(index) \in Nat
    BY <2>2
  <2>4. Len(index) = Len(kept)
    BY <2>1, <2>2, <2>3
  <2> QED BY <2>1, <2>2, <2>4 DEF WholeIndex
<1>4. CASE SavePrint
  <2>1. ~complete /\ complete' = complete
    BY <1>4 DEF SavePrint, Saving
  <2> QED BY <2>1 DEF WholeIndex
<1>5. \/ UNCHANGED <<index, kept, complete, tangled>>
      \/ complete' = FALSE \/ SaveDone \/ SavePrint
  BY DEF LifeNext, SaveStep, Loading, InstallHandlers, Serving, Downloading, Terminate,
         TerminateUnsaved, TerminateSticks, SaveRead, SaveMark, SaveHangs, Die, Start,
         SignalsTangle, TangledEnd, allVars
<1> QED BY <1>1, <1>2, <1>3, <1>4, <1>5

-----------------------------------------------------------------------------
(* What the update loop of queue_load leaves behind.                       *)

\* With a slot for each entry, one that waits always finds one.
LEMMA AlwaysASlot ==
  ASSUME TypeOK, IsInjective(download_queue.items), MaxDownloads >= Cardinality(Entry),
         pos \in DOMAIN download_queue.items, status[Current] = "WAITING"
  PROVE  HasSlot
<1> DEFINE items == download_queue.items
           S == {i \in DOMAIN items : status[items[i]] = "STARTED"}
           T == Entry \ {Current}
           f == [i \in S |-> items[i]]
<1>1. Current \in Entry /\ \A i \in DOMAIN items : items[i] \in Entry
  BY ItemsType DEF TypeOK, Current
<1>2. f \in [S -> T]
  BY <1>1
<1>3. \A a, b \in S : f[a] = f[b] => a = b
  BY DEF IsInjective
<1>4. IsFiniteSet(Entry) /\ MaxDownloads \in Nat
  BY LifecycleAssumption, ConstantsAssumption
<1>5. IsFiniteSet(T) /\ Cardinality(T) = Cardinality(Entry) - 1 /\ Cardinality(Entry) \in Nat
  BY <1>1, <1>4, FS_RemoveElement, FS_CardinalityType
<1>6. CountStarted = Cardinality(S)
  BY DEF CountStarted
<1> HIDE DEF S, T, f
<1>7. f \in Injection(S, T)
  BY <1>2, <1>3, Fun_IsInj
<1>8. IsFiniteSet(S) /\ Cardinality(S) <= Cardinality(T)
  BY <1>5, <1>7, FS_Injection
<1>9. Cardinality(S) \in Nat
  BY <1>8, FS_CardinalityType
<1> QED BY <1>4, <1>5, <1>6, <1>8, <1>9 DEF HasSlot

LoadingControl == {"update", "starting", "idle", "crashed", "hung", "blocked"}

\* What a step of the update loop does to the entries it has come past.
LEMMA UpdateLeaves ==
  ASSUME TypeOK, pc \in LoadingControl, pos # 0, IsInjective(download_queue.items), HandlerStep
  PROVE  /\ pc' \in LoadingControl /\ pos' # 0 /\ download_queue' = download_queue
         /\ MaxDownloads >= Cardinality(Entry)
            /\ (\A i \in DOMAIN download_queue.items :
                  i < pos \/ pc = "idle" => status[download_queue.items[i]] # "WAITING")
            => \A i \in DOMAIN download_queue.items :
                  i < pos' \/ pc' = "idle" => status'[download_queue.items[i]] # "WAITING"
<1> USE DEF entryVars, threadVars, managerVars, localVars
<1> DEFINE items == download_queue.items
           Before == \A i \in DOMAIN items : i < pos \/ pc = "idle" => status[items[i]] # "WAITING"
           After == \A i \in DOMAIN items : i < pos' \/ pc' = "idle" => status'[items[i]] # "WAITING"
<1>1. /\ pos \in Nat /\ status \in [Entry -> Status] /\ DOMAIN items = 1..Len(items) /\ Len(items) \in Nat
      /\ \A i \in DOMAIN items : items[i] \in Entry
  BY ItemsType DEF TypeOK, ListOf
<1>2. CASE UpdateSkip
  <2>1. /\ Updating /\ ~Startable /\ pos' = pos + 1 /\ pc' = pc /\ pc = "update"
        /\ UNCHANGED <<status, download_queue>>
    BY <1>2 DEF UpdateSkip, Updating
  <2>2. MaxDownloads >= Cardinality(Entry) => status[Current] # "WAITING"
    BY <2>1, AlwaysASlot DEF Updating, Startable
  <2>3. ASSUME MaxDownloads >= Cardinality(Entry), Before, NEW i \in DOMAIN items, i < pos'
        PROVE  status[items[i]] # "WAITING"
    <3>1. i < pos \/ i = pos
      BY <1>1, <2>1, <2>3
    <3> QED BY <2>2, <2>3, <3>1 DEF Current
  <2> QED BY <1>1, <2>1, <2>3
<1>3. CASE UpdateDone
  <2>1. /\ pos \notin DOMAIN items /\ pos' = pos /\ pc' \in {"idle", "blocked"}
        /\ UNCHANGED <<status, download_queue>>
    BY <1>3 DEF UpdateDone
  <2>2. \A i \in DOMAIN items : i < pos
    BY <1>1, <2>1
  <2> QED BY <2>1, <2>2 DEF LoadingControl
<1>4. CASE MarkStarting
  <2>1. /\ pc = "starting" /\ pos' = pos + 1 /\ pc' = "update" /\ download_queue' = download_queue
        /\ status' = [status EXCEPT ![Current] = "STARTING"]
    BY <1>4 DEF MarkStarting
  <2>2. ASSUME Before, NEW i \in DOMAIN items, i < pos' PROVE status'[items[i]] # "WAITING"
    <3>1. i < pos \/ i = pos
      BY <1>1, <2>1, <2>2
    <3>2. CASE items[i] = Current
      BY <1>1, <2>1, <3>2
    <3>3. CASE items[i] # Current
      <4>1. status'[items[i]] = status[items[i]] /\ i < pos
        BY <1>1, <2>1, <3>1, <3>3 DEF Current
      <4> QED BY <2>2, <4>1
    <3> QED BY <3>2, <3>3
  <2> QED BY <1>1, <2>1, <2>2 DEF LoadingControl
<1>5. CASE DownloadStartFails \/ (\E t \in Thread : DownloadStart(t)) \/ QueueFault
  <2>1. /\ UNCHANGED <<status, download_queue, pos>>
        /\ pc' \in {"starting", "crashed", "hung"}
    BY <1>5 DEF DownloadStartFails, DownloadStart, Register, QueueFault
  <2> QED BY <2>1 DEF LoadingControl
<1>6. ~PauseStep /\ ~CancelStep /\ ~RestartApply /\ ~ThreadListFault
  BY DEF LoadingControl, PauseStep, PauseIdle, PauseWithoutThread, PauseThread, CancelStep, CancelIdle,
         CancelWithoutThread, CancelThread, RestartApply, ThreadListFault
<1> QED BY <1>2, <1>3, <1>4, <1>5, <1>6 DEF HandlerStep, UpdateStep

\* A thread never stores WAITING.
LEMMA ThreadLeaves ==
  ASSUME TypeOK, NEW t \in Thread, ThreadStep(t), NEW e \in Entry
  PROVE  /\ status[e] # "WAITING" => status'[e] # "WAITING"
         /\ UNCHANGED <<pc, pos, download_queue>>
<1>1. UNCHANGED <<pc, pos, download_queue>>
  BY DEF localVars, ThreadStep, ThreadStarted, OpenFails, ThreadCompletes, ThreadCancelled, Moves
<1>2. \E s \in {"STARTED", "COMPLETED"} : status' \in {status, [status EXCEPT ![entryOf[t]] = s]}
  BY DEF ThreadStep, ThreadStarted, OpenFails, ThreadCompletes, ThreadCancelled
<1>3. status \in [Entry -> Status]
  BY DEF TypeOK
<1> QED BY <1>1, <1>2, <1>3

\* Every action keeps it.
LEMMA ResumingStep ==
  ASSUME LifeTypeOK, Resuming, [LifeNext]_allVars
  PROVE  Resuming'
<1> USE DEF fileVars, lifeVars
<1> DEFINE items == download_queue.items
           Resumed == \A i \in DOMAIN items : i < pos \/ pc = "idle" => status[items[i]] # "WAITING"
<1>1. TypeOK
  BY DEF LifeTypeOK
<1>2. CASE mode' \notin {"down", "tangled", "loading"}
  BY <1>2 DEF Resuming
<1>3. CASE TerminateUnsaved \/ SaveDone \/ SignalsTangle \/ TangledEnd \/ Die
  BY <1>3 DEF TerminateUnsaved, SaveDone, SignalsTangle, TangledEnd, Die, Abandoned, Resuming, vars,
              localVars
<1>4. CASE Loading
  <2>1. mode = "loading" /\ mode' = "loading" /\ HandlerStep /\ index' = index
    BY <1>4 DEF Loading
  <2>2. /\ pc \in LoadingControl /\ pos # 0 /\ IsInjective(items)
        /\ MaxDownloads >= Cardinality(Entry) /\ index # NoIndex /\ Len(items) = Len(Lines) => Resumed
    BY <2>1 DEF Resuming, LoadingControl
  <2>3. /\ pc' \in LoadingControl /\ pos' # 0 /\ download_queue' = download_queue
        /\ MaxDownloads >= Cardinality(Entry) /\ Resumed => Resumed'
    BY <1>1, <2>1, <2>2, UpdateLeaves
  <2>4. Lines' = Lines
    BY <2>1 DEF Lines
  <2> QED BY <2>1, <2>2, <2>3, <2>4 DEF Resuming, LoadingControl
<1>9. CASE Downloading /\ mode = "tangled"
  <2>1. pos' = pos /\ mode' = mode
    BY <1>9 DEF Downloading, localVars, ThreadStep, ThreadStarted, OpenFails, ThreadCompletes,
                ThreadCancelled, Moves
  <2> QED BY <1>9, <2>1 DEF Resuming
<1>5. CASE Downloading /\ mode = "loading"
  <2>1. PICK t \in Thread : ThreadStep(t)
    BY <1>5 DEF Downloading
  <2>2. mode' = "loading" /\ index' = index /\ Lines' = Lines
    BY <1>5 DEF Downloading, Lines
  <2>3. UNCHANGED <<pc, pos, download_queue>>
    BY <2>1 DEF localVars, ThreadStep, ThreadStarted, OpenFails, ThreadCompletes, ThreadCancelled, Moves
  <2>4. \A i \in DOMAIN items : status[items[i]] # "WAITING" => status'[items[i]] # "WAITING"
    BY <1>1, <2>1, ThreadLeaves, ItemsType DEF TypeOK
  <2> QED BY <1>5, <2>2, <2>3, <2>4 DEF Resuming
<1>6. CASE Start
  <2>1. PICK n \in 0..Len(Lines) :
          /\ \E addresses \in [1..n -> Entry] : IsInjective(addresses) /\ Loads(n, addresses)
          /\ pc' = IF UpdatesAfter(n) THEN "update" ELSE "idle"
    BY <1>6 DEF Start
  <2>2. PICK addresses \in [1..n -> Entry] : IsInjective(addresses) /\ Loads(n, addresses)
    BY <2>1
  <2>3. /\ Len(download_queue'.items) = n /\ DOMAIN download_queue'.items = 1..n
        /\ \A i \in 1..n : download_queue'.items[i] = addresses[i]
    BY <2>2, LoadEffect
  <2>4. mode = "down" /\ mode' = "loading" /\ pos' = 1 /\ index' = index /\ n \in Nat
    BY <1>6, LinesType DEF Start, localVars, Resuming, LifeTypeOK
  <2>5. IsInjective(items')
    BY <2>2, <2>3 DEF IsInjective
  <2>6. Lines' = Lines
    BY <2>4 DEF Lines
  <2>7. index' # NoIndex /\ Len(items') = Len(Lines') => pc' = "update"
    BY <2>1, <2>3, <2>4, <2>6 DEF UpdatesAfter
  <2>8. pc' \in {"update", "idle"}
    BY <2>1
  <2>9. \A i \in DOMAIN items' : ~(i < pos')
    BY <2>3, <2>4
  <2> QED BY <2>4, <2>5, <2>7, <2>8, <2>9 DEF Resuming
<1>7. CASE UNCHANGED allVars
  <2>1. UNCHANGED <<pc, pos, status, download_queue, mode, index>> /\ Lines' = Lines
    BY <1>7 DEF allVars, vars, entryVars, localVars, Lines
  <2> QED BY <2>1 DEF Resuming
<1>8. ASSUME mode' \in {"down", "tangled", "loading"}
      PROVE  \/ TerminateUnsaved \/ SaveDone \/ Die \/ Loading \/ Start \/ UNCHANGED allVars
             \/ SignalsTangle \/ TangledEnd
             \/ (Downloading /\ mode \in {"loading", "tangled"})
  <2>1. ~InstallHandlers /\ ~Serving /\ ~Terminate /\ ~TerminateSticks /\ ~SaveHangs
    BY <1>8 DEF InstallHandlers, Serving, Terminate, TerminateSticks, SaveHangs
  <2>2. ~SaveRead /\ ~SaveMark /\ ~SavePrint
    BY <1>8 DEF SaveRead, SaveMark, SavePrint
  <2>3. Downloading => mode \in {"loading", "tangled"}
    BY <1>8 DEF Downloading
  <2> HIDE DEF lifeVars
  <2> QED BY <2>1, <2>2, <2>3 DEF LifeNext, SaveStep
<1> QED BY <1>2, <1>3, <1>4, <1>5, <1>6, <1>7, <1>8, <1>9

-----------------------------------------------------------------------------
(* The theorems.                                                           *)

\* The controller is started for the first time without an index.
LEMMA FirstLife == LifeInit => LifeIInv
<1> SUFFICES ASSUME LifeInit PROVE LifeIInv
  OBVIOUS
<1>1. TypeOK
  BY DEF LifeInit, Init, TypeOK, EmptyList, ListOf, Items, Status, Phase, Control, Garbage, Reply,
         Response, AllCommands
<1>2. LifeTypeOK
  <2>1. 1 \in 0..MaxStarts
    BY LifecycleAssumption
  <2>2. /\ url \in [Entry -> AnyUrl]
        /\ saving \in [pos : Nat, step : {"read", "mark", "print"}]
        /\ kept \in Seq(Snapshot) /\ complete \in BOOLEAN /\ tangled \in BOOLEAN
        /\ mode = "loading" /\ index = NoIndex /\ starts = 1
    <3>1. url \in [Entry -> AnyUrl]
      BY DEF LifeInit, AnyUrl
    <3>2. saving \in [pos : Nat, step : {"read", "mark", "print"}]
      BY DEF LifeInit, AtStart
    <3>3. kept \in Seq(Snapshot) /\ complete \in BOOLEAN /\ tangled \in BOOLEAN
      <4>1. kept = <<>> /\ complete = FALSE /\ tangled = FALSE
        BY DEF LifeInit
      <4> QED BY <4>1, EmptySeq
    <3>4. mode = "loading" /\ index = NoIndex /\ starts = 1
      BY DEF LifeInit
    <3> QED BY <3>1, <3>2, <3>3, <3>4
  <2>3. saving.step = "read"
    BY DEF LifeInit, AtStart
  <2> QED BY <1>1, <2>1, <2>2, <2>3 DEF LifeTypeOK, Mode
<1>3. IndexTellsQueue /\ Saving /\ WholeIndex
  BY DEF LifeInit, IndexTellsQueue, Saving, WholeIndex
<1>4. Resuming
  <2>1. mode = "loading" /\ pos = 1 /\ pc = "idle" /\ index = NoIndex /\ download_queue.items = <<>>
    BY DEF LifeInit, Init, EmptyList
  <2>2. IsInjective(download_queue.items)
    BY <2>1 DEF IsInjective
  <2> QED BY <2>1, <2>2 DEF Resuming
<1> QED BY <1>2, <1>3, <1>4 DEF LifeIInv

\* What a handler writes is what it will have to answer for in the next life: the
\* invariant holds through every request, transfer, signal, crash and restart.
THEOREM LifeInvariance == LifeSpec => []LifeIInv
<1>1. LifeIInv /\ [LifeNext]_allVars => LifeIInv'
  <2> SUFFICES ASSUME LifeIInv, [LifeNext]_allVars PROVE LifeIInv'
    OBVIOUS
  <2> USE DEF LifeIInv
  <2>1. LifeTypeOK'
    BY LifeTypeStep
  <2>2. IndexTellsQueue'
    BY IndexStep
  <2>3. Saving'
    BY <2>1, SavingStep
  <2>4. WholeIndex'
    BY WholeStep
  <2>5. Resuming'
    BY ResumingStep
  <2> QED BY <2>1, <2>2, <2>3, <2>4, <2>5
<1> QED BY <1>1, FirstLife, PTL DEF LifeSpec

\* Every variable keeps its type, in every life.
THEOREM LifeTypeCorrect == LifeSpec => []LifeTypeOK
BY LifeInvariance, PTL DEF LifeIInv

\* The index is a beginning of the queue at the last signal, with no transfer left
\* STARTED and none paused by the saving.
THEOREM IndexIsTrue == LifeSpec => []IndexTellsQueue
BY LifeInvariance, PTL DEF LifeIInv

\* What one process saved to the end the next one has in its queue.
THEOREM QueueSurvives == LifeSpec => SurvivesRestart
<1> DEFINE Survives ==
      starts' # starts /\ complete /\ kept # <<>> /\ pc' = "update" =>
        LET queue == download_queue'.items IN
          /\ Len(queue) = Len(kept)
          /\ \A i \in DOMAIN queue :
               IF kept[i].url \in Urls
               THEN /\ Tells(url'[queue[i]], status'[queue[i]], kept[i])
                    /\ NameTells(name'[queue[i]], i)
               ELSE url'[queue[i]] \notin Urls
<1>1. LifeIInv /\ [LifeNext]_allVars => [Survives]_allVars
  <2> USE DEF fileVars, lifeVars
  <2> SUFFICES ASSUME LifeIInv, LifeNext, starts' # starts, complete, kept # <<>>, pc' = "update"
               PROVE  LET queue == download_queue'.items IN
                        /\ Len(queue) = Len(kept)
                        /\ \A i \in DOMAIN queue :
                             IF kept[i].url \in Urls
                             THEN /\ Tells(url'[queue[i]], status'[queue[i]], kept[i])
                                  /\ NameTells(name'[queue[i]], i)
                             ELSE url'[queue[i]] \notin Urls
    OBVIOUS
  <2>1. Start
    BY DEF LifeNext, SaveStep, Loading, InstallHandlers, Serving, Downloading, Terminate,
           TerminateUnsaved, TerminateSticks, SaveRead, SaveMark, SavePrint, SaveDone, SaveHangs,
           SignalsTangle, TangledEnd, Die
  <2>2. PICK n \in 0..Len(Lines) :
          /\ \E addresses \in [1..n -> Entry] : IsInjective(addresses) /\ Loads(n, addresses)
          /\ pc' = IF UpdatesAfter(n) THEN "update" ELSE "idle"
    BY <2>1 DEF Start
  <2>3. PICK addresses \in [1..n -> Entry] : IsInjective(addresses) /\ Loads(n, addresses)
    BY <2>2
  <2>4. /\ index # NoIndex /\ Len(index) = Len(kept) /\ n = Len(Lines)
        /\ index \in Seq(Line) /\ kept \in Seq(Snapshot)
    BY <2>2 DEF UpdatesAfter, LifeIInv, WholeIndex, LifeTypeOK
  <2>5. index # <<>>
    <3>1. Len(kept) # 0
      BY <2>4, EmptySeq
    <3> QED BY <2>4, <3>1
  <2>6. Lines = index /\ n = Len(kept) /\ DOMAIN index = 1..n
    BY <2>4, <2>5 DEF Lines
  <2>7. /\ Len(download_queue'.items) = n /\ DOMAIN download_queue'.items = 1..n
        /\ \A i \in 1..n :
             LET e == download_queue'.items[i] IN
               url'[e] = UrlOf(i) /\ status'[e] \in StatusesOf(i) /\ name'[e] \in NamesOf(i)
    BY <2>3, <2>6, LoadEffect DEF LifeIInv
  <2>8. \A i \in 1..n : index[i].url = kept[i].url /\ Tells(index[i].url, index[i].status, kept[i])
    BY <2>4, <2>6 DEF LifeIInv, IndexTellsQueue, WholeIndex, Tells
  <2> SUFFICES ASSUME NEW i \in 1..n
               PROVE  LET e == download_queue'.items[i] IN
                        IF kept[i].url \in Urls
                        THEN Tells(url'[e], status'[e], kept[i]) /\ NameTells(name'[e], i)
                        ELSE url'[e] \notin Urls
    BY <2>6, <2>7
  <2> DEFINE e == download_queue'.items[i]
  <2>9. CASE kept[i].url \in Urls
    <3>1. url'[e] = index[i].url /\ status'[e] = index[i].status
      BY <2>6, <2>7, <2>8, <2>9, LifecycleAssumption DEF UrlOf, StatusesOf
    <3>2. \/ name'[e] = BaseName[kept[i].url]
          \/ i > 1 /\ index[i - 1].url \notin Urls /\ name'[e] = Digitless[kept[i].url]
      BY <2>6, <2>7, <2>8, <2>9 DEF NamesOf
    <3>3. i > 1 => index[i - 1].url = kept[i - 1].url
      BY <2>4, <2>6, <2>8
    <3>4. NameTells(name'[e], i)
      BY <3>2, <3>3 DEF NameTells
    <3> QED BY <2>8, <2>9, <3>1, <3>4
  <2>10. CASE kept[i].url \notin Urls
    <3>1. url'[e] = UrlOf(i) /\ Lines[i].url \notin Urls
      BY <2>6, <2>7, <2>8, <2>10
    <3>2. url'[e] \notin Urls
      BY <3>1, LifecycleAssumption DEF UrlOf
    <3> QED BY <2>10, <3>2
  <2> QED BY <2>9, <2>10
<1> QED BY <1>1, LifeInvariance, PTL DEF LifeSpec, SurvivesRestart

\* With a slot for each, what waits in the index is taken up before requests are.
THEOREM ResumedFirst == LifeSpec => ResumesBeforeServing
<1> DEFINE Resumes ==
      mode = "loading" /\ mode' = "running" /\ MaxDownloads >= Cardinality(Entry)
      /\ index # NoIndex /\ Len(download_queue.items) = Len(Lines) =>
        \A e \in Items(download_queue) : status[e] # "WAITING"
<1>1. LifeIInv /\ [LifeNext]_allVars => [Resumes]_allVars
  <2> USE DEF fileVars, lifeVars
  <2> SUFFICES ASSUME LifeIInv, LifeNext, mode = "loading", mode' = "running",
                      MaxDownloads >= Cardinality(Entry), index # NoIndex,
                      Len(download_queue.items) = Len(Lines), NEW e \in Items(download_queue)
               PROVE  status[e] # "WAITING"
    OBVIOUS
  <2>1. pc = "idle"
    <3>1. ~Loading /\ ~Serving /\ ~Downloading /\ ~Terminate /\ ~TerminateUnsaved /\ ~TerminateSticks
      BY DEF Loading, Serving, Downloading, Terminate, TerminateUnsaved, TerminateSticks
    <3>2. ~SaveStep /\ ~SaveHangs /\ ~SignalsTangle /\ ~TangledEnd /\ ~Die /\ ~Start
      BY DEF SaveStep, SaveRead, SaveMark, SavePrint, SaveDone, SaveHangs, SignalsTangle, TangledEnd,
             Die, Start
    <3> QED BY <3>1, <3>2 DEF LifeNext, InstallHandlers
  <2>2. PICK i \in DOMAIN download_queue.items : e = download_queue.items[i]
    BY DEF Items
  <2> QED BY <2>1, <2>2 DEF LifeIInv, Resuming
<1> QED BY <1>1, LifeInvariance, PTL DEF LifeSpec, ResumesBeforeServing

-----------------------------------------------------------------------------
(* What holds in every life.                                               *)

\* The main thread keeps the queue free of entries without a name and of entries
\* queued twice, and leaves it alone between the two searches of a handler.
LEMMA QueueKept ==
  ASSUME TypeOK, NamedEntries, QueuedOnce, Request \/ HandlerStep
  PROVE  NamedEntries' /\ QueuedOnce' /\ FoundFirst'
<1> USE DEF entryVars, threadVars, managerVars, localVars
<1>1. ASSUME UNCHANGED <<name, download_queue>> PROVE NamedEntries' /\ QueuedOnce'
  BY <1>1 DEF NamedEntries, QueuedOnce, Items
<1>2. ASSUME pc' \notin {"pause", "cancel", "restart"} PROVE FoundFirst'
  BY <1>2 DEF FoundFirst
<1>3. download_queue \in ListOf(Entry) /\ Items(download_queue)' = Items(download_queue')
  BY DEF TypeOK, Items
<1>4. ASSUME NEW c, NEW n \in Names, NEW p, Found(c, n, p)
      PROVE  NamedEntries' /\ QueuedOnce' /\ FoundFirst'
  <2>1. UNCHANGED <<name, download_queue>>
    BY <1>4 DEF Found
  <2>2. PICK i \in DOMAIN download_queue.items : FirstNamed(i, n) /\ arg' = download_queue.items[i]
    BY <1>4 DEF Found
  <2>3. FoundFirst'
    BY <2>1, <2>2 DEF FoundFirst, FirstNamed
  <2> QED BY <1>1, <2>1, <2>3
<1>5. ASSUME NEW n \in Names, NEW e \in Entry, AddAccepted(n, e)
      PROVE  NamedEntries' /\ QueuedOnce' /\ FoundFirst'
  <2>1. /\ name[e] = NoName /\ name' = [name EXCEPT ![e] = n] /\ pc' \in {"update", "blocked"}
        /\ download_queue' \in ListAppends(download_queue, e)
    BY <1>5 DEF AddAccepted, Answer
  <2>2. /\ Items(download_queue') \subseteq Items(download_queue) \union {e}
        /\ download_queue' = ListAppend(download_queue, e) \/ download_queue'.items = <<e>>
    BY <1>3, <2>1, AppendsItems
  <2>3. e \notin Items(download_queue)
    BY <2>1, ConstantsAssumption DEF NamedEntries
  <2>4. NamedEntries'
    BY <1>3, <2>1, <2>2 DEF NamedEntries, TypeOK
  <2>5. QueuedOnce'
    <3>1. CASE download_queue'.items = <<e>>
      <4>1. DOMAIN download_queue'.items = {1}
        BY <3>1
      <4> QED BY <4>1 DEF QueuedOnce
    <3>2. CASE download_queue' = ListAppend(download_queue, e)
      <4> DEFINE s == download_queue.items
      <4>1. /\ DOMAIN download_queue'.items = 1..(Len(s) + 1)
            /\ \A j \in DOMAIN s : download_queue'.items[j] = s[j] /\ s[j] # e
            /\ download_queue'.items[Len(s) + 1] = e
        BY <1>3, <2>3, <3>2, AppendItems DEF Items
      <4>2. DOMAIN s = 1..Len(s) /\ Len(s) \in Nat
        BY <1>3 DEF ListOf
      <4>3. \A j \in 1..(Len(s) + 1) : j \in DOMAIN s \/ j = Len(s) + 1
        BY <4>2
      <4> QED BY <4>1, <4>3 DEF QueuedOnce
    <3> QED BY <2>2, <3>1, <3>2
  <2> QED BY <1>2, <2>1, <2>4, <2>5
<1>6. ASSUME CancelStep PROVE NamedEntries' /\ QueuedOnce' /\ FoundFirst'
  <2>1. PICK i \in DOMAIN download_queue.items : download_queue' = ListRemove(download_queue, i)
    BY <1>6 DEF CancelStep, CancelIdle, CancelWithoutThread, CancelThread, Dequeue
  <2>2. name' = name /\ pc' \in {"idle", "blocked"}
    BY <1>6 DEF CancelStep, CancelIdle, CancelWithoutThread, CancelThread, Dequeue, Answer
  <2>3. NamedEntries'
    BY <1>3, <2>1, <2>2, RemoveItems DEF NamedEntries
  <2>4. QueuedOnce'
    BY <1>3, <2>1, RemoveKeepsDistinct DEF QueuedOnce
  <2> QED BY <1>2, <2>2, <2>3, <2>4
<1>7. ASSUME \/ \E c \in {"PAUSE", "CANCEL", "RESTART"} : NotFound(c)
             \/ \E n \in Names : AddRefused(n) \/ AddOverruns(n)
             \/ AddBlocks \/ QueueStatus \/ Unknown \/ QueueFault
      PROVE  NamedEntries' /\ QueuedOnce' /\ FoundFirst'
  <2>1. UNCHANGED <<name, download_queue>> /\ pc' \notin {"pause", "cancel", "restart"}
    BY <1>7 DEF NotFound, AddRefused, AddOverruns, AddBlocks, QueueStatus, Unknown, QueueFault, Receives,
                Answer
  <2> QED BY <1>1, <1>2, <2>1
<1>8. ASSUME PauseStep \/ RestartApply \/ UpdateStep \/ ThreadListFault
      PROVE  NamedEntries' /\ QueuedOnce' /\ FoundFirst'
  <2>1. UNCHANGED <<name, download_queue>> /\ pc' \notin {"pause", "cancel", "restart"}
    BY <1>8 DEF PauseStep, PauseIdle, PauseWithoutThread, PauseThread, RestartApply, UpdateStep,
                UpdateSkip, UpdateDone, MarkStarting, DownloadStart, DownloadStartFails, Register,
                Updating, ThreadListFault, Answer
  <2> QED BY <1>1, <1>2, <2>1
<1> QED BY <1>4, <1>5, <1>6, <1>7, <1>8 DEF Request, QueueAdd, PauseFound, CancelFound, RestartFound, HandlerStep

\* The main thread stores WAITING where a client asked for it, and a start takes the
\* entry it starts from among those.
LEMMA AskedKept ==
  ASSUME TypeOK, TypeOK', ReadNotWaiting, WaitsIfAsked, Request \/ HandlerStep,
         \A e \in Entry : name'[e] = name[e] => url'[e] = url[e]
  PROVE  ReadNotWaiting' /\ WaitsIfAsked'
<1> USE DEF entryVars, threadVars, managerVars, localVars
<1>1. Items(download_queue) \subseteq Entry /\ Items(download_queue)' = Items(download_queue')
  BY ItemsType DEF TypeOK, Items
<1>2. ASSUME pc \notin {"starting", "crashed", "hung"}, pc' \notin {"pause", "cancel"},
             Items(download_queue') \subseteq Items(download_queue), name' = name,
             \A e \in Items(download_queue) :
               status'[e] = "WAITING" => wanted'[e] \/ (status[e] = "WAITING" /\ wanted'[e] = wanted[e])
      PROVE  ReadNotWaiting' /\ WaitsIfAsked'
  <2>1. ReadNotWaiting'
    BY <1>2 DEF ReadNotWaiting
  <2>2. ASSUME NEW e \in Items(download_queue'), status'[e] = "WAITING"
        PROVE  wanted'[e] \/ url'[e] \notin Urls
    BY <1>1, <1>2, <2>2 DEF WaitsIfAsked
  <2> QED BY <1>1, <2>1, <2>2 DEF WaitsIfAsked
<1>3. ASSUME NEW c, NEW n \in Names, NEW p, Found(c, n, p)
      PROVE  ReadNotWaiting' /\ WaitsIfAsked'
  <2>1. /\ UNCHANGED <<name, status, wanted, download_queue>> /\ pc = "idle"
        /\ seen' = status[arg']
    BY <1>3 DEF Found, Receives
  <2>2. ReadNotWaiting'
    BY <2>1 DEF ReadNotWaiting
  <2>3. \A e \in Entry : url'[e] = url[e]
    BY <2>1
  <2>4. WaitsIfAsked'
    BY <1>1, <2>1, <2>3 DEF WaitsIfAsked
  <2> QED BY <2>2, <2>4
<1>4. ASSUME NEW n \in Names, NEW e \in Entry, AddAccepted(n, e)
      PROVE  ReadNotWaiting' /\ WaitsIfAsked'
  <2>1. /\ name' = [name EXCEPT ![e] = n] /\ status' = [status EXCEPT ![e] = "WAITING"]
        /\ wanted' = [wanted EXCEPT ![e] = TRUE] /\ download_queue' \in ListAppends(download_queue, e)
        /\ pc = "idle" /\ pc' \in {"update", "blocked"}
    BY <1>4 DEF AddAccepted, Answer, Receives
  <2>2. Items(download_queue') \subseteq Items(download_queue) \union {e}
    BY <2>1, AppendsItems DEF TypeOK
  <2>3. ASSUME NEW f \in Items(download_queue), f # e, status'[f] = "WAITING"
        PROVE  wanted'[f] \/ url'[f] \notin Urls
    <3>1. name'[f] = name[f] /\ status'[f] = status[f] /\ wanted'[f] = wanted[f] /\ url'[f] = url[f]
      BY <1>1, <2>1, <2>3 DEF TypeOK
    <3> QED BY <2>1, <2>3, <3>1 DEF WaitsIfAsked
  <2>4. wanted'[e]
    BY <2>1 DEF TypeOK
  <2> QED BY <1>1, <2>1, <2>2, <2>3, <2>4 DEF ReadNotWaiting, WaitsIfAsked
<1>5. ASSUME PauseStep \/ CancelStep PROVE ReadNotWaiting' /\ WaitsIfAsked'
  <2>1. /\ pc \in {"pause", "cancel"} /\ pc' \in {"idle", "blocked"} /\ name' = name
        /\ wanted' = [wanted EXCEPT ![arg] = FALSE]
    BY <1>5 DEF PauseStep, PauseIdle, PauseWithoutThread, PauseThread, CancelStep, CancelIdle,
                CancelWithoutThread, CancelThread, StopThread, Dequeue, Answer
  <2>2. Items(download_queue') \subseteq Items(download_queue)
    <3>1. UNCHANGED download_queue
          \/ \E i \in DOMAIN download_queue.items : download_queue' = ListRemove(download_queue, i)
      BY <1>5 DEF PauseStep, PauseIdle, PauseWithoutThread, PauseThread, CancelStep, CancelIdle,
                  CancelWithoutThread, CancelThread, Dequeue
    <3>2. download_queue \in ListOf(Entry)
      BY DEF TypeOK
    <3> QED BY <3>1, <3>2, RemoveItems
  <2>3. status'[arg] # "WAITING" /\ \A e \in Entry : status'[e] = "WAITING" => status[e] = "WAITING"
    <3>1. arg \in Entry /\ status \in [Entry -> Status]
      BY <2>1 DEF TypeOK
    <3>2. CASE PauseIdle \/ CancelIdle
      <4>1. PICK s : status' = [status EXCEPT ![arg] = s] /\ s # "WAITING"
        BY <2>1, <3>2 DEF PauseIdle, CancelIdle, StatusWhenIdle, ReadNotWaiting
      <4> QED BY <3>1, <4>1
    <3>3. CASE PauseWithoutThread \/ CancelWithoutThread
      BY <2>1, <3>3 DEF PauseWithoutThread, CancelWithoutThread, ReadNotWaiting
    <3>4. CASE PauseThread \/ CancelThread
      <4>1. PICK f : status' = [status EXCEPT ![f] = "PAUSED"]
        BY <3>4 DEF PauseThread, CancelThread, StopThread
      <4>2. status[arg] # "WAITING"
        BY <2>1, <3>4 DEF PauseThread, CancelThread, ReadNotWaiting
      <4> QED BY <3>1, <4>1, <4>2
    <3> QED BY <1>5, <3>2, <3>3, <3>4 DEF PauseStep, CancelStep
  <2>4. \A e \in Items(download_queue) :
          status'[e] = "WAITING" => status[e] = "WAITING" /\ wanted'[e] = wanted[e]
    BY <1>1, <2>1, <2>3 DEF TypeOK
  <2> QED BY <1>2, <2>1, <2>2, <2>4
<1>6. ASSUME RestartApply PROVE ReadNotWaiting' /\ WaitsIfAsked'
  <2>1. pc = "restart" /\ pc' \in {"update", "blocked"} /\ UNCHANGED <<name, download_queue>>
    BY <1>6 DEF RestartApply, Answer
  <2>2. \A e \in Items(download_queue) :
          status'[e] = "WAITING" => wanted'[e] \/ (status[e] = "WAITING" /\ wanted'[e] = wanted[e])
    BY <1>1, <1>6, <2>1 DEF RestartApply, TypeOK
  <2> QED BY <1>2, <2>1, <2>2
<1>7. ASSUME NEW t \in Thread, DownloadStart(t) PROVE ReadNotWaiting' /\ WaitsIfAsked'
  <2>1. /\ UNCHANGED <<name, status, download_queue, pos>> /\ wanted' = [wanted EXCEPT ![Current] = FALSE]
        /\ pc = "update" /\ pc' \in {"starting", "crashed", "hung"}
    BY <1>7 DEF DownloadStart, NewThread, Updating, Register
  <2>2. Current' = Current /\ \A e \in Entry : url'[e] = url[e]
    BY <2>1 DEF Current
  <2>3. \A e \in Entry : e # Current => wanted'[e] = wanted[e]
    BY <2>1 DEF TypeOK
  <2> QED BY <1>1, <2>1, <2>2, <2>3 DEF ReadNotWaiting, WaitsIfAsked
<1>8. ASSUME MarkStarting PROVE ReadNotWaiting' /\ WaitsIfAsked'
  <2>1. /\ UNCHANGED <<name, wanted, download_queue>> /\ status' = [status EXCEPT ![Current] = "STARTING"]
        /\ pc = "starting" /\ pc' = "update"
    BY <1>8 DEF MarkStarting
  <2>2. \A e \in Entry : url'[e] = url[e]
    BY <2>1
  <2>3. \A e \in Entry : status'[e] = "WAITING" => status[e] = "WAITING" /\ e # Current
    BY <2>1 DEF TypeOK
  <2> QED BY <1>1, <2>1, <2>2, <2>3 DEF ReadNotWaiting, WaitsIfAsked
<1>9. ASSUME \/ \E c \in {"PAUSE", "CANCEL", "RESTART"} : NotFound(c)
             \/ \E n \in Names : AddRefused(n) \/ AddOverruns(n)
             \/ AddBlocks \/ QueueStatus \/ Unknown \/ QueueFault \/ ThreadListFault
             \/ UpdateSkip \/ UpdateDone \/ DownloadStartFails
      PROVE  ReadNotWaiting' /\ WaitsIfAsked'
  <2>1. /\ UNCHANGED <<name, status, wanted, download_queue>>
        /\ pc \notin {"starting", "crashed", "hung"} /\ pc' \notin {"pause", "cancel"}
    BY <1>9 DEF NotFound, AddRefused, AddOverruns, AddBlocks, QueueStatus, Unknown, QueueFault, Receives,
                Answer, ThreadListFault, UpdateSkip, UpdateDone, DownloadStartFails, Updating, Register
  <2> QED BY <1>2, <2>1
<1> QED BY <1>3, <1>4, <1>5, <1>6, <1>7, <1>8, <1>9
        DEF Request, QueueAdd, PauseFound, CancelFound, RestartFound, HandlerStep, UpdateStep

\* No step of the process loses a transfer that nobody stopped, names shared or not: an
\* entry is not renamed, and a thread that leaves the list is stopped or has no name.
LEMMA FindableKept ==
  ASSUME TypeOK, Findable, \/ Request \/ HandlerStep \/ \E t \in Thread : ThreadStep(t)
  PROVE  Findable'
<1> USE DEF entryVars, threadVars, managerVars, localVars
<1>1. /\ Items(thread_list)' = Items(thread_list')
      /\ thread_list \in ListOf(Thread \union {NoThread})
  BY DEF TypeOK, Items
<1>2. ASSUME UNCHANGED <<entryOf, thread_list>>,
             \A t \in Thread : cancelled[t] => cancelled'[t],
             \A t \in Thread : Live(t)' => Live(t),
             \A t \in Thread : Live(t) /\ name'[entryOf[t]] # EmptyName => name[entryOf[t]] # EmptyName
      PROVE  Findable'
  BY <1>2 DEF Findable
<1>3. ASSUME NEW n \in Names, NEW e \in Entry, AddAccepted(n, e) PROVE Findable'
  <2>1. /\ name[e] = NoName /\ name' = [name EXCEPT ![e] = n]
        /\ UNCHANGED <<entryOf, phase, cancelled, thread_list>>
    BY <1>3 DEF AddAccepted
  <2>2. NoName # EmptyName
    BY ConstantsAssumption, LifecycleAssumption
  <2>3. ASSUME NEW t \in Thread, Live(t), name'[entryOf[t]] # EmptyName
        PROVE  name[entryOf[t]] # EmptyName
    <3>1. entryOf[t] \in Entry
      BY <2>3 DEF TypeOK, Live
    <3> QED BY <2>1, <2>2, <2>3, <3>1 DEF TypeOK
  <2> QED BY <1>2, <2>1, <2>3 DEF Live
<1>4. ASSUME PauseThread \/ CancelThread PROVE Findable'
  <2>1. PICK i \in DOMAIN thread_list.items :
          FirstThread(i, name[arg]) /\ StopThread(thread_list.items[i])
               /\ (PauseThread => thread_list' = ListRemove(thread_list, i))
    BY <1>4 DEF PauseThread, CancelThread
  <2> DEFINE u == thread_list.items[i]
  <2>2. u \in Thread /\ cancelled' = [cancelled EXCEPT ![u] = TRUE] /\ UNCHANGED <<name, entryOf, phase>>
    BY <1>4, <2>1, FirstThreadType DEF PauseThread, CancelThread, StopThread, Dequeue
  <2>3. \A t \in Thread : cancelled[t] => cancelled'[t]
    BY <2>2 DEF TypeOK
  <2>4. CASE UNCHANGED thread_list
    BY <1>2, <2>2, <2>3, <2>4 DEF Live
  <2>5. ASSUME NEW k \in DOMAIN thread_list.items, thread_list' = ListRemove(thread_list, k),
               thread_list.items[k] \in Thread,
               cancelled'[thread_list.items[k]] \/ name[entryOf[thread_list.items[k]]] = EmptyName
        PROVE  Findable'
    <3>1. \/ thread_list'.damaged
          \/ /\ Items(thread_list) \ {thread_list.items[k]} \subseteq Items(thread_list')
             /\ thread_list'.damaged = thread_list.damaged
      BY <1>1, <2>5, RemoveItems
    <3> QED BY <1>1, <2>2, <2>3, <2>5, <3>1 DEF Findable, Live
  <2>6. CASE PauseThread
    BY <2>1, <2>2, <2>5, <2>6 DEF TypeOK
  <2>7. CASE CancelThread
    <3>1. ASSUME NEW k \in DOMAIN thread_list.items, FirstThread(k, EmptyName),
                 thread_list' = ListRemove(thread_list, k)
          PROVE  Findable'
      BY <2>5, <3>1, FirstThreadType
    <3> QED BY <2>4, <2>7, <3>1 DEF CancelThread, RemoveByHandle
  <2> QED BY <1>4, <2>6, <2>7
<1>5. ASSUME NEW t \in Thread, DownloadStart(t) PROVE Findable'
  <2>1. /\ phase' = [phase EXCEPT ![t] = "opening"] /\ entryOf' = [entryOf EXCEPT ![t] = Current]
        /\ Register(t) /\ UNCHANGED <<name, cancelled>>
    BY <1>5 DEF DownloadStart, NewThread
  <2>2. /\ ~thread_list.damaged => Items(thread_list') = Items(thread_list) \union {t}
        /\ thread_list'.damaged = thread_list.damaged
    BY <2>1, RegisterType
  <2> QED BY <1>1, <2>1, <2>2 DEF Findable, Live, TypeOK
<1>6. ASSUME DownloadStartFails PROVE Findable'
  <2>1. /\ ~thread_list.damaged => Items(thread_list) \subseteq Items(thread_list')
        /\ thread_list'.damaged = thread_list.damaged
    BY <1>6, RegisterType DEF DownloadStartFails
  <2>2. UNCHANGED <<name, entryOf, phase, cancelled>>
    BY <1>6 DEF DownloadStartFails
  <2> QED BY <1>1, <2>1, <2>2 DEF Findable, Live
<1>7. ASSUME NEW t \in Thread, ThreadStep(t) PROVE Findable'
  <2>1. UNCHANGED <<name, entryOf, cancelled, thread_list>> /\ Live(t)
    BY <1>7 DEF ThreadStep, ThreadStarted, OpenFails, ThreadCompletes, ThreadCancelled, Moves, Runs, Live
  <2>2. PICK p : phase' = [phase EXCEPT ![t] = p]
    BY <1>7 DEF ThreadStep, ThreadStarted, OpenFails, ThreadCompletes, ThreadCancelled, Moves
  <2>3. \A u \in Thread : Live(u)' => Live(u)
    BY <2>1, <2>2 DEF Live, TypeOK
  <2> QED BY <1>2, <2>1, <2>3
<1>8. ASSUME UNCHANGED <<name, entryOf, phase, cancelled, thread_list>> PROVE Findable'
  BY <1>2, <1>8 DEF Live
<1>9. ASSUME \/ \E c \in {"PAUSE", "CANCEL", "RESTART"} : NotFound(c)
             \/ \E n \in Names : AddRefused(n) \/ AddOverruns(n)
             \/ \E c, n, p : Found(c, n, p)
             \/ AddBlocks \/ QueueStatus \/ Unknown \/ QueueFault \/ ThreadListFault
      PROVE  Findable'
  BY <1>8, <1>9 DEF NotFound, Found, AddRefused, AddOverruns, AddBlocks, QueueStatus, Unknown, QueueFault,
                    ThreadListFault
<1>10. ASSUME \/ PauseIdle \/ PauseWithoutThread \/ CancelIdle \/ CancelWithoutThread
              \/ RestartApply \/ UpdateSkip \/ UpdateDone \/ MarkStarting
       PROVE  Findable'
  BY <1>8, <1>10 DEF PauseIdle, PauseWithoutThread, CancelIdle, CancelWithoutThread, Dequeue, RestartApply,
                     UpdateSkip, UpdateDone, MarkStarting
<1> QED BY <1>3, <1>4, <1>5, <1>6, <1>7, <1>9, <1>10
        DEF Request, QueueAdd, PauseFound, CancelFound, RestartFound, HandlerStep, PauseStep, CancelStep,
            UpdateStep

\* Nor does a thread disturb what the main thread relies on: none of them stores WAITING.
LEMMA ThreadServes ==
  ASSUME LifeTypeOK, Serves, NEW t \in Thread, ThreadStep(t), UNCHANGED <<url, mode>>, mode # "down"
  PROVE  Serves'
<1>1. TypeOK
  BY DEF LifeTypeOK
<1>2. /\ UNCHANGED <<name, wanted, download_queue, pc, pos, arg, seen>>
      /\ \A e \in Entry : status[e] # "WAITING" => status'[e] # "WAITING"
  BY <1>1, ThreadLeaves
     DEF ThreadStep, ThreadStarted, OpenFails, ThreadCompletes, ThreadCancelled, Moves, localVars
<1>3. Items(download_queue) \subseteq Entry /\ Items(download_queue') = Items(download_queue)
  BY <1>1, <1>2, ItemsType DEF TypeOK
<1>4. mode \notin {"loading", "running"} => Serves'
  <2>1. phase[t] # "none"
    BY DEF ThreadStep, ThreadStarted, OpenFails, ThreadCompletes, ThreadCancelled, Runs, Live
  <2> QED BY <2>1 DEF Serves
<1>5. ASSUME mode \in {"loading", "running"} PROVE Serves'
  <2>1. NamedEntries /\ QueuedOnce /\ FoundFirst /\ ReadNotWaiting /\ WaitsIfAsked
    BY <1>5 DEF Serves
  <2>2. NamedEntries' /\ QueuedOnce' /\ FoundFirst'
    BY <1>2, <2>1 DEF NamedEntries, QueuedOnce, FoundFirst, FirstNamed, Items
  <2>3. ReadNotWaiting'
    <3>1. pc \in {"pause", "cancel"} => arg \in Entry
      BY <1>1 DEF TypeOK
    <3> QED BY <1>2, <2>1, <3>1 DEF ReadNotWaiting
  <2>4. WaitsIfAsked'
    <3>1. Current' = Current /\ Items(download_queue)' = Items(download_queue)
      BY <1>2 DEF Current, Items
    <3>2. \A e \in Items(download_queue) : status'[e] = "WAITING" => status[e] = "WAITING"
      BY <1>2, <1>3
    <3> QED BY <1>2, <2>1, <3>1, <3>2 DEF WaitsIfAsked
  <2> QED BY <1>5, <2>2, <2>3, <2>4 DEF Serves
<1> QED BY <1>4, <1>5

\* A new process begins with the entries of the lines, each of its own, and those that
\* wait count as asked for if they have the URL of a client.
LEMMA StartServes ==
  ASSUME LifeTypeOK, Serves, Start
  PROVE  Serves' /\ Findable'
<1>1. PICK n \in 0..Len(Lines) :
        \E addresses \in [1..n -> Entry] : IsInjective(addresses) /\ Loads(n, addresses)
  BY DEF Start
<1>2. PICK addresses \in [1..n -> Entry] : IsInjective(addresses) /\ Loads(n, addresses)
  BY <1>1
<1>3. /\ DOMAIN download_queue'.items = 1..n
      /\ \A i \in 1..n :
           LET e == download_queue'.items[i] IN
             /\ e = addresses[i]
             /\ url'[e] = UrlOf(i)
             /\ name'[e] \in Names
             /\ wanted'[e] = (UrlOf(i) \in Urls /\ status'[e] = "WAITING")
  BY <1>2, LoadEffect
<1>4. /\ UNCHANGED <<entryOf, phase, cancelled, thread_list>>
      /\ pc' \in {"update", "idle"} /\ mode = "down" /\ mode' = "loading"
  BY DEF Start, threadVars, managerVars
<1>5. \A t \in Thread : phase'[t] = "none"
  BY <1>4 DEF Serves
<1>6. Findable'
  BY <1>5 DEF Findable, Live
<1>7. NamedEntries'
  BY <1>3 DEF NamedEntries, Items
<1>8. QueuedOnce'
  BY <1>2, <1>3 DEF QueuedOnce, IsInjective
<1>9. FoundFirst' /\ ReadNotWaiting'
  BY <1>4 DEF FoundFirst, ReadNotWaiting
<1>10. WaitsIfAsked'
  <2> SUFFICES ASSUME NEW e \in Items(download_queue'), status'[e] = "WAITING"
               PROVE  wanted'[e] \/ url'[e] \notin Urls
    BY DEF WaitsIfAsked, Items
  <2>1. PICK i \in 1..n : e = download_queue'.items[i]
    BY <1>3 DEF Items
  <2> QED BY <1>3, <2>1
<1> QED BY <1>4, <1>6, <1>7, <1>8, <1>9, <1>10 DEF Serves

\* The handler takes out of the thread list what it has cancelled, and dies or ends with
\* the process.
LEMMA SavingServes ==
  ASSUME LifeTypeOK, Serves, Findable,
         \/ Terminate \/ TerminateUnsaved \/ TerminateSticks \/ SaveStep \/ SaveHangs
         \/ SignalsTangle \/ TangledEnd \/ Die
  PROVE  Serves' /\ Findable'
<1> USE DEF entryVars, threadVars, managerVars
<1>1. ASSUME Gone, mode' \in {"down", "tangled"} PROVE Serves' /\ Findable'
  <2>1. \A t \in Thread : phase'[t] = "none"
    BY <1>1 DEF Gone
  <2> QED BY <1>1, <2>1 DEF Serves, Findable, Live
<1>2. ASSUME UNCHANGED <<name, entryOf, phase, cancelled, thread_list>>, mode' \in {"saving", "stuck"}
      PROVE  Serves' /\ Findable'
  BY <1>2 DEF Serves, Findable, Live, Items
<1>3. CASE TerminateUnsaved \/ SaveDone \/ SignalsTangle \/ Die
  BY <1>1, <1>3 DEF TerminateUnsaved, SaveDone, SignalsTangle, Die
<1>6. CASE TangledEnd
  BY <1>6 DEF TangledEnd, Serves, Findable, Live, Items, vars
<1>4. CASE Terminate \/ TerminateSticks \/ SaveRead \/ SavePrint \/ SaveHangs
  BY <1>2, <1>4 DEF Terminate, TerminateSticks, SaveRead, SavePrint, SaveHangs, vars
<1>5. CASE SaveMark
  <2>1. UNCHANGED <<name, entryOf, phase, mode>> /\ mode = "saving"
    BY <1>5 DEF SaveMark
  <2>2. CASE UNCHANGED <<cancelled, thread_list>>
    BY <1>2, <2>1, <2>2
  <2>3. CASE \E i \in DOMAIN thread_list.items :
               /\ FirstThread(i, name[Saved])
               /\ cancelled' = [cancelled EXCEPT ![thread_list.items[i]] = TRUE]
               /\ thread_list' = ListRemove(thread_list, i)
    <3>1. PICK i \in DOMAIN thread_list.items :
            /\ FirstThread(i, name[Saved])
            /\ cancelled' = [cancelled EXCEPT ![thread_list.items[i]] = TRUE]
            /\ thread_list' = ListRemove(thread_list, i)
      BY <2>3
    <3> DEFINE u == thread_list.items[i]
    <3>2. thread_list \in ListOf(Thread \union {NoThread}) /\ cancelled \in [Thread -> BOOLEAN] /\ u \in Thread
      BY <3>1, FirstThreadType DEF LifeTypeOK, TypeOK
    <3>3. cancelled'[u] /\ \A t \in Thread : cancelled[t] => cancelled'[t]
      BY <3>1, <3>2
    <3>4. \/ thread_list'.damaged
          \/ /\ Items(thread_list) \ {u} \subseteq Items(thread_list')
             /\ thread_list'.damaged = thread_list.damaged
      BY <3>1, <3>2, RemoveItems
    <3>5. Items(thread_list)' = Items(thread_list')
      BY DEF Items
    <3>6. Findable'
      BY <2>1, <3>3, <3>4, <3>5 DEF Findable, Live
    <3> QED BY <2>1, <3>6 DEF Serves
  <2> QED BY <1>5, <2>2, <2>3 DEF SaveMark
<1> QED BY <1>3, <1>4, <1>5, <1>6 DEF SaveStep

\* Every step of every life keeps both.
LEMMA ServesStep ==
  ASSUME LifeTypeOK, LifeTypeOK', Serves, Findable, [LifeNext]_allVars
  PROVE  Serves' /\ Findable'
<1>1. TypeOK /\ TypeOK' /\ url \in [Entry -> AnyUrl]
  BY DEF LifeTypeOK
<1>2. ASSUME mode \in {"loading", "running"}, mode' = mode, Request \/ HandlerStep,
             \A e \in Entry : name'[e] = name[e] => url'[e] = url[e]
      PROVE  Serves' /\ Findable'
  <2>1. NamedEntries /\ QueuedOnce /\ FoundFirst /\ ReadNotWaiting /\ WaitsIfAsked
    BY <1>2 DEF Serves
  <2>2. NamedEntries' /\ QueuedOnce' /\ FoundFirst'
    BY <1>1, <1>2, <2>1, QueueKept
  <2>3. ReadNotWaiting' /\ WaitsIfAsked'
    BY <1>1, <1>2, <2>1, AskedKept
  <2>4. Findable'
    BY <1>1, <1>2, FindableKept
  <2> QED BY <1>2, <2>2, <2>3, <2>4 DEF Serves
<1>3. CASE Loading
  BY <1>2, <1>3 DEF Loading, lifeVars
<1>4. CASE Serving
  <2>1. \A e \in Entry : name'[e] = name[e] => url'[e] = url[e]
    BY <1>4 DEF Serving
  <2> QED BY <1>2, <1>4, <2>1 DEF Serving
<1>5. ASSUME UNCHANGED <<vars, url>>, mode' = mode \/ (mode = "loading" /\ mode' = "running")
      PROVE  Serves' /\ Findable'
  BY <1>5 DEF vars, entryVars, threadVars, managerVars, localVars, Serves, Findable, Live, NamedEntries,
              QueuedOnce, FoundFirst, FirstNamed, ReadNotWaiting, WaitsIfAsked, Current, Items
<1>6. CASE InstallHandlers \/ UNCHANGED allVars
  BY <1>5, <1>6 DEF InstallHandlers, allVars, lifeVars
<1>7. CASE Downloading
  <2>1. PICK t \in Thread : ThreadStep(t)
    BY <1>7 DEF Downloading
  <2>2. mode # "down" /\ UNCHANGED <<url, mode>>
    BY <1>7 DEF Downloading, lifeVars
  <2> QED BY <1>1, <2>1, <2>2, ThreadServes, FindableKept
<1> QED BY <1>3, <1>4, <1>6, <1>7, StartServes, SavingServes DEF LifeNext

\* In every life the main thread finds its entries as it left them, and every transfer
\* that nobody stopped is where a request looks for it.
THEOREM ServesInEachLife == LifeSpec => [](Serves /\ Findable)
<1>1. LifeInit => Serves /\ Findable
  BY DEF LifeInit, Init, Serves, NamedEntries, QueuedOnce, FoundFirst, ReadNotWaiting, WaitsIfAsked,
         Findable, Live, EmptyList, Items
<1>2. LifeTypeOK /\ LifeTypeOK' /\ (Serves /\ Findable) /\ [LifeNext]_allVars => (Serves /\ Findable)'
  BY ServesStep
<1> QED BY <1>1, <1>2, LifeTypeCorrect, PTL DEF LifeSpec

\* A transfer nobody stopped is where pause and cancel look for it, in every life.
THEOREM FindableInEachLife == LifeSpec => []Findable
BY ServesInEachLife, PTL

\* While requests are answered every step is one of the controller that runs.
LEMMA RunningStep ==
  ASSUME LifeNext, mode' = "running", pc # "idle"
  PROVE  mode = "running" /\ (Next \/ UNCHANGED pc)
BY DEF LifeNext, Loading, InstallHandlers, Serving, Downloading, Terminate, TerminateUnsaved,
       TerminateSticks, SaveStep, SaveRead, SaveMark, SavePrint, SaveDone, SaveHangs, SignalsTangle,
       TangledEnd, Die, Start, lifeVars, Next, vars

\* In every life a thread is started only for an entry that was asked for.
THEOREM NoUnaskedStartInAnyLife == LifeSpec => AskedInEachLife
<1> USE DEF entryVars, threadVars, managerVars, localVars
<1> DEFINE Asked == \A t \in Thread : phase[t] = "none" /\ phase'[t] # "none" =>
                      wanted[entryOf'[t]] \/ url[entryOf'[t]] \notin Urls
<1>1. LifeTypeOK /\ Serves /\ [LifeNext]_allVars => [Asked]_allVars
  <2> SUFFICES ASSUME LifeTypeOK, Serves, LifeNext,
                      NEW t \in Thread, phase[t] = "none", phase'[t] # "none"
               PROVE  wanted[entryOf'[t]] \/ url[entryOf'[t]] \notin Urls
    OBVIOUS
  <2>1. TypeOK
    BY DEF LifeTypeOK
  <2>2. (Request \/ HandlerStep) /\ mode \in {"loading", "running"}
    <3>1. ~InstallHandlers /\ ~Terminate /\ ~TerminateSticks /\ ~SaveHangs /\ ~TangledEnd /\ ~Start
      BY DEF InstallHandlers, Terminate, TerminateSticks, SaveHangs, TangledEnd, Start, vars
    <3>2. ~SaveRead /\ ~SaveMark /\ ~SavePrint
      BY DEF SaveRead, SaveMark, SavePrint, vars
    <3>3. ~TerminateUnsaved /\ ~SaveDone /\ ~SignalsTangle /\ ~Die
      BY DEF TerminateUnsaved, SaveDone, SignalsTangle, Die, Gone
    <3>4. ASSUME NEW u \in Thread, ThreadStep(u) PROVE FALSE
      BY <2>1, <3>4 DEF ThreadStep, ThreadStarted, OpenFails, ThreadCompletes, ThreadCancelled, Moves, Runs,
                        Live, TypeOK
    <3> QED BY <3>1, <3>2, <3>3, <3>4 DEF LifeNext, SaveStep, Loading, Serving, Downloading
  <2>3. PICK u \in Thread : DownloadStart(u)
    BY <2>2 DEF Request, QueueAdd, QueueStatus, Unknown, NotFound, Found, PauseFound, CancelFound,
           RestartFound, AddRefused, AddAccepted, AddOverruns, AddBlocks, HandlerStep, PauseStep, PauseIdle,
           PauseWithoutThread, PauseThread, CancelStep, CancelIdle, CancelWithoutThread,
           CancelThread, RestartApply, UpdateStep, UpdateSkip, UpdateDone, MarkStarting,
           DownloadStartFails, QueueFault, ThreadListFault
  <2>4. u = t /\ entryOf'[t] = Current
    BY <2>1, <2>3 DEF DownloadStart, NewThread, TypeOK
  <2>5. Current \in Items(download_queue) /\ status[Current] = "WAITING" /\ pc = "update"
    BY <2>3 DEF DownloadStart, Updating, Startable, Current, Items
  <2> QED BY <2>2, <2>4, <2>5 DEF Serves, WaitsIfAsked
<1> QED BY <1>1, LifeTypeCorrect, ServesInEachLife, PTL DEF LifeSpec, AskedInEachLife

\* In every life an answered request to pause or cancel that read STARTED leaves no
\* thread of its entry running on.
THEOREM StopsReachInAnyLife == LifeSpec => StopsInEachLife
<1> DEFINE Asked == /\ mode' = "running"
                    /\ pc \in {"pause", "cancel"} /\ seen = "STARTED" /\ pc' = "idle"
                    /\ ~thread_list.damaged
                    /\ OnceStarted(arg) /\ SoleHolder(arg)
<1>1. LifeTypeOK /\ Findable /\ [LifeNext]_allVars => [Asked => Stopped(arg)]_allVars
  <2> SUFFICES ASSUME LifeTypeOK, Findable, LifeNext, Asked PROVE Stopped(arg)
    OBVIOUS
  <2>1. Next
    BY RunningStep
  <2> QED BY <2>1, WhoAnswers, StopEffect DEF LifeTypeOK
<1> QED BY <1>1, LifeTypeCorrect, FindableInEachLife, PTL DEF LifeSpec, StopsInEachLife

\* In every life an answered cancel takes out of the queue the entry it stopped, be
\* there others of its name or not.
THEOREM CancelTakesOutInAnyLife == LifeSpec => CancelsInEachLife
<1> DEFINE Asked == mode' = "running" /\ pc = "cancel" /\ pc' = "idle" /\ ~download_queue'.damaged
<1>1. LifeTypeOK /\ Serves /\ [LifeNext]_allVars
        => [Asked => Items(download_queue') = Items(download_queue) \ {arg}]_allVars
  <2> SUFFICES ASSUME LifeTypeOK, Serves, LifeNext, Asked
               PROVE  Items(download_queue') = Items(download_queue) \ {arg}
    OBVIOUS
  <2>1. Next /\ mode = "running"
    BY RunningStep
  <2>2. CancelStep
    BY <2>1, WhoAnswers
  <2>3. FoundFirst /\ QueuedOnce
    BY <2>1 DEF Serves
  <2>4. PICK k \in DOMAIN download_queue.items :
          FirstNamed(k, name[arg]) /\ download_queue.items[k] = arg
    BY <2>3 DEF FoundFirst
  <2> QED BY <2>2, <2>3, <2>4, CancelEffect DEF LifeTypeOK, QueuedOnce
<1> QED BY <1>1, LifeTypeCorrect, ServesInEachLife, PTL DEF LifeSpec, CancelsInEachLife

=============================================================================
