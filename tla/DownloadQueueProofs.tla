------------------------- MODULE DownloadQueueProofs -------------------------
(***************************************************************************)
(* Theorems about DownloadQueue for every number of entries, threads,      *)
(* names and slots.                                                        *)
(***************************************************************************)
EXTENDS DownloadQueue, ListsProofs

-----------------------------------------------------------------------------
(* Type correctness.                                                       *)

\* The answer is one, and the main thread ends up where the handler sends it.
LEMMA AnswerType ==
  ASSUME TypeOK, NEW reply \in Response, NEW next \in Control, Answer(reply, next)
  PROVE  response' \in Response /\ pc' \in {next, "blocked"}
BY DEF Answer, TypeOK

\* FirstThread never yields the NULL download_start may have appended.
LEMMA FirstThreadType ==
  ASSUME TypeOK, NEW i \in DOMAIN thread_list.items, NEW n, FirstThread(i, n)
  PROVE  /\ thread_list.items[i] \in Thread
         /\ phase[thread_list.items[i]] # "none"
         /\ entryOf[thread_list.items[i]] \in Entry
         /\ name[entryOf[thread_list.items[i]]] = n
<1>1. thread_list.items[i] \in Thread \union {NoThread} /\ thread_list.items[i] \in Items(thread_list)
  BY ItemsType DEF TypeOK
<1> QED BY <1>1 DEF TypeOK, FirstThread, ThreadMatches

\* list_append on the thread list, whether the thread exists or not.
LEMMA RegisterType ==
  ASSUME TypeOK, NEW t \in Thread \union {NoThread}, Register(t)
  PROVE  /\ pc' \in {"starting", "crashed", "hung"}
         /\ thread_list' \in ListOf(Thread \union {NoThread})
         /\ Items(thread_list') \subseteq Items(thread_list) \union {t}
         /\ ~thread_list.damaged => Items(thread_list') = Items(thread_list) \union {t}
         /\ thread_list'.damaged = thread_list.damaged
<1>1. thread_list \in ListOf(Thread \union {NoThread}) /\ (thread_list.freed => thread_list.damaged)
  BY DEF TypeOK, ListOf
<1>2. CASE pc' = "starting" /\ thread_list' \in ListAppends(thread_list, t)
  BY <1>1, <1>2, AppendsItems
<1>3. CASE thread_list.freed /\ pc' \in {"crashed", "hung"} /\ UNCHANGED thread_list
  BY <1>1, <1>3
<1> QED BY <1>2, <1>3 DEF Register

\* Every action keeps the types.
LEMMA TypeStep == TypeOK /\ [Next]_vars => TypeOK'
<1> SUFFICES ASSUME TypeOK, [Next]_vars PROVE TypeOK'
  OBVIOUS
<1> USE DEF entryVars, threadVars, managerVars, localVars
<1>1. CASE UNCHANGED vars
  BY <1>1 DEF TypeOK, vars
<1>2. ASSUME NEW c \in {"PAUSE", "CANCEL", "RESTART"}, NotFound(c) PROVE TypeOK'
  <2>1. Reply(c, "FAILURE", FALSE) \in Response /\ "idle" \in Control
    BY DEF Reply, Response, AllCommands, Control
  <2>2. response' \in Response /\ pc' \in {"idle", "blocked"}
    BY <1>2, <2>1, AnswerType DEF NotFound
  <2> QED BY <1>2, <2>2 DEF TypeOK, NotFound, Control
<1>3. ASSUME NEW c, NEW n \in Names, NEW p \in {"pause", "cancel", "restart"}, Found(c, n, p)
      PROVE  TypeOK'
  <2>1. PICK i \in DOMAIN download_queue.items :
          arg' = download_queue.items[i] /\ seen' = status[arg']
    BY <1>3 DEF Found
  <2>2. arg' \in Entry
    BY <2>1, ItemsType DEF TypeOK
  <2>3. seen' \in Status /\ pc' = p
    BY <1>3, <2>1, <2>2 DEF Found, TypeOK
  <2> QED BY <1>3, <2>2, <2>3 DEF TypeOK, Found, Control
<1>4. ASSUME NEW n \in Names, AddRefused(n) PROVE TypeOK'
  <2>1. Reply("DOWNLOAD", "FAILURE", FALSE) \in Response /\ "idle" \in Control
    BY DEF Reply, Response, AllCommands, Control
  <2>2. response' \in Response /\ pc' \in {"idle", "blocked"}
    BY <1>4, <2>1, AnswerType DEF AddRefused
  <2> QED BY <1>4, <2>2 DEF TypeOK, AddRefused, Control
<1>5. ASSUME NEW n \in Names, NEW e \in Entry, AddAccepted(n, e) PROVE TypeOK'
  <2>1. Reply("DOWNLOAD", "SUCCESS", TRUE) \in Response /\ "update" \in Control
    BY DEF Reply, Response, AllCommands, Control
  <2>2. response' \in Response /\ pc' \in {"update", "blocked"}
    BY <1>5, <2>1, AnswerType DEF AddAccepted
  <2>3. download_queue' \in ListOf(Entry)
    BY <1>5, AppendsItems DEF AddAccepted, TypeOK
  <2> QED BY <1>5, <2>2, <2>3 DEF TypeOK, AddAccepted, Control, Status
<1>6. ASSUME AddBlocks \/ \E n \in Names : AddOverruns(n) PROVE TypeOK'
  BY <1>6 DEF TypeOK, AddBlocks, AddOverruns, Control
<1>7. ASSUME QueueStatus PROVE TypeOK'
  <2>1. Reply("STATUS", "SUCCESS", TRUE) \in Response /\ "idle" \in Control
    BY DEF Reply, Response, AllCommands, Control
  <2>2. response' \in Response /\ pc' \in {"idle", "blocked"}
    BY <1>7, <2>1, AnswerType DEF QueueStatus
  <2> QED BY <1>7, <2>2 DEF TypeOK, QueueStatus, Control
<1>8. ASSUME Unknown PROVE TypeOK'
  <2>1. Garbage \in Response
    BY DEF Garbage, Reply, Response, AllCommands
  <2> QED BY <1>8, <2>1 DEF TypeOK, Unknown
<1>9. ASSUME PauseStep PROVE TypeOK'
  <2>1. /\ \A b \in BOOLEAN : Reply("PAUSE", "SUCCESS", b) \in Response
        /\ "idle" \in Control
    BY DEF Reply, Response, AllCommands, Control
  <2>2. response' \in Response /\ pc' \in {"idle", "blocked"}
    BY <1>9, <2>1, AnswerType DEF PauseStep, PauseIdle, PauseWithoutThread, PauseThread
  <2>3. CASE PauseIdle
    BY <2>2, <2>3 DEF TypeOK, PauseIdle, StatusWhenIdle, Control, Status
  <2>4. CASE PauseWithoutThread
    BY <2>2, <2>4 DEF TypeOK, PauseWithoutThread, Control
  <2>5. CASE PauseThread
    <3>1. PICK i \in DOMAIN thread_list.items :
            /\ FirstThread(i, name[arg])
            /\ StopThread(thread_list.items[i])
            /\ thread_list' = ListRemove(thread_list, i)
      BY <2>5 DEF PauseThread
    <3>2. thread_list.items[i] \in Thread /\ entryOf[thread_list.items[i]] \in Entry
      BY <3>1, FirstThreadType
    <3>3. /\ thread_list' \in ListOf(Thread \union {NoThread})
          /\ Items(thread_list') \subseteq Items(thread_list)
      BY <3>1, RemoveItems DEF TypeOK
    <3>4. Items(thread_list)' = Items(thread_list')
      BY DEF Items
    <3>5. /\ status' \in [Entry -> Status] /\ wanted' \in [Entry -> BOOLEAN]
          /\ cancelled' \in [Thread -> BOOLEAN] /\ released' \in SUBSET Thread
      BY <3>1, <3>2 DEF TypeOK, StopThread, Status
    <3>6. UNCHANGED <<name, download_queue, entryOf, phase>> /\ UNCHANGED localVars
      BY <2>5 DEF PauseThread
    <3>7. pc' \in Control /\ pc' \notin {"starting", "pause", "cancel", "restart"}
      BY <2>2 DEF Control
    <3>8. \A t \in Items(thread_list') \ {NoThread} : phase'[t] # "none"
      BY <3>3, <3>6 DEF TypeOK
    <3> QED BY <2>2, <3>3, <3>4, <3>5, <3>6, <3>7, <3>8 DEF TypeOK, localVars
  <2> QED BY <1>9, <2>3, <2>4, <2>5 DEF PauseStep
<1>10. ASSUME CancelStep PROVE TypeOK'
  <2>1. Reply("CANCEL", "SUCCESS", TRUE) \in Response /\ "idle" \in Control
    BY DEF Reply, Response, AllCommands, Control
  <2>2. Dequeue
    BY <1>10 DEF CancelStep, CancelIdle, CancelWithoutThread, CancelThread
  <2>3. response' \in Response /\ pc' \in {"idle", "blocked"}
    BY <2>1, <2>2, AnswerType DEF Dequeue
  <2>4. download_queue' \in ListOf(Entry)
    BY <2>2, RemoveItems DEF Dequeue, TypeOK
  <2>5. CASE CancelIdle
    BY <2>2, <2>3, <2>4, <2>5 DEF TypeOK, CancelIdle, Dequeue, StatusWhenIdle, Control, Status
  <2>6. CASE CancelWithoutThread
    BY <2>2, <2>3, <2>4, <2>6 DEF TypeOK, CancelWithoutThread, Dequeue, Control
  <2>7. CASE CancelThread
    <3>1. PICK i \in DOMAIN thread_list.items :
            FirstThread(i, name[arg]) /\ StopThread(thread_list.items[i])
      BY <2>7 DEF CancelThread
    <3>2. thread_list.items[i] \in Thread /\ entryOf[thread_list.items[i]] \in Entry
      BY <3>1, FirstThreadType
    <3>3. /\ thread_list' \in ListOf(Thread \union {NoThread})
          /\ Items(thread_list') \subseteq Items(thread_list)
      BY <2>7, RemoveItems DEF CancelThread, RemoveByHandle, TypeOK
    <3>4. Items(thread_list)' = Items(thread_list')
      BY DEF Items
    <3>5. /\ status' \in [Entry -> Status] /\ wanted' \in [Entry -> BOOLEAN]
          /\ cancelled' \in [Thread -> BOOLEAN] /\ released' \in SUBSET Thread
      BY <3>1, <3>2 DEF TypeOK, StopThread, Status
    <3>6. UNCHANGED <<name, entryOf, phase>> /\ UNCHANGED localVars
      BY <2>7 DEF CancelThread, Dequeue
    <3>7. pc' \in Control /\ pc' \notin {"starting", "pause", "cancel", "restart"}
      BY <2>3 DEF Control
    <3>8. \A t \in Items(thread_list') \ {NoThread} : phase'[t] # "none"
      BY <3>3, <3>6 DEF TypeOK
    <3> QED BY <2>3, <2>4, <3>3, <3>4, <3>5, <3>6, <3>7, <3>8 DEF TypeOK, localVars
  <2> QED BY <1>10, <2>5, <2>6, <2>7 DEF CancelStep
<1>11. ASSUME RestartApply PROVE TypeOK'
  <2>1. Reply("RESTART", "SUCCESS", TRUE) \in Response /\ "update" \in Control
    BY DEF Reply, Response, AllCommands, Control
  <2>2. response' \in Response /\ pc' \in {"update", "blocked"}
    BY <1>11, <2>1, AnswerType DEF RestartApply
  <2> QED BY <1>11, <2>2 DEF TypeOK, RestartApply, Control, Status
<1>12. ASSUME UpdateSkip PROVE TypeOK'
  BY <1>12 DEF TypeOK, UpdateSkip, Updating
<1>13. ASSUME UpdateDone PROVE TypeOK'
  BY <1>13 DEF TypeOK, UpdateDone, Control
<1>14. ASSUME MarkStarting PROVE TypeOK'
  <2>1. Current \in Entry
    BY <1>14, ItemsType DEF TypeOK, MarkStarting, Current
  <2> QED BY <1>14, <2>1 DEF TypeOK, MarkStarting, Control, Status
<1>15. ASSUME DownloadStartFails PROVE TypeOK'
  <2>1. /\ pc' \in {"starting", "crashed", "hung"}
        /\ thread_list' \in ListOf(Thread \union {NoThread})
        /\ Items(thread_list') \subseteq Items(thread_list) \union {NoThread}
    BY <1>15, RegisterType DEF DownloadStartFails
  <2>2. Items(thread_list)' = Items(thread_list')
    BY DEF Items
  <2> QED BY <1>15, <2>1, <2>2 DEF TypeOK, DownloadStartFails, Updating, Control
<1>16. ASSUME NEW t \in Thread, DownloadStart(t) PROVE TypeOK'
  <2>1. /\ pc' \in {"starting", "crashed", "hung"}
        /\ thread_list' \in ListOf(Thread \union {NoThread})
        /\ Items(thread_list') \subseteq Items(thread_list) \union {t}
    BY <1>16, RegisterType DEF DownloadStart
  <2>2. Current \in Entry
    BY <1>16, ItemsType DEF TypeOK, DownloadStart, Updating, Current
  <2>3. Items(thread_list)' = Items(thread_list')
    BY DEF Items
  <2> QED BY <1>16, <2>1, <2>2, <2>3
          DEF TypeOK, DownloadStart, NewThread, Updating, Control, Phase
<1>17. ASSUME QueueFault \/ ThreadListFault PROVE TypeOK'
  BY <1>17 DEF TypeOK, QueueFault, ThreadListFault, Control
<1>18. ASSUME NEW t \in Thread, ThreadStep(t) PROVE TypeOK'
  <2>1. entryOf[t] \in Entry
    BY <1>18 DEF TypeOK, ThreadStep, ThreadStarted, OpenFails, ThreadCompletes, ThreadCancelled, Runs, Live
  <2>2. ASSUME NEW p \in {"performing", "ended"}, Moves(t, p), status' \in [Entry -> Status]
        PROVE  TypeOK'
    <3>1. phase' \in [Thread -> Phase] /\ \A u \in Thread : phase[u] # "none" => phase'[u] # "none"
      BY <2>2 DEF TypeOK, Moves, Phase
    <3>2. \A u \in Thread : phase'[u] # "none" => entryOf[u] \in Entry
      BY <2>1, <2>2 DEF TypeOK, Moves
    <3>3. \A u \in Items(thread_list) \ {NoThread} : phase'[u] # "none"
      BY <3>1, ItemsType DEF TypeOK
    <3> QED BY <2>2, <3>1, <3>2, <3>3 DEF TypeOK, Moves
  <2>3. CASE ThreadStarted(t)
    BY <2>1, <2>2, <2>3 DEF ThreadStarted, TypeOK, Status
  <2>4. CASE ThreadCompletes(t)
    BY <2>1, <2>2, <2>4 DEF ThreadCompletes, TypeOK, Status
  <2>5. CASE OpenFails(t)
    BY <2>2, <2>5 DEF OpenFails, TypeOK
  <2>6. CASE ThreadCancelled(t)
    BY <2>2, <2>6 DEF ThreadCancelled, TypeOK
  <2> QED BY <1>18, <2>3, <2>4, <2>5, <2>6 DEF ThreadStep
<1> QED
  BY <1>1, <1>2, <1>3, <1>4, <1>5, <1>6, <1>7, <1>8, <1>9, <1>10, <1>11, <1>12, <1>13, <1>14,
     <1>15, <1>16, <1>17, <1>18
  DEF Next, Request, QueueAdd, PauseFound, CancelFound, RestartFound, HandlerStep, UpdateStep

\* Every variable keeps its type.
THEOREM TypeCorrect == Spec => []TypeOK
<1>1. Init => TypeOK
  BY DEF Init, TypeOK, EmptyList, ListOf, Items, Status, Phase, Control, Garbage, Reply, Response, AllCommands
<1> QED BY <1>1, TypeStep, PTL DEF Spec

-----------------------------------------------------------------------------
(* The inductive invariant.                                                *)

\* A removal, of whatever node, leaves names unique and queues nothing new.
LEMMA RemovalKeepsNames ==
  ASSUME TypeOK, UniqueNames, NEW i \in DOMAIN download_queue.items,
         download_queue' = ListRemove(download_queue, i), name' = name
  PROVE  UniqueNames' /\ Items(download_queue)' \subseteq Items(download_queue)
<1> DEFINE s == download_queue.items
           m == ListRemove(download_queue, i)
<1>1. download_queue \in ListOf(Entry) /\ s \in Seq(Entry)
  BY DEF TypeOK, ListOf
<1>2. Items(m) \subseteq Items(download_queue)
  BY <1>1, RemoveItems
<1>3. Items(download_queue)' = Items(m)
  BY DEF Items
<1>4. UniqueNames'
  <2>1. CASE i = 1
    <3>1. download_queue'.items = <<s[1]>>
      BY <2>1 DEF ListRemove
    <3> QED BY <3>1 DEF UniqueNames
  <2>2. CASE i # 1
    <3>1. download_queue'.items = RemoveAt(s, i)
      BY <1>1, <2>2, RemoveItems
    <3>2. /\ Len(RemoveAt(s, i)) = Len(s) - 1
          /\ RemoveAt(s, i) \in Seq(Entry)
          /\ \A j \in 1..(Len(s) - 1) : RemoveAt(s, i)[j] = IF j < i THEN s[j] ELSE s[j + 1]
      BY <1>1, RemoveAtItems
    <3>3. DOMAIN RemoveAt(s, i) = 1..(Len(s) - 1) /\ DOMAIN s = 1..Len(s) /\ Len(s) \in Nat
      BY <1>1, <3>2
    <3>4. ASSUME NEW j \in 1..(Len(s) - 1), NEW k \in 1..(Len(s) - 1),
                 name[RemoveAt(s, i)[j]] = name[RemoveAt(s, i)[k]]
          PROVE  j = k
      <4> DEFINE old(x) == IF x < i THEN x ELSE x + 1
      <4>1. \A x \in 1..(Len(s) - 1) : old(x) \in DOMAIN s /\ RemoveAt(s, i)[x] = s[old(x)]
        BY <3>2, <3>3
      <4>2. old(j) = old(k)
        <5>1. name[s[old(j)]] = name[s[old(k)]]
          BY <4>1, <3>4
        <5> QED BY <5>1, <4>1 DEF UniqueNames
      <4> QED BY <4>2, <3>3
    <3> QED BY <3>1, <3>3, <3>4 DEF UniqueNames
  <2> QED BY <2>1, <2>2
<1> QED BY <1>2, <1>3, <1>4

\* Steps that touch neither entries nor threads, and leave no handler that works
\* on an entry behind.
LEMMA QuietStep ==
  ASSUME IInv, TypeOK', Findable',
         UNCHANGED <<name, status, wanted, download_queue, entryOf, phase, cancelled>>,
         pc \notin {"starting", "crashed", "hung"}, pc' \notin {"pause", "cancel", "restart"}
  PROVE  IInv'
<1>1. UniqueNames' /\ InUse'
  BY DEF IInv, UniqueNames, InUse, Items
<1>2. HandledIsQueued' /\ SeenStarted'
  BY DEF HandledIsQueued, SeenStarted
<1>3. SingleThread'
  BY DEF IInv, SingleThread, OnceStarted, Created, Items
<1>4. WaitingIsWanted'
  BY DEF IInv, WaitingIsWanted, Items
<1> QED BY <1>1, <1>2, <1>3, <1>4 DEF IInv

\* The read of a status by pause, cancel or restart.
LEMMA FoundStep ==
  ASSUME IInv, TypeOK', NEW c, NEW n \in Names, NEW p \in {"pause", "cancel", "restart"},
         Found(c, n, p)
  PROVE  IInv'
<1> USE DEF entryVars, threadVars, managerVars
<1>1. PICK i \in DOMAIN download_queue.items :
        /\ FirstNamed(i, n)
        /\ arg' = download_queue.items[i]
        /\ seen' = status[arg']
  BY DEF Found
<1>2. /\ UNCHANGED <<name, status, wanted, download_queue, entryOf, phase, cancelled, thread_list>>
      /\ pc = "idle" /\ pc' = p
  BY DEF Found, Receives
<1>3. UniqueNames' /\ InUse' /\ SingleThread' /\ Findable'
  BY <1>2 DEF IInv, UniqueNames, InUse, SingleThread, OnceStarted, Created, Findable, Live, Items
<1>4. arg' \in Items(download_queue)
  BY <1>1 DEF Items
<1>5. HandledIsQueued'
  BY <1>2, <1>4 DEF HandledIsQueued, Items
<1>6. SeenStarted'
  <2> SUFFICES ASSUME seen' = "STARTED", OnceStarted(arg)'
               PROVE  \E t \in Thread : Created(t, arg)' /\ phase'[t] # "opening"
    BY DEF SeenStarted
  <2>1. OnceStarted(arg') /\ status[arg'] = "STARTED"
    BY <1>1, <1>2 DEF OnceStarted, Created
  <2>2. PICK t \in Thread : Created(t, arg') /\ phase[t] = "performing"
    BY <1>4, <2>1 DEF IInv, SingleThread
  <2> QED BY <1>2, <2>2 DEF Created
<1>7. WaitingIsWanted'
  BY <1>1, <1>2 DEF IInv, WaitingIsWanted, Items
<1> QED BY <1>3, <1>5, <1>6, <1>7 DEF IInv

\* A new entry: nothing in the queue and no thread refers to it yet.
LEMMA AddStep ==
  ASSUME IInv, TypeOK', NEW n \in Names, NEW e \in Entry, AddAccepted(n, e)
  PROVE  IInv'
<1> USE DEF entryVars, threadVars, managerVars
<1> DEFINE s == download_queue.items
           m == download_queue'
<1>1. /\ name[e] = NoName /\ name' = [name EXCEPT ![e] = n]
      /\ status' = [status EXCEPT ![e] = "WAITING"]
      /\ wanted' = [wanted EXCEPT ![e] = TRUE]
      /\ m \in ListAppends(download_queue, e)
      /\ UNCHANGED <<entryOf, phase, cancelled, thread_list>>
      /\ pc = "idle" /\ pc' \in {"update", "blocked"}
      /\ ~InQueue(n)
  BY DEF AddAccepted, Answer, Receives, QueueEntryExists
<1>2. /\ download_queue \in ListOf(Entry) /\ s \in Seq(Entry)
      /\ name \in [Entry -> Names \union {NoName}] /\ NoName \notin Names
  BY ConstantsAssumption DEF IInv, TypeOK, ListOf
<1>3. /\ Items(m) \subseteq Items(download_queue) \union {e}
      /\ m = ListAppend(download_queue, e) \/ m.items = <<e>>
  BY <1>1, <1>2, AppendsItems
<1>4. Items(download_queue)' = Items(m)
  BY DEF Items
<1>5. e \notin Items(download_queue) /\ Items(download_queue) \subseteq Entry
  BY <1>1, <1>2, ItemsType DEF IInv, InUse
<1>6. \A t \in Thread : ~Created(t, e)
  BY <1>1, <1>2 DEF IInv, InUse, Created
<1>7. UniqueNames'
  <2>1. CASE m.items = <<e>>
    BY <2>1 DEF UniqueNames
  <2>2. CASE m = ListAppend(download_queue, e)
    <3>1. /\ DOMAIN m.items = 1..(Len(s) + 1) /\ DOMAIN s = 1..Len(s) /\ Len(s) \in Nat
          /\ \A i \in DOMAIN s : m.items[i] = s[i]
          /\ m.items[Len(s) + 1] = e
      <4>1. /\ DOMAIN ListAppend(download_queue, e).items = 1..(Len(s) + 1)
            /\ \A i \in DOMAIN s : ListAppend(download_queue, e).items[i] = s[i]
            /\ ListAppend(download_queue, e).items[Len(s) + 1] = e
        BY <1>2, AppendItems
      <4>2. DOMAIN s = 1..Len(s) /\ Len(s) \in Nat
        BY <1>2
      <4> QED BY <2>2, <4>1, <4>2
    <3>2. \A i \in DOMAIN s : s[i] \in Entry \ {e} /\ name[s[i]] # n
      <4>1. \A i \in DOMAIN s : s[i] \in Items(download_queue)
        BY DEF Items
      <4>2. \A d \in Items(download_queue) : name[d] # n
        BY <1>1 DEF InQueue
      <4> HIDE DEF s
      <4> QED BY <1>5, <4>1, <4>2
    <3>3. /\ \A i \in DOMAIN s : name'[m.items[i]] = name[s[i]]
          /\ name'[m.items[Len(s) + 1]] = n
      BY <1>1, <1>2, <3>1, <3>2
    <3>4. ASSUME NEW i \in 1..(Len(s) + 1), NEW j \in 1..(Len(s) + 1),
                 name'[m.items[i]] = name'[m.items[j]]
          PROVE  i = j
      <4>1. CASE i \in DOMAIN s /\ j \in DOMAIN s
        BY <3>3, <3>4, <4>1 DEF IInv, UniqueNames
      <4>2. CASE i \in DOMAIN s /\ j = Len(s) + 1
        BY <3>2, <3>3, <3>4, <4>2
      <4>3. CASE i = Len(s) + 1 /\ j \in DOMAIN s
        BY <3>2, <3>3, <3>4, <4>3
      <4> QED BY <3>1, <4>1, <4>2, <4>3
    <3> QED BY <3>1, <3>4 DEF UniqueNames
  <2> QED BY <1>3, <2>1, <2>2
<1> HIDE DEF m
<1>8. InUse'
  <2>1. \A f \in Items(m) : name'[f] \in Names
    BY <1>1, <1>2, <1>3, <1>5 DEF IInv, InUse
  <2>2. \A t \in Thread : phase[t] # "none" => name'[entryOf[t]] \in Names
    BY <1>1, <1>2, <1>6 DEF IInv, InUse, TypeOK, Created
  <2> QED BY <1>1, <1>4, <2>1, <2>2 DEF IInv, InUse
<1>9. HandledIsQueued' /\ SeenStarted'
  BY <1>1 DEF HandledIsQueued, SeenStarted
<1>10. SingleThread'
  <2> SUFFICES ASSUME NEW f \in Items(m), OnceStarted(f)
               PROVE  /\ \A t \in Thread : Created(t, f) /\ phase[t] = "opening" => ~cancelled[t]
                      /\ status'[f] = "STARTED" =>
                           \E t \in Thread : Created(t, f) /\ phase[t] = "performing" /\ ~cancelled[t]
    BY <1>1, <1>4 DEF SingleThread, OnceStarted, Created
  <2>1. CASE f = e
    BY <1>1, <1>2, <1>6, <2>1 DEF IInv, TypeOK
  <2>2. CASE f # e
    <3>1. f \in Items(download_queue) /\ status'[f] = status[f]
      BY <1>1, <1>3, <1>5, <2>2 DEF IInv, TypeOK
    <3> QED BY <3>1 DEF IInv, SingleThread
  <2> QED BY <2>1, <2>2
<1>11. WaitingIsWanted'
  <2>1. \A f \in Items(m) : status'[f] = "WAITING" => wanted'[f]
    BY <1>1, <1>3, <1>5 DEF IInv, TypeOK, WaitingIsWanted
  <2> QED BY <1>1, <1>4, <2>1 DEF WaitingIsWanted
<1>12. Findable'
  <2>1. \A t \in Thread : Live(t) => name'[entryOf[t]] = name[entryOf[t]]
    BY <1>1, <1>6 DEF IInv, TypeOK, Live, Created
  <2> QED BY <1>1, <2>1 DEF IInv, Findable, Live, Items
<1> QED BY <1>7, <1>8, <1>9, <1>10, <1>11, <1>12 DEF IInv

\* A pause or cancel that stops no thread: it writes the status of its entry, and
\* never with WAITING nor, unless it was there, STARTED.
LEMMA IdleStopStep ==
  ASSUME IInv, TypeOK', UniqueNames',
         Items(download_queue)' \subseteq Items(download_queue),
         pc \in {"pause", "cancel"}, pc' \in {"idle", "blocked"},
         NEW s, s # "WAITING", s = "STARTED" => status[arg] = "STARTED",
         status' = [status EXCEPT ![arg] = s], wanted' = [wanted EXCEPT ![arg] = FALSE],
         UNCHANGED <<name, entryOf, phase, cancelled, thread_list>>
  PROVE  IInv'
<1>1. InUse'
  BY DEF IInv, InUse
<1>2. HandledIsQueued' /\ SeenStarted'
  BY DEF HandledIsQueued, SeenStarted
<1>3. arg \in Entry /\ Items(download_queue) \subseteq Entry
  BY ItemsType DEF IInv, TypeOK
<1>4. SingleThread'
  <2> SUFFICES ASSUME NEW f \in Items(download_queue), OnceStarted(f)
               PROVE  /\ \A t \in Thread : Created(t, f) /\ phase[t] = "opening" => ~cancelled[t]
                      /\ status'[f] = "STARTED" =>
                           \E t \in Thread : Created(t, f) /\ phase[t] = "performing" /\ ~cancelled[t]
    BY DEF SingleThread, OnceStarted, Created
  <2>1. status'[f] = "STARTED" => status[f] = "STARTED"
    BY <1>3 DEF IInv, TypeOK
  <2> QED BY <2>1 DEF IInv, SingleThread
<1>5. WaitingIsWanted'
  <2>1. \A f \in Items(download_queue) : status'[f] = "WAITING" => wanted'[f]
    BY <1>3 DEF IInv, TypeOK, WaitingIsWanted
  <2> QED BY <2>1 DEF WaitingIsWanted
<1>6. Findable'
  BY DEF IInv, Findable, Live, Items
<1> QED BY <1>1, <1>2, <1>4, <1>5, <1>6 DEF IInv

\* A pause or cancel that stops a thread.  If that thread is the only one of a
\* queued entry, the entry is the one the handler found, because names are
\* unique, and the thread has set STARTED already.
LEMMA ThreadStopStep ==
  ASSUME IInv, TypeOK', UniqueNames', Findable',
         Items(download_queue)' \subseteq Items(download_queue),
         pc \in {"pause", "cancel"}, seen = "STARTED", pc' \in {"idle", "blocked"},
         NEW i \in DOMAIN thread_list.items, FirstThread(i, name[arg]),
         StopThread(thread_list.items[i]),
         UNCHANGED <<name, entryOf, phase>>
  PROVE  IInv'
<1> DEFINE u == thread_list.items[i]
<1>1. u \in Thread /\ phase[u] # "none" /\ entryOf[u] \in Entry /\ name[entryOf[u]] = name[arg]
  BY FirstThreadType DEF IInv
<1>2. /\ status' = [status EXCEPT ![entryOf[u]] = "PAUSED"]
      /\ wanted' = [wanted EXCEPT ![arg] = FALSE]
      /\ cancelled' = [cancelled EXCEPT ![u] = TRUE]
  BY DEF StopThread
<1>3. arg \in Items(download_queue) /\ arg \in Entry /\ Items(download_queue) \subseteq Entry
  BY ItemsType DEF IInv, TypeOK, HandledIsQueued
<1>4. entryOf[u] \in Items(download_queue) => entryOf[u] = arg
  BY <1>1, <1>3 DEF IInv, UniqueNames, Items
<1> HIDE DEF u
<1>5. InUse'
  BY <1>1, <1>2 DEF IInv, InUse, TypeOK
<1>6. HandledIsQueued' /\ SeenStarted'
  BY DEF HandledIsQueued, SeenStarted
<1>7. SingleThread'
  <2> SUFFICES ASSUME NEW f \in Items(download_queue), OnceStarted(f)
               PROVE  /\ \A t \in Thread : Created(t, f) /\ phase[t] = "opening" => ~cancelled'[t]
                      /\ status'[f] = "STARTED" =>
                           \E t \in Thread : Created(t, f) /\ phase[t] = "performing" /\ ~cancelled'[t]
    BY DEF SingleThread, OnceStarted, Created
  <2>1. CASE f = entryOf[u]
    <3>1. f = arg /\ Created(u, f)
      BY <1>1, <1>4, <2>1 DEF Created
    <3>2. \A t \in Thread : Created(t, f) => t = u
      BY <3>1, <1>1 DEF OnceStarted
    <3>3. phase[u] # "opening"
      BY <3>1, <3>2 DEF IInv, SeenStarted
    <3>4. status'[f] = "PAUSED"
      BY <1>2, <1>3, <2>1 DEF IInv, TypeOK
    <3> QED BY <3>2, <3>3, <3>4
  <2>2. CASE f # entryOf[u]
    <3>1. status'[f] = status[f] /\ \A t \in Thread : Created(t, f) => t # u
      BY <1>1, <1>2, <1>3, <2>2 DEF IInv, TypeOK, Created
    <3>2. \A t \in Thread : Created(t, f) => cancelled'[t] = cancelled[t]
      BY <1>1, <1>2, <3>1 DEF IInv, TypeOK
    <3> QED BY <3>1, <3>2 DEF IInv, SingleThread
  <2> QED BY <2>1, <2>2
<1>8. WaitingIsWanted'
  <2>1. status[arg] # "WAITING"
    BY DEF IInv, WaitingIsWanted
  <2>2. ASSUME NEW f \in Items(download_queue), status'[f] = "WAITING" PROVE wanted'[f]
    <3>1. status[f] = "WAITING" /\ f # arg
      BY <1>1, <1>2, <1>3, <2>1, <2>2 DEF IInv, TypeOK
    <3>2. wanted[f]
      BY <3>1 DEF IInv, WaitingIsWanted
    <3> QED BY <1>2, <1>3, <3>1, <3>2 DEF IInv, TypeOK
  <2> QED BY <2>2 DEF WaitingIsWanted
<1> QED BY <1>5, <1>6, <1>7, <1>8 DEF IInv

LEMMA PauseKeepsIInv == ASSUME IInv, TypeOK', PauseStep PROVE IInv'
<1> USE DEF threadVars, managerVars, localVars
<1>1. UniqueNames' /\ Items(download_queue)' \subseteq Items(download_queue)
  BY DEF IInv, UniqueNames, Items, PauseStep, PauseIdle, PauseWithoutThread, PauseThread
<1>2. pc = "pause" /\ pc' \in {"idle", "blocked"}
  BY DEF PauseStep, PauseIdle, PauseWithoutThread, PauseThread, Answer
<1>3. CASE PauseIdle
  <2> DEFINE s == StatusWhenIdle(seen, {"CANCELLED", "COMPLETED"})
  <2>1. s # "WAITING" /\ (s = "STARTED" => status[arg] = "STARTED")
    BY <1>2, <1>3 DEF StatusWhenIdle, IInv, WaitingIsWanted
  <2> QED BY <1>1, <1>2, <1>3, <2>1, IdleStopStep DEF PauseIdle
<1>4. CASE PauseWithoutThread
  <2>1. status[arg] # "WAITING" /\ status' = [status EXCEPT ![arg] = status[arg]]
    BY <1>2, <1>4 DEF IInv, WaitingIsWanted, PauseWithoutThread, TypeOK
  <2> QED BY <1>1, <1>2, <1>4, <2>1, IdleStopStep DEF PauseWithoutThread
<1>5. CASE PauseThread
  <2>1. PICK i \in DOMAIN thread_list.items :
          /\ FirstThread(i, name[arg])
          /\ StopThread(thread_list.items[i])
          /\ thread_list' = ListRemove(thread_list, i)
    BY <1>5 DEF PauseThread
  <2>2. UNCHANGED <<name, entryOf, phase>> /\ seen = "STARTED"
    BY <1>5 DEF PauseThread
  <2>3. Findable'
    <3> DEFINE u == thread_list.items[i]
    <3>1. CASE i = 1
      BY <2>1, <3>1, RemoveItems DEF IInv, TypeOK, Findable
    <3>2. CASE i # 1
      <4>1. /\ Items(thread_list) \ {u} \subseteq Items(thread_list')
            /\ thread_list'.damaged = thread_list.damaged
        BY <2>1, <3>2, RemoveItems DEF IInv, TypeOK
      <4>2. cancelled' = [cancelled EXCEPT ![u] = TRUE] /\ u \in Thread
        BY <2>1, FirstThreadType DEF IInv, StopThread
      <4>3. Items(thread_list)' = Items(thread_list')
        BY DEF Items
      <4> HIDE DEF u
      <4> QED BY <2>2, <4>1, <4>2, <4>3 DEF IInv, TypeOK, Findable, Live
    <3> QED BY <3>1, <3>2
  <2> QED BY <1>1, <1>2, <2>1, <2>2, <2>3, ThreadStopStep
<1> QED BY <1>3, <1>4, <1>5 DEF PauseStep

LEMMA CancelKeepsIInv == ASSUME IInv, TypeOK', CancelStep PROVE IInv'
<1> USE DEF threadVars, managerVars, localVars
<1>1. Dequeue
  BY DEF CancelStep, CancelIdle, CancelWithoutThread, CancelThread
<1>2. pc = "cancel" /\ pc' \in {"idle", "blocked"} /\ name' = name
  BY <1>1 DEF CancelStep, CancelIdle, CancelWithoutThread, CancelThread, Dequeue, Answer
<1>3. UniqueNames' /\ Items(download_queue)' \subseteq Items(download_queue)
  BY <1>1, <1>2, RemovalKeepsNames DEF IInv, Dequeue
<1>4. CASE CancelIdle
  <2> DEFINE s == StatusWhenIdle(seen, {"CANCELLED"})
  <2>1. s # "WAITING" /\ (s = "STARTED" => status[arg] = "STARTED")
    BY <1>2, <1>4 DEF StatusWhenIdle, IInv, WaitingIsWanted
  <2> QED BY <1>2, <1>3, <1>4, <2>1, IdleStopStep DEF CancelIdle
<1>5. CASE CancelWithoutThread
  <2>1. status[arg] # "WAITING" /\ status' = [status EXCEPT ![arg] = status[arg]]
    BY <1>2, <1>5 DEF IInv, WaitingIsWanted, CancelWithoutThread, TypeOK
  <2> QED BY <1>2, <1>3, <1>5, <2>1, IdleStopStep DEF CancelWithoutThread
<1>6. CASE CancelThread
  <2>1. PICK i \in DOMAIN thread_list.items :
          FirstThread(i, name[arg]) /\ StopThread(thread_list.items[i])
    BY <1>6 DEF CancelThread
  <2>2. UNCHANGED <<name, entryOf, phase>> /\ seen = "STARTED"
    BY <1>2, <1>6 DEF CancelThread
  <2>3. \A t \in Thread : cancelled[t] => cancelled'[t]
    BY <2>1, FirstThreadType DEF IInv, StopThread, TypeOK
  <2>4. CASE UNCHANGED thread_list
    <3>1. Findable'
      BY <2>2, <2>3, <2>4 DEF IInv, Findable, Live, Items
    <3> QED BY <1>2, <1>3, <2>1, <2>2, <3>1, ThreadStopStep
  <2>5. ASSUME NEW k \in DOMAIN thread_list.items, FirstThread(k, EmptyName),
               thread_list' = ListRemove(thread_list, k)
        PROVE  IInv'
    <3> DEFINE u == thread_list.items[k]
    <3>1. u \in Thread /\ name[entryOf[u]] = EmptyName
      BY <2>5, FirstThreadType DEF IInv
    <3>2. Items(thread_list)' = Items(thread_list')
      BY DEF Items
    <3>3. \/ thread_list'.damaged
          \/ /\ Items(thread_list) \ {u} \subseteq Items(thread_list')
             /\ thread_list'.damaged = thread_list.damaged
      BY <2>5, RemoveItems DEF IInv, TypeOK
    <3> HIDE DEF u
    <3>4. Findable'
      BY <2>2, <2>3, <3>1, <3>2, <3>3 DEF IInv, Findable, Live
    <3> QED BY <1>2, <1>3, <2>1, <2>2, <3>4, ThreadStopStep
  <2> QED BY <1>6, <2>4, <2>5 DEF CancelThread, RemoveByHandle
<1> QED BY <1>4, <1>5, <1>6 DEF CancelStep

LEMMA RestartKeepsIInv == ASSUME IInv, TypeOK', RestartApply PROVE IInv'
<1> USE DEF threadVars, managerVars
<1>1. /\ pc = "restart" /\ pc' \in {"update", "blocked"}
      /\ UNCHANGED <<name, download_queue, entryOf, phase, cancelled, thread_list>>
  BY DEF RestartApply, Answer
<1>2. arg \in Entry /\ Items(download_queue) \subseteq Entry
  BY <1>1, ItemsType DEF IInv, TypeOK
<1>3. CASE UNCHANGED <<status, wanted>>
  <2>1. Findable'
    BY <1>1 DEF IInv, Findable, Live, Items
  <2> QED BY <1>1, <1>3, <2>1, QuietStep
<1>4. CASE status' = [status EXCEPT ![arg] = "WAITING"] /\ wanted' = [wanted EXCEPT ![arg] = TRUE]
  <2>1. UniqueNames' /\ InUse' /\ Findable'
    BY <1>1 DEF IInv, UniqueNames, InUse, Findable, Live, Items
  <2>2. HandledIsQueued' /\ SeenStarted'
    BY <1>1 DEF HandledIsQueued, SeenStarted
  <2>3. \A f \in Items(download_queue) : status'[f] = "STARTED" => status[f] = "STARTED"
    BY <1>2, <1>4 DEF IInv, TypeOK
  <2>4. SingleThread'
    BY <1>1, <2>3 DEF IInv, SingleThread, OnceStarted, Created, Items
  <2>5. \A f \in Items(download_queue) : status'[f] = "WAITING" => wanted'[f]
    BY <1>1, <1>2, <1>4 DEF IInv, TypeOK, WaitingIsWanted
  <2>6. WaitingIsWanted'
    BY <1>1, <2>5 DEF WaitingIsWanted, Items
  <2> QED BY <2>1, <2>2, <2>4, <2>6 DEF IInv
<1> QED BY <1>3, <1>4 DEF RestartApply

\* A new thread is the only one of its entry only if there was none before.
LEMMA StartKeepsIInv ==
  ASSUME IInv, TypeOK', NEW t \in Thread, DownloadStart(t) PROVE IInv'
<1> USE DEF localVars
<1> DEFINE e == Current
<1>1. /\ phase[t] = "none" /\ status[e] = "WAITING" /\ pc = "update"
      /\ phase' = [phase EXCEPT ![t] = "opening"]
      /\ entryOf' = [entryOf EXCEPT ![t] = e]
      /\ wanted' = [wanted EXCEPT ![e] = FALSE]
      /\ Register(t)
      /\ UNCHANGED <<name, status, download_queue, cancelled, pos>>
  BY DEF DownloadStart, Updating, Startable, NewThread
<1>2. e \in Items(download_queue) /\ Items(download_queue) \subseteq Entry
  BY ItemsType DEF IInv, TypeOK, DownloadStart, Updating, Current
<1>3. /\ pc' \in {"starting", "crashed", "hung"}
      /\ ~thread_list.damaged => Items(thread_list') = Items(thread_list) \union {t}
      /\ thread_list'.damaged = thread_list.damaged
  BY <1>1, RegisterType DEF IInv
<1>4. e = Current'
  BY <1>1 DEF Current
<1>5. Items(download_queue)' = Items(download_queue) /\ Items(thread_list)' = Items(thread_list')
  BY <1>1 DEF Items
<1> HIDE DEF e
<1>6. UniqueNames'
  BY <1>1 DEF IInv, UniqueNames
<1>7. InUse'
  BY <1>1, <1>2, <1>5 DEF IInv, InUse, TypeOK
<1>8. HandledIsQueued' /\ SeenStarted'
  BY <1>3 DEF HandledIsQueued, SeenStarted
<1>9. ASSUME NEW f, NEW u \in Thread
      PROVE  Created(u, f)' <=> (Created(u, f) \/ (u = t /\ f = e))
  BY <1>1 DEF IInv, TypeOK, Created
<1>10. SingleThread'
  <2> SUFFICES ASSUME NEW f \in Items(download_queue), OnceStarted(f)'
               PROVE  /\ \A u \in Thread : Created(u, f)' /\ phase'[u] = "opening" => ~cancelled[u]
                      /\ status[f] = "STARTED" =>
                           \E u \in Thread : Created(u, f)' /\ phase'[u] = "performing" /\ ~cancelled[u]
    BY <1>1, <1>5 DEF SingleThread
  <2>1. OnceStarted(f)
    BY <1>9 DEF OnceStarted
  <2>2. CASE f = e
    <3>1. \A u \in Thread : Created(u, f)' => u = t
      BY <1>9, <2>2 DEF OnceStarted
    <3>2. ~cancelled[t]
      BY <1>1 DEF IInv, InUse
    <3> QED BY <1>1, <2>2, <3>1, <3>2
  <2>3. CASE f # e
    <3>1. \A u \in Thread : Created(u, f)' <=> Created(u, f)
      BY <1>9, <2>3
    <3>2. \A u \in Thread : Created(u, f) => u # t /\ phase'[u] = phase[u]
      BY <1>1 DEF IInv, TypeOK, Created
    <3> QED BY <2>1, <3>1, <3>2 DEF IInv, SingleThread
  <2> QED BY <2>2, <2>3
<1>11. WaitingIsWanted'
  <2> SUFFICES ASSUME pc' = "starting", NEW f \in Items(download_queue), status[f] = "WAITING", f # e
               PROVE  wanted'[f]
    BY <1>1, <1>3, <1>4, <1>5 DEF WaitingIsWanted
  <2> QED BY <1>1, <1>2 DEF IInv, TypeOK, WaitingIsWanted
<1>12. Findable'
  BY <1>1, <1>3, <1>5 DEF IInv, TypeOK, Findable, Live
<1> QED BY <1>6, <1>7, <1>8, <1>10, <1>11, <1>12 DEF IInv

LEMMA MarkKeepsIInv == ASSUME IInv, TypeOK', MarkStarting PROVE IInv'
<1> USE DEF threadVars, managerVars
<1>1. /\ pc = "starting" /\ pc' = "update"
      /\ status' = [status EXCEPT ![Current] = "STARTING"]
      /\ UNCHANGED <<name, wanted, download_queue, entryOf, phase, cancelled, thread_list>>
  BY DEF MarkStarting
<1>2. Current \in Entry /\ Items(download_queue) \subseteq Entry
  BY <1>1, ItemsType DEF IInv, TypeOK, Current
<1>3. UniqueNames' /\ InUse' /\ Findable'
  BY <1>1 DEF IInv, UniqueNames, InUse, Findable, Live, Items
<1>4. HandledIsQueued' /\ SeenStarted'
  BY <1>1 DEF HandledIsQueued, SeenStarted
<1>5. \A f \in Items(download_queue) : status'[f] = "STARTED" => status[f] = "STARTED"
  BY <1>1, <1>2 DEF IInv, TypeOK
<1>6. SingleThread'
  BY <1>1, <1>5 DEF IInv, SingleThread, OnceStarted, Created, Items
<1>7. \A f \in Items(download_queue) : status'[f] = "WAITING" => wanted[f]
  BY <1>1, <1>2 DEF IInv, TypeOK, WaitingIsWanted
<1>8. WaitingIsWanted'
  BY <1>1, <1>7 DEF WaitingIsWanted, Items
<1> QED BY <1>3, <1>4, <1>6, <1>8 DEF IInv

\* A step of a thread: STARTED comes from the entry's only thread, which is not
\* cancelled, and is overwritten when that thread ends.
LEMMA ThreadKeepsIInv ==
  ASSUME IInv, TypeOK', NEW t \in Thread, ThreadStep(t) PROVE IInv'
<1> USE DEF managerVars, localVars
<1> DEFINE e == entryOf[t]
<1>1. /\ UNCHANGED <<name, wanted, download_queue, entryOf, cancelled, thread_list, pc, pos, arg, seen>>
      /\ Live(t)
  BY DEF ThreadStep, ThreadStarted, OpenFails, ThreadCompletes, ThreadCancelled, Moves, Runs, Live
<1>2. PICK p \in {"performing", "ended"} : phase' = [phase EXCEPT ![t] = p]
  BY DEF ThreadStep, ThreadStarted, OpenFails, ThreadCompletes, ThreadCancelled, Moves
<1>3. e \in Entry /\ Created(t, e)
  BY <1>1 DEF IInv, TypeOK, Live, Created
<1>4. PICK s : status' = [status EXCEPT ![e] = s] /\ (s = "WAITING" => status[e] = "WAITING")
  <2>1. status = [status EXCEPT ![e] = status[e]]
    BY DEF IInv, TypeOK
  <2> QED BY <2>1 DEF ThreadStep, ThreadStarted, OpenFails, ThreadCompletes, ThreadCancelled
<1>5. /\ Items(download_queue)' = Items(download_queue) /\ Items(thread_list)' = Items(thread_list)
      /\ Items(download_queue) \subseteq Entry
  BY <1>1, ItemsType DEF IInv, TypeOK, Items
<1>6. \A u \in Thread : \A f : Created(u, f)' <=> Created(u, f)
  BY <1>1, <1>2 DEF IInv, TypeOK, Created, Live
<1>7. \A f \in Entry : OnceStarted(f)' <=> OnceStarted(f)
  BY <1>6 DEF OnceStarted
<1>8. UniqueNames' /\ InUse' /\ HandledIsQueued' /\ Findable'
  <2>1. \A u \in Thread : phase'[u] = "none" <=> phase[u] = "none"
    BY <1>1, <1>2 DEF IInv, TypeOK, Live
  <2>2. \A u \in Thread : Live(u)' => Live(u)
    BY <1>1, <1>2 DEF IInv, TypeOK, Live
  <2> QED BY <1>1, <1>5, <2>1, <2>2 DEF IInv, UniqueNames, InUse, HandledIsQueued, Findable
<1>9. SeenStarted'
  <2>1. \A u \in Thread : Created(u, arg)' <=> Created(u, arg)
    BY <1>1, <1>2 DEF IInv, TypeOK, Created, Live
  <2>2. OnceStarted(arg)' <=> OnceStarted(arg)
    BY <2>1 DEF OnceStarted
  <2>3. \A u \in Thread : phase[u] # "opening" => phase'[u] # "opening"
    BY <1>2 DEF IInv, TypeOK
  <2> QED BY <1>1, <2>1, <2>2, <2>3 DEF IInv, SeenStarted
<1>10. WaitingIsWanted'
  <2>1. \A f \in Entry : status'[f] = "WAITING" => status[f] = "WAITING"
    BY <1>3, <1>4 DEF IInv, TypeOK
  <2>2. Current' = Current
    BY <1>1 DEF Current
  <2>3. pc \in {"pause", "cancel"} => arg \in Entry
    BY DEF IInv, TypeOK
  <2> QED BY <1>1, <1>5, <2>1, <2>2, <2>3 DEF IInv, WaitingIsWanted
<1>11. SingleThread'
  <2> SUFFICES ASSUME NEW f \in Items(download_queue), OnceStarted(f)
               PROVE  /\ \A u \in Thread : Created(u, f) /\ phase'[u] = "opening" => ~cancelled[u]
                      /\ status'[f] = "STARTED" =>
                           \E u \in Thread : Created(u, f) /\ phase'[u] = "performing" /\ ~cancelled[u]
    BY <1>1, <1>5, <1>6, <1>7 DEF SingleThread
  <2>1. \A u \in Thread : phase'[u] = "opening" => phase[u] = "opening"
    BY <1>2 DEF IInv, TypeOK
  <2>2. CASE f # e
    <3>1. status'[f] = status[f]
      BY <1>3, <1>4, <1>5, <2>2 DEF IInv, TypeOK
    <3>2. \A u \in Thread : Created(u, f) => phase'[u] = phase[u]
      BY <1>2, <2>2 DEF IInv, TypeOK, Created
    <3> QED BY <2>1, <3>1, <3>2 DEF IInv, SingleThread
  <2>3. CASE f = e
    <3>1. \A u \in Thread : Created(u, f) => u = t
      BY <1>3, <2>3 DEF OnceStarted
    <3>2. status[f] = "STARTED" => phase[t] = "performing" /\ ~cancelled[t]
      BY <3>1 DEF IInv, SingleThread
    <3>3. CASE ThreadStarted(t)
      <4>1. phase[t] = "opening" /\ phase'[t] = "performing"
        BY <3>3 DEF ThreadStarted, Runs, Moves, IInv, TypeOK
      <4>2. ~cancelled[t]
        BY <1>3, <2>3, <4>1 DEF IInv, SingleThread
      <4> QED BY <1>3, <2>1, <2>3, <4>1, <4>2 DEF IInv, SingleThread
    <3>4. CASE ThreadCompletes(t)
      <4>1. status'[f] = "COMPLETED"
        BY <1>3, <2>3, <3>4 DEF ThreadCompletes, IInv, TypeOK
      <4> QED BY <2>1, <4>1 DEF IInv, SingleThread
    <3>5. CASE OpenFails(t)
      <4>1. status' = status /\ phase[t] = "opening"
        BY <3>5 DEF OpenFails, Runs
      <4> QED BY <2>1, <3>2, <4>1 DEF IInv, SingleThread
    <3>6. CASE ThreadCancelled(t)
      <4>1. status' = status /\ cancelled[t]
        BY <3>6 DEF ThreadCancelled
      <4> QED BY <2>1, <3>2, <4>1 DEF IInv, SingleThread
    <3> QED BY <3>3, <3>4, <3>5, <3>6 DEF ThreadStep
  <2> QED BY <2>2, <2>3
<1> QED BY <1>8, <1>9, <1>10, <1>11 DEF IInv

\* Every action keeps the invariant.
LEMMA InvariantStep == IInv /\ [Next]_vars => IInv'
<1> SUFFICES ASSUME IInv, [Next]_vars PROVE IInv'
  OBVIOUS
<1> USE DEF entryVars, threadVars, managerVars, localVars
<1>1. TypeOK'
  BY TypeStep DEF IInv
<1>2. CASE UNCHANGED vars
  BY <1>2 DEF vars, IInv, TypeOK, UniqueNames, InUse, HandledIsQueued, SeenStarted, SingleThread,
              OnceStarted, Created, WaitingIsWanted, Current, Findable, Live, Items
<1>3. ASSUME NEW c \in {"PAUSE", "CANCEL", "RESTART"}, NEW n \in Names,
             NEW p \in {"pause", "cancel", "restart"}, Found(c, n, p)
      PROVE  IInv'
  BY <1>1, <1>3, FoundStep
<1>4. ASSUME NEW n \in Names, NEW e \in Entry, AddAccepted(n, e) PROVE IInv'
  BY <1>1, <1>4, AddStep
<1>5. ASSUME \/ \E c \in {"PAUSE", "CANCEL", "RESTART"} : NotFound(c)
             \/ \E n \in Names : AddRefused(n) \/ AddOverruns(n)
             \/ AddBlocks \/ QueueStatus \/ Unknown
             \/ UpdateSkip \/ UpdateDone \/ QueueFault \/ ThreadListFault
      PROVE  IInv'
  <2>1. /\ UNCHANGED <<name, status, wanted, download_queue, entryOf, phase, cancelled, thread_list>>
        /\ pc \notin {"starting", "crashed", "hung"}
        /\ pc' \notin {"pause", "cancel", "restart"}
    BY <1>5 DEF NotFound, AddRefused, AddOverruns, AddBlocks, QueueStatus, Unknown, UpdateSkip, UpdateDone,
                QueueFault, ThreadListFault, Receives, Answer, Updating
  <2>2. Findable'
    BY <2>1 DEF IInv, Findable, Live, Items
  <2> QED BY <1>1, <2>1, <2>2, QuietStep
<1>6. ASSUME DownloadStartFails PROVE IInv'
  <2>1. /\ ~thread_list.damaged => Items(thread_list) \subseteq Items(thread_list')
        /\ thread_list'.damaged = thread_list.damaged
        /\ pc' \in {"starting", "crashed", "hung"}
    BY <1>6, RegisterType DEF IInv, DownloadStartFails
  <2>2. /\ UNCHANGED <<name, status, wanted, download_queue, entryOf, phase, cancelled>>
        /\ pc = "update"
    BY <1>6 DEF DownloadStartFails, Updating
  <2>3. Items(thread_list)' = Items(thread_list')
    BY DEF Items
  <2>4. Findable'
    BY <2>1, <2>2, <2>3 DEF IInv, Findable, Live
  <2> QED BY <1>1, <2>1, <2>2, <2>4, QuietStep
<1>7. ASSUME NEW t \in Thread, DownloadStart(t) PROVE IInv'
  BY <1>1, <1>7, StartKeepsIInv
<1>8. ASSUME NEW t \in Thread, ThreadStep(t) PROVE IInv'
  BY <1>1, <1>8, ThreadKeepsIInv
<1> QED
  BY <1>1, <1>2, <1>3, <1>4, <1>5, <1>6, <1>7, <1>8,
     PauseKeepsIInv, CancelKeepsIInv, RestartKeepsIInv, MarkKeepsIInv
  DEF Next, Request, QueueAdd, PauseFound, CancelFound, RestartFound, HandlerStep, UpdateStep

\* The inductive invariant holds of every reachable state.
THEOREM Invariance == Spec => []IInv
<1>1. Init => IInv
  <2> SUFFICES ASSUME Init PROVE IInv
    OBVIOUS
  <2>1. TypeOK
    BY DEF Init, TypeOK, EmptyList, ListOf, Items, Status, Phase, Control, Garbage, Reply, Response, AllCommands
  <2> QED BY <2>1 DEF Init, IInv, UniqueNames, InUse, HandledIsQueued, SeenStarted, SingleThread,
                      WaitingIsWanted, Findable, Live, EmptyList, Items
<1> QED BY <1>1, InvariantStep, PTL DEF Spec

\* No two queued entries ever have the same name.
THEOREM NamesAreUnique == Spec => []UniqueNames
<1>1. IInv => UniqueNames
  BY DEF IInv
<1> QED BY <1>1, Invariance, PTL

\* A queued entry started once says STARTED only while it is being transferred.
THEOREM StartedIsTrue == Spec => []StartedHasTransfer
<1>1. IInv => StartedHasTransfer
  BY DEF IInv, SingleThread, StartedHasTransfer
<1> QED BY <1>1, Invariance, PTL

\* A transfer nobody stopped is in the thread list until its root is freed.
THEOREM TransfersAreFindable == Spec => []Findable
<1>1. IInv => Findable
  BY DEF IInv
<1> QED BY <1>1, Invariance, PTL

\* A thread starts only for an entry a client asked for and did not stop since.
THEOREM NoUnaskedStart == Spec => StartsAreAsked
<1> DEFINE Asked == \A t \in Thread : phase[t] = "none" /\ phase'[t] # "none" => wanted[entryOf'[t]]
<1>1. IInv /\ [Next]_vars => [Asked]_vars
  <2> SUFFICES ASSUME IInv, Next, NEW t \in Thread, phase[t] = "none", phase'[t] # "none"
               PROVE  wanted[entryOf'[t]]
    OBVIOUS
  <2>1. \E u \in Thread : DownloadStart(u) \/ ThreadStep(u)
    BY DEF Next, Request, QueueAdd, QueueStatus, Unknown, NotFound, Found, PauseFound, CancelFound,
           RestartFound, AddRefused, AddAccepted, AddOverruns, AddBlocks, HandlerStep, PauseStep, PauseIdle,
           PauseWithoutThread, PauseThread, CancelStep, CancelIdle, CancelWithoutThread,
           CancelThread, RestartApply, UpdateStep, UpdateSkip, UpdateDone, MarkStarting,
           DownloadStartFails, QueueFault, ThreadListFault, threadVars
  <2>2. ASSUME NEW u \in Thread, ThreadStep(u) PROVE FALSE
    BY <2>2 DEF ThreadStep, ThreadStarted, OpenFails, ThreadCompletes, ThreadCancelled, Moves, Runs,
                Live, IInv, TypeOK
  <2>3. PICK u \in Thread : DownloadStart(u)
    BY <2>1, <2>2
  <2>4. u = t /\ entryOf'[t] = Current
    BY <2>3 DEF DownloadStart, NewThread, IInv, TypeOK
  <2>5. Current \in Items(download_queue) /\ status[Current] = "WAITING" /\ pc = "update"
    BY <2>3 DEF DownloadStart, Updating, Startable, Current, Items
  <2> QED BY <2>4, <2>5 DEF IInv, WaitingIsWanted
<1> QED BY <1>1, Invariance, PTL DEF Spec, StartsAreAsked

-----------------------------------------------------------------------------
(* Stopping a transfer and taking it out of the queue.                     *)

\* A walk over the thread list that comes to a match comes to a first one.
LEMMA FirstThreadExists ==
  ASSUME TypeOK, NEW n, NEW k \in DOMAIN thread_list.items, ThreadMatches(k, n)
  PROVE  \E i \in DOMAIN thread_list.items : FirstThread(i, n)
<1> DEFINE P == {i \in DOMAIN thread_list.items : ThreadMatches(i, n)}
<1>1. thread_list.items \in Seq(Thread \union {NoThread})
  BY DEF TypeOK, ListOf
<1>2. Len(thread_list.items) \in Nat /\ DOMAIN thread_list.items = 1..Len(thread_list.items)
  BY <1>1
<1>3. P \in SUBSET Nat /\ k \in P
  BY <1>2
<1>4. PICK i \in P : \A j \in P : ~(j < i)
  <2> HIDE DEF P
  <2> QED BY <1>3, FirstPosition
<1>5. ASSUME NEW j \in 1..(i - 1) PROVE ~ThreadMatches(j, n)
  <2>1. j \in DOMAIN thread_list.items /\ j < i
    BY <1>2
  <2> QED BY <2>1, <1>4
<1> QED BY <1>4, <1>5 DEF FirstThread, Visited

\* Only their handlers answer what pause and cancel began.
LEMMA WhoAnswers ==
  ASSUME Next, pc \in {"pause", "cancel"}, pc' = "idle"
  PROVE  (pc = "pause" /\ PauseStep) \/ (pc = "cancel" /\ CancelStep)
<1> USE DEF localVars
<1>1. ~Request
  BY DEF Request, QueueAdd, QueueStatus, Unknown, NotFound, Found, PauseFound, CancelFound,
         RestartFound, AddRefused, AddAccepted, AddOverruns, AddBlocks, Receives
<1>2. ASSUME NEW t \in Thread, ThreadStep(t) PROVE FALSE
  BY <1>2 DEF ThreadStep, ThreadStarted, OpenFails, ThreadCompletes, ThreadCancelled, Moves
<1>3. ~RestartApply /\ ~UpdateStep /\ ~QueueFault /\ ~ThreadListFault
  BY DEF RestartApply, UpdateStep, UpdateSkip, UpdateDone, MarkStarting, DownloadStart,
         DownloadStartFails, Updating, QueueFault, ThreadListFault
<1>4. (PauseStep => pc = "pause") /\ (CancelStep => pc = "cancel")
  BY DEF PauseStep, PauseIdle, PauseWithoutThread, PauseThread, CancelStep, CancelIdle,
         CancelWithoutThread, CancelThread
<1> QED BY <1>1, <1>2, <1>3, <1>4 DEF Next, HandlerStep

\* The lookup by name comes to the only thread of the entry, unless that one ended
\* or was cancelled before.
LEMMA StopEffect ==
  ASSUME TypeOK, Findable, PauseStep \/ CancelStep, seen = "STARTED",
         ~thread_list.damaged, OnceStarted(arg), SoleHolder(arg)
  PROVE  Stopped(arg)
<1> USE DEF threadVars, managerVars
<1> SUFFICES ASSUME NEW t \in Thread, Created(t, arg), phase'[t] # "ended"
             PROVE  cancelled'[t]
  BY DEF Stopped
<1>1. PauseWithoutThread \/ PauseThread \/ CancelWithoutThread \/ CancelThread
  BY DEF PauseStep, PauseIdle, CancelStep, CancelIdle
<1>2. Live(t)
  <2>1. phase' = phase
    BY <1>1 DEF PauseWithoutThread, PauseThread, CancelWithoutThread, CancelThread
  <2> QED BY <2>1 DEF TypeOK, Phase, Live, Created
<1>3. ASSUME ~cancelled[t] PROVE \E i \in DOMAIN thread_list.items : FirstThread(i, name[arg])
  <2>1. t \in Items(thread_list)
    BY <1>2, <1>3 DEF Findable, SoleHolder, Created
  <2>2. PICK k \in DOMAIN thread_list.items : thread_list.items[k] = t
    BY <2>1 DEF Items
  <2>3. ThreadMatches(k, name[arg])
    BY <2>2, ConstantsAssumption DEF ThreadMatches, Created
  <2> QED BY <2>3, FirstThreadExists
<1>4. CASE PauseWithoutThread \/ CancelWithoutThread
  BY <1>3, <1>4 DEF PauseWithoutThread, CancelWithoutThread
<1>5. CASE PauseThread \/ CancelThread
  <2>1. PICK i \in DOMAIN thread_list.items :
          FirstThread(i, name[arg]) /\ StopThread(thread_list.items[i])
    BY <1>5 DEF PauseThread, CancelThread
  <2> DEFINE u == thread_list.items[i]
  <2>2. u \in Thread /\ Created(u, arg)
    BY <2>1, FirstThreadType DEF SoleHolder, Created
  <2>3. u = t
    BY <2>2 DEF OnceStarted
  <2> QED BY <2>1, <2>3 DEF StopThread, TypeOK
<1> QED BY <1>1, <1>4, <1>5

\* The second search for the entry comes to the node of the first one, and no other
\* node has the same entry.
LEMMA CancelEffect ==
  ASSUME TypeOK, CancelStep, ~download_queue'.damaged,
         \A j, k \in DOMAIN download_queue.items :
           download_queue.items[j] = download_queue.items[k] => j = k,
         NEW k \in DOMAIN download_queue.items,
         FirstNamed(k, name[arg]), download_queue.items[k] = arg
  PROVE  Items(download_queue') = Items(download_queue) \ {arg}
<1>1. PICK i \in DOMAIN download_queue.items :
        FirstNamed(i, name[arg]) /\ download_queue' = ListRemove(download_queue, i)
  BY DEF CancelStep, CancelIdle, CancelWithoutThread, CancelThread, Dequeue
<1>2. download_queue \in ListOf(Entry) /\ DOMAIN download_queue.items = 1..Len(download_queue.items)
  BY DEF TypeOK, ListOf
<1>3. i = k
  <2>1. Len(download_queue.items) \in Nat /\ i \in Nat /\ k \in Nat
    BY <1>2 DEF ListOf
  <2>2. ~(i < k) /\ ~(k < i)
    BY <1>1, <1>2, <2>1 DEF FirstNamed
  <2> QED BY <2>1, <2>2
<1>4. i # 1
  BY <1>1, <1>2, RemoveItems
<1> QED BY <1>1, <1>2, <1>3, <1>4, RemoveDistinct

\* An answered request to pause or cancel that read STARTED leaves no thread of its
\* entry running on, for any number of entries, threads and names.
THEOREM StopsReach == Spec => StopReaches
<1> DEFINE Asked == /\ pc \in {"pause", "cancel"} /\ seen = "STARTED" /\ pc' = "idle"
                    /\ ~thread_list.damaged
                    /\ OnceStarted(arg) /\ SoleHolder(arg)
<1>1. IInv /\ [Next]_vars => [Asked => Stopped(arg)]_vars
  BY WhoAnswers, StopEffect DEF IInv
<1> QED BY <1>1, Invariance, PTL DEF Spec, StopReaches

\* An answered cancel takes the entry it stopped out of the queue, and no other.
THEOREM CancelTakesOut == Spec => CancelRemoves
<1> DEFINE Asked == pc = "cancel" /\ pc' = "idle" /\ ~download_queue'.damaged
<1>1. IInv /\ [Next]_vars
        => [Asked => Items(download_queue') = Items(download_queue) \ {arg}]_vars
  <2> SUFFICES ASSUME IInv, Next, Asked
               PROVE  Items(download_queue') = Items(download_queue) \ {arg}
    OBVIOUS
  <2>1. CancelStep
    BY WhoAnswers
  <2>2. PICK k \in DOMAIN download_queue.items : download_queue.items[k] = arg
    BY DEF IInv, HandledIsQueued, Items
  <2>3. FirstNamed(k, name[arg])
    <3>1. DOMAIN download_queue.items = 1..Len(download_queue.items) /\ Len(download_queue.items) \in Nat
      BY DEF IInv, TypeOK, ListOf
    <3>2. \A j \in 1..(k - 1) : j \in DOMAIN download_queue.items /\ j # k
      BY <3>1
    <3> QED BY <2>2, <3>2 DEF IInv, UniqueNames, FirstNamed
  <2>4. \A j, m \in DOMAIN download_queue.items :
          download_queue.items[j] = download_queue.items[m] => j = m
    BY DEF IInv, UniqueNames
  <2> QED BY <2>1, <2>2, <2>3, <2>4, CancelEffect DEF IInv
<1> QED BY <1>1, Invariance, PTL DEF Spec, CancelRemoves

=============================================================================
