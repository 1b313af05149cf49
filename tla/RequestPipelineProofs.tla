------------------------- MODULE RequestPipelineProofs -------------------------
(***************************************************************************)
(* Theorems about RequestPipeline for every finite number of server        *)
(* processes, every size of the queues, every number of retries, entries   *)
(* and requests.                                                           *)
(***************************************************************************)
EXTENDS RequestPipeline, Integers, SequenceTheorems, FiniteSetTheorems, FunctionTheorems, TLAPS

-----------------------------------------------------------------------------
(* Counting the last replies in a queue.                                   *)

\* The places after the first j of a queue that hold a last reply.
LastAfter(q, j) == {i \in DOMAIN q : q[i].status # "PROCESSING" /\ i > j}

IsLast(r) == IF r.status = "PROCESSING" THEN 0 ELSE 1

\* There are finitely many.
LEMMA LastFinite ==
  ASSUME NEW q \in Seq(Replies), NEW j \in Nat
  PROVE  IsFiniteSet(LastAfter(q, j)) /\ Cardinality(LastAfter(q, j)) \in Nat
<1>1. IsFiniteSet(1..Len(q))
  BY FS_Interval
<1>2. LastAfter(q, j) \in SUBSET (1..Len(q))
  BY DEF LastAfter
<1>3. IsFiniteSet(LastAfter(q, j))
  BY <1>1, <1>2, FS_Subset
<1> QED BY <1>3, FS_CardinalityType

\* A reply that is added is one more after every place in the queue, if it is a last
\* one.
LEMMA LastAppend ==
  ASSUME NEW q \in Seq(Replies), NEW r \in Replies, NEW j \in 0..Len(q)
  PROVE  Cardinality(LastAfter(Append(q, r), j)) = Cardinality(LastAfter(q, j)) + IsLast(r)
<1> DEFINE n == Len(q) + 1
<1>1. /\ DOMAIN Append(q, r) = 1..n /\ DOMAIN q = 1..Len(q) /\ Len(q) \in Nat
      /\ Append(q, r)[n] = r /\ \A i \in 1..Len(q) : Append(q, r)[i] = q[i]
  <2>1. Append(q, r) \in Seq(Replies) /\ Len(Append(q, r)) = n
    OBVIOUS
  <2>2. DOMAIN Append(q, r) = 1..n /\ DOMAIN q = 1..Len(q) /\ Len(q) \in Nat
    BY <2>1, LenProperties
  <2>3. \A i \in 1..Len(q) : Append(q, r)[i] = q[i]
    OBVIOUS
  <2>4. Append(q, r)[n] = r
    OBVIOUS
  <2> QED BY <2>2, <2>3, <2>4
<1>2. IsFiniteSet(LastAfter(q, j)) /\ Cardinality(LastAfter(q, j)) \in Nat /\ n \notin LastAfter(q, j)
  <2>1. n \notin LastAfter(q, j)
    BY <1>1 DEF LastAfter
  <2> QED BY <2>1, LastFinite
<1>3. CASE r.status = "PROCESSING"
  <2>1. LastAfter(Append(q, r), j) = LastAfter(q, j)
    BY <1>1, <1>3 DEF LastAfter
  <2> QED BY <1>2, <1>3, <2>1 DEF IsLast
<1>4. CASE r.status # "PROCESSING"
  <2>1. LastAfter(Append(q, r), j) = LastAfter(q, j) \union {n}
    BY <1>1, <1>4 DEF LastAfter
  <2> QED BY <1>2, <1>4, <2>1, FS_AddElement DEF IsLast
<1> QED BY <1>3, <1>4

\* There are none after the end.
LEMMA LastAtEnd ==
  ASSUME NEW q \in Seq(Replies)
  PROVE  Cardinality(LastAfter(q, Len(q))) = 0
<1>1. LastAfter(q, Len(q)) = {}
  BY DEF LastAfter
<1> QED BY <1>1, FS_EmptySet

\* The last replies after a place are those after it when the queue has moved up.
LEMMA LastTail ==
  ASSUME NEW q \in Seq(Replies), q # <<>>, NEW j \in Nat
  PROVE  Cardinality(LastAfter(Tail(q), j)) = Cardinality(LastAfter(q, j + 1))
<1> DEFINE S == LastAfter(q, j + 1)
           T == LastAfter(Tail(q), j)
           f == [i \in S |-> i - 1]
<1>1. /\ DOMAIN Tail(q) = 1..(Len(q) - 1) /\ DOMAIN q = 1..Len(q) /\ Len(q) \in Nat
      /\ \A i \in 1..(Len(q) - 1) : Tail(q)[i] = q[i + 1]
  BY HeadTailProperties
<1>2. S = {i \in 1..Len(q) : q[i].status # "PROCESSING" /\ i > j + 1}
  BY <1>1 DEF LastAfter
<1>3. T = {i \in 1..(Len(q) - 1) : q[i + 1].status # "PROCESSING" /\ i > j}
  BY <1>1 DEF LastAfter
<1>4. \A i \in S : i - 1 \in T
  BY <1>1, <1>2, <1>3
<1>5. \A i \in T : i + 1 \in S /\ (i + 1) - 1 = i
  BY <1>1, <1>2, <1>3
<1>6. S \subseteq Int
  BY <1>2
<1> HIDE DEF S, T
<1>7. f \in [S -> T]
  BY <1>4
<1>8. \A a, b \in S : f[a] = f[b] => a = b
  BY <1>6
<1>9. \A t \in T : \E s \in S : f[s] = t
  BY <1>5
<1>10. f \in Bijection(S, T)
  BY <1>7, <1>8, <1>9, Fun_IsBij
<1>11. ExistsBijection(S, T)
  BY <1>10, Fun_ExistsBij
<1>12. IsFiniteSet(S)
  BY LastFinite DEF S
<1>13. Cardinality(T) = Cardinality(S)
  BY <1>11, <1>12, FS_Bijection
<1> QED BY <1>13 DEF S, T

\* The first reply of a queue is one more before the second place, if it is a last one.
LEMMA LastHead ==
  ASSUME NEW q \in Seq(Replies), q # <<>>
  PROVE  Cardinality(LastAfter(q, 0)) = Cardinality(LastAfter(q, 1)) + IsLast(Head(q))
<1>1. Head(q) = q[1] /\ DOMAIN q = 1..Len(q) /\ Len(q) \in Nat /\ 1 \in 1..Len(q)
  OBVIOUS
<1>2. IsFiniteSet(LastAfter(q, 1)) /\ Cardinality(LastAfter(q, 1)) \in Nat /\ 1 \notin LastAfter(q, 1)
  BY LastFinite DEF LastAfter
<1>3. CASE Head(q).status = "PROCESSING"
  <2>1. LastAfter(q, 0) = LastAfter(q, 1)
    BY <1>1, <1>3 DEF LastAfter
  <2> QED BY <1>2, <1>3, <2>1 DEF IsLast
<1>4. CASE Head(q).status # "PROCESSING"
  <2>1. LastAfter(q, 0) = LastAfter(q, 1) \union {1}
    BY <1>1, <1>4 DEF LastAfter
  <2> QED BY <1>2, <1>4, <2>1, FS_AddElement DEF IsLast
<1> QED BY <1>3, <1>4

-----------------------------------------------------------------------------
(* Types.                                                                  *)

\* One retry more is within the limit, unless it is the last.
LEMMA RetryType ==
  ASSUME NEW n \in {m \in 0..RetryCount : m < RetryCount \/ m = 0}, ~GivesUp(n)
  PROVE  n + 1 \in {m \in 0..RetryCount : m < RetryCount \/ m = 0}
BY PipelineAssumption DEF GivesUp

\* A request that is lost is one more.
LEMMA LosesOne ==
  ASSUME NEW cause \in Cause, lost \in [Cause -> Nat], Loses(cause)
  PROVE  /\ lost' \in [Cause -> Nat]
         /\ Lost \in Nat /\ Lost' = Lost + 1
         /\ \A k \in Cause : k # cause => lost'[k] = lost[k]
BY DEF Loses, Cause, Lost

\* What is left of a queue when its first message was read, and what it is with one
\* more.
LEMMA QueueSteps ==
  ASSUME NEW S, NEW q \in Seq(S)
  PROVE  /\ q # <<>> => /\ Head(q) \in S /\ Tail(q) \in Seq(S) /\ Len(Tail(q)) = Len(q) - 1
                        /\ Len(q) \in Nat \ {0}
         /\ \A e \in S : Append(q, e) \in Seq(S) /\ Len(Append(q, e)) = Len(q) + 1
BY HeadTailProperties, AppendProperties, EmptySeq

\* Every action keeps the types.
LEMMA TypeStep == TypeOK /\ [Next]_vars => TypeOK'
<1> SUFFICES ASSUME TypeOK, [Next]_vars PROVE TypeOK'
  OBVIOUS
<1> USE DEF queueVars, childVars, controllerVars, historyVars
<1>0. room \in Nat
  BY PipelineAssumption DEF TypeOK
<1>1. CASE UNCHANGED vars
  BY <1>1 DEF vars, TypeOK
<1>2. ASSUME NEW c \in Child, Accept(c) \/ ReadNothing(c) \/ ClientCloses(c) PROVE TypeOK'
  BY <1>2 DEF Accept, ReadNothing, ClientCloses, TypeOK
<1>3. ASSUME NEW c \in Child, ReadRequest(c) PROVE TypeOK'
  <2>1. asked' \in [Child -> 0..MaxRequests]
    BY <1>3, PipelineAssumption DEF ReadRequest, Allowed, TypeOK
  <2>2. overlapped' \in BOOLEAN
    BY <1>3, Zenon DEF ReadRequest, TypeOK
  <2> QED BY <1>3, <2>1, <2>2 DEF ReadRequest, TypeOK
<1>4. ASSUME NEW c \in Child, SendRequest(c) PROVE TypeOK'
  <2>1. CASE Len(input) < room /\ input' = Append(input, c) /\ child' = [child EXCEPT ![c] = "waiting"]
             /\ tries' = [tries EXCEPT ![c] = 0] /\ UNCHANGED lost
    <3>1. input' \in Seq(Child) /\ Len(input') <= room
      BY <1>0, <2>1, QueueSteps DEF TypeOK
    <3> QED BY <1>4, <2>1, <3>1, PipelineAssumption DEF SendRequest, TypeOK
  <2>2. CASE Len(input) >= room /\ ~GivesUp(tries[c]) /\ tries' = [tries EXCEPT ![c] = @ + 1]
             /\ UNCHANGED <<input, child, lost>>
    <3>1. tries' \in [Child -> {n \in 0..RetryCount : n < RetryCount \/ n = 0}]
      BY <2>2, RetryType DEF TypeOK
    <3> QED BY <1>4, <2>2, <3>1 DEF SendRequest, TypeOK
  <2>3. CASE Loses("refused") /\ UNCHANGED input /\ child' = [child EXCEPT ![c] = "waiting"]
             /\ tries' = [tries EXCEPT ![c] = 0]
    <3>1. lost' \in [Cause -> Nat]
      BY <2>3, LosesOne DEF Cause, TypeOK
    <3> QED BY <1>4, <2>3, <3>1, PipelineAssumption DEF SendRequest, TypeOK
  <2> QED BY <1>4, <2>1, <2>2, <2>3 DEF SendRequest
<1>5. ASSUME NEW c \in Child, Relay(c) PROVE TypeOK'
  <2>1. /\ output' \in Seq(Replies) /\ Len(output') <= room /\ Head(output) \in Replies
    BY <1>0, <1>5, QueueSteps DEF Relay, TypeOK
  <2>2. Head(output).owner \in Child
    BY <2>1 DEF Replies
  <2>3. told' \in [Child -> Child \union {NoChild}]
    BY <1>5, <2>2 DEF Relay, TypeOK
  <2>4. child' \in [Child -> {"none", "reading", "sending", "waiting", "exited", "killed"}]
    BY <1>5 DEF Relay, NextOf, TypeOK
  <2>5. peer' \in [Child -> {"open", "closed", "reset"}]
    BY <1>5 DEF Relay, TypeOK
  <2> QED BY <1>5, <2>1, <2>3, <2>4, <2>5 DEF Relay, TypeOK
<1>6. CASE TakeRequest
  <2>1. input' \in Seq(Child) /\ Len(input') <= room /\ handled' \in Child
    BY <1>0, <1>6, QueueSteps DEF TakeRequest, TypeOK
  <2>2. left' \in 0..MaxEntries /\ slot' \in Status
    BY <1>6, PipelineAssumption DEF TakeRequest, Lines, Answers, Status, TypeOK
  <2>3. handled' # NoChild
    BY <2>1, PipelineAssumption
  <2> QED BY <1>6, <2>1, <2>2, <2>3 DEF TakeRequest, TypeOK
<1>7. CASE Retry
  <2>1. attempts' \in {n \in 0..RetryCount : n < RetryCount \/ n = 0}
    BY <1>7, RetryType DEF Retry, TypeOK
  <2> QED BY <1>7, <2>1 DEF Retry, TypeOK
<1>8. CASE SendLine
  <2>1. handled \in Child
    BY <1>8 DEF SendLine, TypeOK
  <2>2. Reply(handled, "PROCESSING") \in Replies
    BY <2>1 DEF Reply, Replies, Status
  <2>3. output' \in Seq(Replies) /\ Len(output') <= room
    <3>1. CASE output' = output
      BY <3>1 DEF TypeOK
    <3>2. CASE Len(output) < room /\ output' = Append(output, Reply(handled, "PROCESSING"))
      BY <1>0, <2>2, <3>2, QueueSteps DEF TypeOK
    <3> QED BY <1>8, <3>1, <3>2 DEF SendLine
  <2>4. left' \in 0..MaxEntries
    BY <1>8, PipelineAssumption DEF SendLine, TypeOK
  <2> QED BY <1>8, <2>1, <2>3, <2>4, PipelineAssumption DEF SendLine, TypeOK
<1>9. CASE SendAnswer
  <2>1. handled \in Child
    BY <1>9 DEF SendAnswer, TypeOK
  <2>2. Reply(handled, slot) \in Replies
    BY <2>1 DEF Reply, Replies, TypeOK
  <2>3. output' \in Seq(Replies) /\ Len(output') <= room
    <3>1. CASE output' = output
      BY <3>1 DEF TypeOK
    <3>2. CASE Len(output) < room /\ output' = Append(output, Reply(handled, slot))
      BY <1>0, <2>2, <3>2, QueueSteps DEF TypeOK
    <3> QED BY <1>9, <3>1, <3>2 DEF SendAnswer
  <2>4. lost' \in [Cause -> Nat]
    BY <1>9, LosesOne DEF SendAnswer, Cause, TypeOK
  <2> QED BY <1>9, <2>3, <2>4, PipelineAssumption DEF SendAnswer, TypeOK
<1>10. CASE ControllerStops
  <2>1. lost' \in [Cause -> Nat]
    BY <1>10, LosesOne DEF ControllerStops, Cause, TypeOK
  <2> QED BY <1>10, <2>1, PipelineAssumption DEF ControllerStops, TypeOK
<1>11. CASE StartController
  BY <1>11 DEF StartController, TypeOK
<1> QED BY <1>1, <1>2, <1>3, <1>4, <1>5, <1>6, <1>7, <1>8, <1>9, <1>10, <1>11
        DEF Next, ControllerStep, ChildStep

-----------------------------------------------------------------------------
(* Conservation.                                                           *)

ChildState == {"none", "reading", "sending", "waiting", "exited", "killed"}

\* Processes that still are, or were killed, waiting for a last reply.
UnservedIn(f) == {c \in Child : f[c] \in {"waiting", "killed"}}

\* They are the two sets that Conservation counts, and not more than there are
\* processes.
LEMMA Counts ==
  ASSUME NEW f \in [Child -> ChildState]
  PROVE  /\ IsFiniteSet(UnservedIn(f)) /\ Cardinality(UnservedIn(f)) \in Nat
         /\ Cardinality({c \in Child : f[c] = "waiting"}) + Cardinality({c \in Child : f[c] = "killed"})
              = Cardinality(UnservedIn(f))
         /\ Cardinality(Child) \in Nat
         /\ Cardinality(UnservedIn(f)) <= Cardinality(Child)
         /\ \A c \in Child : c \notin UnservedIn(f) => Cardinality(UnservedIn(f)) < Cardinality(Child)
<1> DEFINE W == {c \in Child : f[c] = "waiting"}
           K == {c \in Child : f[c] = "killed"}
           U == UnservedIn(f)
<1>1. U = W \union K /\ W \intersect K = {} /\ W \in SUBSET Child /\ K \in SUBSET Child /\ U \in SUBSET Child
  BY DEF UnservedIn
<1> HIDE DEF W, K, U
<1>2. IsFiniteSet(Child) /\ Cardinality(Child) \in Nat
  BY PipelineAssumption, FS_CardinalityType
<1>3. IsFiniteSet(W) /\ IsFiniteSet(K) /\ IsFiniteSet(U)
  BY <1>1, <1>2, FS_Subset
<1>4. Cardinality(W) \in Nat /\ Cardinality(K) \in Nat /\ Cardinality(U) \in Nat
  BY <1>3, FS_CardinalityType
<1>5. Cardinality(U) = Cardinality(W) + Cardinality(K) - Cardinality({})
  BY <1>1, <1>3, FS_Union
<1>6. Cardinality(U) = Cardinality(W) + Cardinality(K)
  BY <1>4, <1>5, FS_EmptySet
<1>7. Cardinality(U) <= Cardinality(Child) /\ (Cardinality(Child) = Cardinality(U) => Child = U)
  BY <1>1, <1>2, FS_Subset
<1>8. \A c \in Child : c \notin U => Cardinality(U) < Cardinality(Child)
  BY <1>2, <1>4, <1>7
<1> QED BY <1>2, <1>3, <1>4, <1>6, <1>7, <1>8 DEF W, K, U

\* Conservation, in these words.
Balance ==
  Cardinality(UnservedIn(child)) = Len(input) + Busy + Cardinality(LastAfter(output, 0)) + Lost

\* Their numbers are numbers.
LEMMA BalanceTypes ==
  ASSUME TypeOK
  PROVE  /\ Cardinality(UnservedIn(child)) \in Nat /\ Len(input) \in Nat /\ Busy \in Nat
         /\ Cardinality(LastAfter(output, 0)) \in Nat /\ Lost \in Nat
         /\ Conservation <=> Balance
<1>1. /\ Cardinality(UnservedIn(child)) \in Nat
      /\ Cardinality(Waiting) + Cardinality(Killed) = Cardinality(UnservedIn(child))
  BY Counts DEF TypeOK, ChildState, Waiting, Killed
<1>2. Terminals = LastAfter(output, 0)
  BY DEF Terminals, LastAfter, TypeOK
<1>3. Cardinality(LastAfter(output, 0)) \in Nat
  BY LastFinite DEF TypeOK
<1>4. Len(input) \in Nat /\ Busy \in Nat /\ Lost \in Nat
  BY DEF TypeOK, Busy, Lost, Cause
<1>5. Conservation <=> Balance
  BY <1>1, <1>2, <1>3, <1>4 DEF Conservation, Balance, UnderWay
<1> QED BY <1>1, <1>3, <1>4, <1>5

\* The same in the next state.
LEMMA BalanceNext ==
  ASSUME TypeOK'
  PROVE  /\ Cardinality(UnservedIn(child')) \in Nat /\ Len(input') \in Nat /\ Busy' \in Nat
         /\ Cardinality(LastAfter(output', 0)) \in Nat /\ Lost' \in Nat
         /\ Conservation' <=> Balance'
<1>1. /\ Cardinality(UnservedIn(child')) \in Nat
      /\ Cardinality(Waiting') + Cardinality(Killed') = Cardinality(UnservedIn(child'))
  BY Counts DEF TypeOK, ChildState, Waiting, Killed
<1>2. Terminals' = LastAfter(output', 0)
  BY DEF Terminals, LastAfter, TypeOK
<1>3. Cardinality(LastAfter(output', 0)) \in Nat
  BY LastFinite DEF TypeOK
<1>4. Len(input') \in Nat /\ Busy' \in Nat /\ Lost' \in Nat
  BY DEF TypeOK, Busy, Lost, Cause
<1>5. Conservation' <=> Balance'
  BY <1>1, <1>2, <1>3, <1>4 DEF Conservation, Balance, UnderWay
<1> QED BY <1>1, <1>3, <1>4, <1>5

-----------------------------------------------------------------------------
(* What the actions do to the numbers that are counted.                    *)

\* A process that changes its state joins the unserved ones, leaves them, or neither.
LEMMA Unserved ==
  ASSUME NEW f \in [Child -> ChildState], NEW c \in Child, NEW v \in ChildState
  PROVE  LET g == [f EXCEPT ![c] = v]
             n == Cardinality(UnservedIn(f))
         IN  /\ f[c] \in {"waiting", "killed"} /\ v \in {"waiting", "killed"}
                => UnservedIn(g) = UnservedIn(f)
             /\ f[c] \notin {"waiting", "killed"} /\ v \notin {"waiting", "killed"}
                => UnservedIn(g) = UnservedIn(f)
             /\ f[c] \notin {"waiting", "killed"} /\ v \in {"waiting", "killed"}
                => Cardinality(UnservedIn(g)) = n + 1
             /\ f[c] \in {"waiting", "killed"} /\ v \notin {"waiting", "killed"}
                => Cardinality(UnservedIn(g)) = n - 1
<1> DEFINE g == [f EXCEPT ![c] = v]
<1>1. g \in [Child -> ChildState] /\ g[c] = v /\ \A d \in Child : d # c => g[d] = f[d]
  OBVIOUS
<1> HIDE DEF g
<1>2. IsFiniteSet(UnservedIn(f)) /\ Cardinality(UnservedIn(f)) \in Nat
  BY Counts
<1>3. CASE f[c] \in {"waiting", "killed"} /\ v \in {"waiting", "killed"}
  BY <1>1, <1>3 DEF UnservedIn, g
<1>4. CASE f[c] \notin {"waiting", "killed"} /\ v \notin {"waiting", "killed"}
  BY <1>1, <1>4 DEF UnservedIn, g
<1>5. CASE f[c] \notin {"waiting", "killed"} /\ v \in {"waiting", "killed"}
  <2>1. UnservedIn(g) = UnservedIn(f) \union {c} /\ c \notin UnservedIn(f)
    BY <1>1, <1>5 DEF UnservedIn
  <2>2. Cardinality(UnservedIn(g)) = Cardinality(UnservedIn(f)) + 1
    BY <1>2, <2>1, FS_AddElement
  <2> QED BY <1>5, <2>2 DEF g
<1>6. CASE f[c] \in {"waiting", "killed"} /\ v \notin {"waiting", "killed"}
  <2>1. UnservedIn(g) = UnservedIn(f) \ {c} /\ c \in UnservedIn(f)
    BY <1>1, <1>6 DEF UnservedIn
  <2>2. Cardinality(UnservedIn(g)) = Cardinality(UnservedIn(f)) - 1
    BY <1>2, <2>1, FS_RemoveElement
  <2> QED BY <1>6, <2>2 DEF g
<1> QED BY <1>3, <1>4, <1>5, <1>6

\* What no counted number depends on changes.
StaysCounted ==
  /\ Cardinality(UnservedIn(child')) = Cardinality(UnservedIn(child))
  /\ UNCHANGED <<room, input, output, handled, left, lost>>

\* A process that has nothing under way.
LEMMA QuietSteps ==
  ASSUME TypeOK, NEW c \in Child, Accept(c) \/ ReadRequest(c) \/ ReadNothing(c) \/ ClientCloses(c)
  PROVE  StaysCounted
<1> USE DEF StaysCounted, queueVars, controllerVars, historyVars
<1>1. child \in [Child -> ChildState]
  BY DEF TypeOK, ChildState
<1>2. CASE ClientCloses(c)
  BY <1>2 DEF ClientCloses
<1>3. CASE Accept(c) \/ ReadRequest(c) \/ ReadNothing(c)
  <2>1. PICK v \in {"reading", "sending", "exited"} : child' = [child EXCEPT ![c] = v]
    BY <1>3 DEF Accept, ReadRequest, ReadNothing
  <2>2. child[c] \notin {"waiting", "killed"} /\ v \notin {"waiting", "killed"} /\ v \in ChildState
    BY <1>3 DEF Accept, ReadRequest, ReadNothing, ChildState
  <2>3. Cardinality(UnservedIn(child')) = Cardinality(UnservedIn(child))
    BY <1>1, <2>1, <2>2, Unserved
  <2> QED BY <1>3, <2>3 DEF Accept, ReadRequest, ReadNothing
<1> QED BY <1>2, <1>3

\* A process that sends its request, or gives up, waits.
LEMMA SendEffect ==
  ASSUME TypeOK, NEW c \in Child, SendRequest(c)
  PROVE  /\ UNCHANGED <<room, output, handled, left>>
         /\ child[c] = "sending" /\ c \notin UnservedIn(child)
         /\ \/ StaysCounted
            \/ /\ Cardinality(UnservedIn(child')) = Cardinality(UnservedIn(child)) + 1
               /\ \/ Len(input') = Len(input) + 1 /\ lost' = lost
                  \/ Len(input) >= room /\ input' = input /\ Loses("refused")
<1> USE DEF controllerVars
<1>1. /\ child \in [Child -> ChildState] /\ child[c] = "sending" /\ c \notin UnservedIn(child)
      /\ "waiting" \in ChildState
  BY DEF TypeOK, ChildState, SendRequest, UnservedIn
<1>2. child' = [child EXCEPT ![c] = "waiting"]
      => Cardinality(UnservedIn(child')) = Cardinality(UnservedIn(child)) + 1
  <2>1. child[c] \notin {"waiting", "killed"}
    BY <1>1
  <2>2. Cardinality(UnservedIn([child EXCEPT ![c] = "waiting"])) = Cardinality(UnservedIn(child)) + 1
    BY <1>1, <2>1, Unserved
  <2> QED BY <2>2
<1>3. Len(Append(input, c)) = Len(input) + 1
  BY QueueSteps DEF TypeOK
<1> QED BY <1>1, <1>2, <1>3 DEF SendRequest, StaysCounted

\* A process that relays a last reply, or is relieved of it by the end of its client,
\* is served.
LEMMA RelayEffect ==
  ASSUME TypeOK, NEW c \in Child, Relay(c)
  PROVE  /\ UNCHANGED <<room, input, handled, left, lost>>
         /\ output # <<>> /\ output' = Tail(output)
         /\ Cardinality(UnservedIn(child')) = Cardinality(UnservedIn(child)) - IsLast(Head(output))
<1> USE DEF controllerVars
<1>1. child \in [Child -> ChildState] /\ child[c] = "waiting"
  BY DEF TypeOK, ChildState, Relay
<1>2. Cardinality(UnservedIn(child)) \in Nat
  BY <1>1, Counts
<1>3. PICK v \in ChildState : /\ child' = [child EXCEPT ![c] = v]
                              /\ v \in {"waiting", "killed"} <=> Head(output).status = "PROCESSING"
  BY DEF Relay, NextOf, ChildState
<1>4. CASE Head(output).status = "PROCESSING"
  <2>1. UnservedIn(child') = UnservedIn(child)
    BY <1>1, <1>3, <1>4, Unserved
  <2> QED BY <1>2, <1>4, <2>1 DEF IsLast, Relay
<1>5. CASE Head(output).status # "PROCESSING"
  <2>1. Cardinality(UnservedIn(child')) = Cardinality(UnservedIn(child)) - 1
    BY <1>1, <1>3, <1>5, Unserved
  <2> QED BY <1>5, <2>1 DEF IsLast, Relay
<1> QED BY <1>4, <1>5

\* The answer to a request is the last reply, or the request is lost.
LEMMA AnswerEffect ==
  ASSUME TypeOK, SendAnswer
  PROVE  /\ UNCHANGED <<room, input, child, left>>
         /\ handled \in Child /\ handled' = NoChild /\ left = 0
         /\ \/ /\ output' = Append(output, Reply(handled, slot)) /\ Reply(handled, slot) \in Replies
               /\ \/ IsLast(Reply(handled, slot)) = 1 /\ lost' = lost
                  \/ IsLast(Reply(handled, slot)) = 0 /\ Loses("unended")
            \/ Len(output) >= room /\ output' = output /\ Loses("dropped")
<1> USE DEF childVars
<1>1. handled \in Child /\ left = 0
  BY DEF SendAnswer, TypeOK
<1>2. Reply(handled, slot) \in Replies
  BY <1>1 DEF Reply, Replies, TypeOK
<1>3. IsLast(Reply(handled, slot)) = IF slot = "PROCESSING" THEN 0 ELSE 1
  BY DEF IsLast, Reply
<1> QED BY <1>1, <1>2, <1>3 DEF SendAnswer

\* A line of a listing is not a last reply.
LEMMA LineEffect ==
  ASSUME TypeOK, SendLine
  PROVE  /\ UNCHANGED <<room, input, child, handled, lost>>
         /\ handled \in Child /\ left \in Nat \ {0} /\ left' = left - 1
         /\ \/ /\ output' = Append(output, Reply(handled, "PROCESSING"))
               /\ Reply(handled, "PROCESSING") \in Replies
               /\ IsLast(Reply(handled, "PROCESSING")) = 0
            \/ output' = output
<1> USE DEF childVars, historyVars
<1>1. handled \in Child /\ left \in Nat \ {0}
  BY DEF SendLine, TypeOK
<1>2. Reply(handled, "PROCESSING") \in Replies
  BY <1>1 DEF Reply, Replies, Status
<1>3. IsLast(Reply(handled, "PROCESSING")) = 0
  BY DEF IsLast, Reply
<1> QED BY <1>1, <1>2, <1>3 DEF SendLine

-----------------------------------------------------------------------------
(* Conservation: no step makes a last reply out of nothing or loses one.   *)

\* Every action keeps the balance of processes unserved and replies under way.
LEMMA ConservationStep ==
  ASSUME TypeOK, TypeOK', Conservation, [Next]_vars
  PROVE  Conservation'
<1> USE DEF queueVars, childVars, controllerVars, historyVars
<1>1. /\ Cardinality(UnservedIn(child)) \in Nat /\ Len(input) \in Nat /\ Busy \in Nat
      /\ Cardinality(LastAfter(output, 0)) \in Nat /\ Lost \in Nat
      /\ Balance
  BY BalanceTypes
<1>2. SUFFICES Balance'
  BY BalanceNext
<1>3. CASE StaysCounted
  BY <1>1, <1>3 DEF StaysCounted, Balance, Busy, Lost
<1>4. ASSUME NEW c \in Child, SendRequest(c) PROVE Balance'
  <2>1. CASE lost' = lost
    <3>1. Lost' = Lost
      BY <2>1 DEF Lost
    <3>2. Busy' = Busy
      BY <1>4, SendEffect DEF Busy
    <3>3. (output' = output /\ ~Loses("refused")) \/ StaysCounted
      <4>1. ~Loses("refused")
        BY <2>1 DEF Loses, Cause, TypeOK
      <4>2. output' = output
        BY <1>4, SendEffect
      <4> QED BY <4>1, <4>2
    <3>4. CASE output' = output /\ ~Loses("refused")
      BY <1>1, <1>3, <1>4, <3>1, <3>2, <3>4, SendEffect DEF Balance
    <3> QED BY <1>3, <3>3, <3>4
  <2>2. CASE Loses("refused")
    <3>1. Lost' = Lost + 1
      BY <2>2, LosesOne DEF TypeOK, Cause
    <3> QED BY <1>1, <1>3, <1>4, <2>1, <2>2, <3>1, SendEffect DEF Balance, Busy
  <2>3. StaysCounted => lost' = lost
    BY DEF StaysCounted
  <2> QED BY <1>4, <2>1, <2>2, <2>3, SendEffect
<1>5. ASSUME NEW c \in Child, Relay(c) PROVE Balance'
  <2>1. /\ UNCHANGED <<room, input, handled, left, lost>>
        /\ output # <<>> /\ output' = Tail(output) /\ output \in Seq(Replies)
        /\ Cardinality(UnservedIn(child')) = Cardinality(UnservedIn(child)) - IsLast(Head(output))
    BY <1>5, RelayEffect DEF TypeOK
  <2>2. Cardinality(LastAfter(output', 0)) = Cardinality(LastAfter(output, 1))
    BY <2>1, LastTail
  <2>3. /\ Cardinality(LastAfter(output, 0)) = Cardinality(LastAfter(output, 1)) + IsLast(Head(output))
        /\ Cardinality(LastAfter(output, 1)) \in Nat
    BY <2>1, LastHead, LastFinite
  <2>4. IsLast(Head(output)) \in {0, 1}
    BY DEF IsLast
  <2>5. Busy' = Busy /\ Lost' = Lost
    BY <2>1 DEF Busy, Lost
  <2> QED BY <1>1, <2>1, <2>2, <2>3, <2>4, <2>5 DEF Balance
<1>6. CASE TakeRequest
  <2>1. Len(input') = Len(input) - 1
    BY <1>6, QueueSteps DEF TakeRequest, TypeOK
  <2>2. Busy = 0 /\ Busy' = 1
    BY <1>6 DEF TakeRequest, TypeOK, Busy
  <2> QED BY <1>1, <1>6, <2>1, <2>2 DEF TakeRequest, Balance, Lost
<1>7. CASE SendLine
  <2>1. Cardinality(LastAfter(output', 0)) = Cardinality(LastAfter(output, 0))
    <3>1. output \in Seq(Replies) /\ 0 \in 0..Len(output)
      BY DEF TypeOK
    <3>2. CASE output' = output
      BY <3>2
    <3>3. CASE /\ output' = Append(output, Reply(handled, "PROCESSING"))
               /\ Reply(handled, "PROCESSING") \in Replies
               /\ IsLast(Reply(handled, "PROCESSING")) = 0
      <4>1. Cardinality(LastAfter(output', 0)) = Cardinality(LastAfter(output, 0)) + 0
        BY <3>1, <3>3, LastAppend
      <4> QED BY <1>1, <4>1
    <3> QED BY <1>7, <3>2, <3>3, LineEffect
  <2> QED BY <1>1, <1>7, <2>1, LineEffect DEF Balance, Busy, Lost
<1>8. CASE SendAnswer
  <2>1. Busy = 1 /\ Busy' = 0 /\ input' = input /\ child' = child
    BY <1>8, AnswerEffect, PipelineAssumption DEF Busy
  <2>2. output \in Seq(Replies) /\ 0 \in 0..Len(output) /\ lost \in [Cause -> Nat]
    BY DEF TypeOK
  <2>3. CASE /\ output' = Append(output, Reply(handled, slot)) /\ Reply(handled, slot) \in Replies
             /\ IsLast(Reply(handled, slot)) = 1 /\ lost' = lost
    <3>1. Cardinality(LastAfter(output', 0)) = Cardinality(LastAfter(output, 0)) + 1
      BY <2>2, <2>3, LastAppend
    <3> QED BY <1>1, <2>1, <2>3, <3>1 DEF Balance, Lost
  <2>4. CASE /\ output' = Append(output, Reply(handled, slot)) /\ Reply(handled, slot) \in Replies
             /\ IsLast(Reply(handled, slot)) = 0 /\ Loses("unended")
    <3>1. Cardinality(LastAfter(output', 0)) = Cardinality(LastAfter(output, 0)) + 0
      BY <2>2, <2>4, LastAppend
    <3>2. Lost' = Lost + 1
      BY <2>2, <2>4, LosesOne DEF Cause
    <3> QED BY <1>1, <2>1, <3>1, <3>2 DEF Balance
  <2>5. CASE output' = output /\ Loses("dropped")
    <3>1. Lost' = Lost + 1
      BY <2>2, <2>5, LosesOne DEF Cause
    <3> QED BY <1>1, <2>1, <2>5, <3>1 DEF Balance
  <2> QED BY <1>8, <2>3, <2>4, <2>5, AnswerEffect
<1>9. CASE ControllerStops
  <2>1. CASE handled = NoChild
    BY <1>1, <1>9, <2>1 DEF ControllerStops, Balance, Busy, Lost
  <2>2. CASE handled # NoChild
    <3>1. Lost' = Lost + 1
      BY <1>9, <2>2, LosesOne DEF ControllerStops, Cause, TypeOK
    <3>2. Busy = 1 /\ Busy' = 0
      BY <1>9, <2>2 DEF ControllerStops, Busy
    <3> QED BY <1>1, <1>9, <3>1, <3>2 DEF ControllerStops, Balance
  <2> QED BY <2>1, <2>2
<1>10. CASE Retry \/ StartController \/ UNCHANGED vars
  BY <1>3, <1>10 DEF Retry, StartController, vars, StaysCounted
<1> QED BY <1>3, <1>4, <1>5, <1>6, <1>7, <1>8, <1>9, <1>10, QuietSteps
        DEF Next, ControllerStep, ChildStep

\* A queue with room for one request of each process refuses none: what is in it is
\* for processes that wait, and the one that sends does not.
LEMMA RequestsFitStep ==
  ASSUME TypeOK, TypeOK', Conservation, RequestsFit, [Next]_vars
  PROVE  RequestsFit'
<1> USE DEF queueVars, childVars, controllerVars, historyVars
<1>1. /\ Cardinality(UnservedIn(child)) \in Nat /\ Len(input) \in Nat /\ Busy \in Nat
      /\ Cardinality(LastAfter(output, 0)) \in Nat /\ Lost \in Nat
      /\ Balance
  BY BalanceTypes
<1>2. room \in Nat /\ room' = room /\ lost \in [Cause -> Nat]
  BY PipelineAssumption DEF TypeOK, Next, vars, ControllerStep, ChildStep, Accept, ReadRequest,
     ReadNothing, SendRequest, Relay, ClientCloses, TakeRequest, Retry, SendLine, SendAnswer,
     ControllerStops, StartController
<1>3. ASSUME NEW c \in Child, SendRequest(c), Loses("refused"), Len(input) >= room
      PROVE  RequestsFit'
  <2>1. c \notin UnservedIn(child) /\ child \in [Child -> ChildState]
    BY <1>3, SendEffect DEF TypeOK, ChildState
  <2>2. Cardinality(UnservedIn(child)) < Cardinality(Child) /\ Cardinality(Child) \in Nat
    BY <2>1, Counts
  <2>3. Len(input) <= Cardinality(UnservedIn(child))
    BY <1>1 DEF Balance
  <2> QED BY <1>1, <1>2, <1>3, <2>2, <2>3 DEF RequestsFit
<1>4. CASE lost'["refused"] = lost["refused"]
  BY <1>2, <1>4 DEF RequestsFit
<1>5. \A k \in Cause : Loses(k) /\ k # "refused" => lost'["refused"] = lost["refused"]
  BY <1>2 DEF Loses, Cause
<1>6. CASE lost' = lost
  BY <1>4, <1>6
<1>7. ASSUME NEW c \in Child, ChildStep(c) PROVE RequestsFit'
  <2>1. CASE SendRequest(c)
    BY <1>3, <1>6, <2>1, SendEffect DEF StaysCounted
  <2>2. CASE Accept(c) \/ ReadRequest(c) \/ ReadNothing(c) \/ Relay(c) \/ ClientCloses(c)
    BY <1>6, <2>2 DEF Accept, ReadRequest, ReadNothing, Relay, ClientCloses
  <2> QED BY <1>7, <2>1, <2>2 DEF ChildStep
<1>8. CASE SendAnswer \/ ControllerStops
  BY <1>4, <1>5, <1>6, <1>8 DEF SendAnswer, ControllerStops, Cause
<1>9. CASE TakeRequest \/ Retry \/ SendLine \/ StartController \/ UNCHANGED vars
  BY <1>6, <1>9 DEF TakeRequest, Retry, SendLine, StartController, vars
<1> QED BY <1>7, <1>8, <1>9 DEF Next, ControllerStep

-----------------------------------------------------------------------------
(* How many replies there can be.                                          *)

\* What a reply queue q holds after its first j replies, and o replies that are owed,
\* are no more than the requests account for that have a last reply there, and w more.
Fits(q, j, o, w) == (Len(q) - j) + o <= (MaxEntries + 1) * (Cardinality(LastAfter(q, j)) + w)

\* RepliesBounded, in these words.
LEMMA BoundedIs ==
  ASSUME TypeOK
  PROVE  RepliesBounded <=> \A j \in 0..Len(output) : Fits(output, j, Owed, Busy + Lost)
<1>1. \A j \in 0..Len(output) : Unread(j) = LastAfter(output, j)
  BY DEF Unread, Terminals, LastAfter, TypeOK
<1>2. output \in Seq(Replies) /\ Len(output) \in Nat /\ Busy \in Nat /\ Lost \in Nat
  BY BalanceTypes DEF TypeOK
<1>3. \A j \in 0..Len(output) :
        /\ Cardinality(LastAfter(output, j)) \in Nat
        /\ Cardinality(LastAfter(output, j)) + Busy + Lost = Cardinality(LastAfter(output, j)) + (Busy + Lost)
  BY <1>2, LastFinite
<1> QED BY <1>1, <1>3 DEF RepliesBounded, Fits

\* The same in the next state.
LEMMA BoundedNext ==
  ASSUME TypeOK'
  PROVE  RepliesBounded' <=> \A j \in 0..Len(output') : Fits(output', j, Owed', Busy' + Lost')
<1>1. \A j \in 0..Len(output') : Unread(j)' = LastAfter(output', j)
  BY DEF Unread, Terminals, LastAfter, TypeOK
<1>2. output' \in Seq(Replies) /\ Len(output') \in Nat /\ Busy' \in Nat /\ Lost' \in Nat
  BY BalanceNext DEF TypeOK
<1>3. \A j \in 0..Len(output') :
        /\ Cardinality(LastAfter(output', j)) \in Nat
        /\ Cardinality(LastAfter(output', j)) + Busy' + Lost' = Cardinality(LastAfter(output', j)) + (Busy' + Lost')
  BY <1>2, LastFinite
<1> QED BY <1>1, <1>3 DEF RepliesBounded, Fits

\* Arithmetic the solver has to be told.
LEMMA Times ==
  ASSUME NEW m \in Nat, NEW x \in Nat, NEW y \in Nat
  PROVE  /\ m * x \in Nat /\ m * (x + 1) = m * x + m
         /\ x <= y => m * x <= m * y
<1>1. m * x \in Nat /\ m * (x + 1) = m * x + m
  OBVIOUS
<1>2. ASSUME x <= y PROVE m * x <= m * y
  <2>1. PICK d \in Nat : y = x + d
    BY <1>2
  <2>2. m * y = m * x + m * d /\ m * d \in Nat
    BY <2>1
  <2> QED BY <1>1, <2>2
<1> QED BY <1>1, <1>2

\* The bound allows for less owed, for more requests that account for it, and for a
\* whole answer more with each of them.
LEMMA FitsMore ==
  ASSUME NEW q \in Seq(Replies), NEW j \in 0..Len(q), NEW o \in Nat, NEW w \in Nat, Fits(q, j, o, w)
  PROVE  /\ \A p \in 0..o : Fits(q, j, p, w) /\ Fits(q, j, p, w + 1)
         /\ \A p \in 0..(o + MaxEntries + 1) : Fits(q, j, p, w + 1)
<1> DEFINE n == Cardinality(LastAfter(q, j))
           m == MaxEntries + 1
<1>1. n \in Nat /\ m \in Nat /\ Len(q) \in Nat
  BY LastFinite, PipelineAssumption
<1>2. (Len(q) - j) + o <= m * (n + w)
  BY DEF Fits
<1> HIDE DEF n, m
<1>3. m * (n + w) \in Nat /\ m * ((n + w) + 1) = m * (n + w) + m
  BY <1>1, Times
<1>4. n + (w + 1) = (n + w) + 1
  BY <1>1
<1>5. \A p \in 0..o : (Len(q) - j) + p <= m * (n + w)
  BY <1>1, <1>2, <1>3
<1>6. \A p \in 0..(o + m) : (Len(q) - j) + p <= m * (n + (w + 1))
  BY <1>1, <1>2, <1>3, <1>4
<1>7. \A p \in 0..o : (Len(q) - j) + p <= m * (n + (w + 1))
  <2>1. \A p \in 0..o : p \in 0..(o + m)
    BY <1>1
  <2> QED BY <1>6, <2>1
<1>8. o + MaxEntries + 1 = o + m
  BY PipelineAssumption DEF m
<1> QED BY <1>5, <1>6, <1>7, <1>8 DEF Fits, n, m

\* One reply more, that was owed: a line, or the last one of a request that accounts
\* for it from now on.
LEMMA FitsAppend ==
  ASSUME NEW q \in Seq(Replies), NEW r \in Replies, NEW o \in Nat \ {0}, NEW w \in Nat, NEW l \in Nat,
         IsLast(r) + l = w, o <= MaxEntries + 1,
         \A j \in 0..Len(q) : Fits(q, j, o, w),
         l = 0 => o = 1
  PROVE  \A j \in 0..Len(Append(q, r)) : Fits(Append(q, r), j, o - 1, l)
<1> DEFINE a == Append(q, r)
           m == MaxEntries + 1
<1>1. a \in Seq(Replies) /\ Len(a) = Len(q) + 1 /\ Len(q) \in Nat /\ m \in Nat /\ IsLast(r) \in Nat
  BY QueueSteps, PipelineAssumption DEF IsLast
<1>2. SUFFICES ASSUME NEW j \in 0..Len(a) PROVE Fits(a, j, o - 1, l)
  OBVIOUS
<1>3. CASE j \in 0..Len(q)
  <2>1. Cardinality(LastAfter(a, j)) = Cardinality(LastAfter(q, j)) + IsLast(r)
    BY <1>3, LastAppend
  <2>2. Cardinality(LastAfter(q, j)) \in Nat
    BY <1>3, LastFinite
  <2> HIDE DEF a
  <2>3. Cardinality(LastAfter(a, j)) + l = Cardinality(LastAfter(q, j)) + w
    BY <1>1, <2>1, <2>2
  <2>4. (Len(a) - j) + (o - 1) = (Len(q) - j) + o
    BY <1>1, <1>3
  <2> QED BY <1>3, <2>3, <2>4 DEF Fits
<1>4. CASE j = Len(a)
  <2>1. Cardinality(LastAfter(a, j)) = 0
    BY <1>1, <1>4, LastAtEnd
  <2> HIDE DEF a, m
  <2>2. m * 0 = 0 /\ m * 1 = m /\ (1 <= l => m * 1 <= m * l) /\ m * l \in Nat
    BY <1>1, Times
  <2>3. (Len(a) - j) + (o - 1) = o - 1
    BY <1>1, <1>4
  <2>4. o - 1 <= m * (0 + l)
    <3>1. 0 + l = l
      OBVIOUS
    <3>2. CASE l = 0
      BY <2>2, <3>1, <3>2
    <3>3. CASE 1 <= l
      BY <1>1, <2>2, <3>1, <3>3 DEF m
    <3> QED BY <3>2, <3>3
  <2> QED BY <2>1, <2>3, <2>4 DEF Fits, m
<1> QED BY <1>1, <1>3, <1>4

\* One reply less.
LEMMA FitsTail ==
  ASSUME NEW q \in Seq(Replies), q # <<>>, NEW o \in Nat, NEW w \in Nat,
         \A j \in 0..Len(q) : Fits(q, j, o, w)
  PROVE  \A j \in 0..Len(Tail(q)) : Fits(Tail(q), j, o, w)
<1>1. Len(Tail(q)) = Len(q) - 1 /\ Len(q) \in Nat \ {0}
  BY QueueSteps
<1>2. SUFFICES ASSUME NEW j \in 0..Len(Tail(q)) PROVE Fits(Tail(q), j, o, w)
  OBVIOUS
<1>3. j \in Nat /\ j + 1 \in 0..Len(q)
  BY <1>1
<1>4. Cardinality(LastAfter(Tail(q), j)) = Cardinality(LastAfter(q, j + 1))
  BY <1>3, LastTail
<1>5. (Len(Tail(q)) - j) + o = (Len(q) - (j + 1)) + o
  <2>1. j \in Nat /\ o \in Nat /\ Len(q) \in Nat
    BY <1>1, <1>3
  <2> QED BY <1>1, <2>1
<1>6. Fits(q, j + 1, o, w)
  BY <1>3
<1>7. (Len(q) - (j + 1)) + o <= (MaxEntries + 1) * (Cardinality(LastAfter(q, j + 1)) + w)
  BY <1>6 DEF Fits
<1>8. (Len(Tail(q)) - j) + o <= (MaxEntries + 1) * (Cardinality(LastAfter(Tail(q), j)) + w)
  BY <1>4, <1>5, <1>7
<1> QED BY <1>8 DEF Fits

\* Every action keeps the bound on the replies.
LEMMA RepliesBoundedStep ==
  ASSUME TypeOK, TypeOK', RepliesBounded, [Next]_vars
  PROVE  RepliesBounded'
<1> USE DEF queueVars, childVars, controllerVars, historyVars
<1>1. /\ Busy \in Nat /\ Lost \in Nat /\ Busy + Lost \in Nat
      /\ output \in Seq(Replies) /\ Len(output) \in Nat /\ lost \in [Cause -> Nat]
      /\ \A j \in 0..Len(output) : Fits(output, j, Owed, Busy + Lost)
  <2>1. output \in Seq(Replies) /\ Len(output) \in Nat /\ lost \in [Cause -> Nat]
    BY DEF TypeOK
  <2>2. Busy \in Nat /\ Lost \in Nat
    BY BalanceTypes
  <2>3. \A j \in 0..Len(output) : Fits(output, j, Owed, Busy + Lost)
    BY BoundedIs
  <2> QED BY <2>1, <2>2, <2>3
<1>2. SUFFICES \A j \in 0..Len(output') : Fits(output', j, Owed', Busy' + Lost')
  BY BoundedNext
<1>3. Owed \in 0..(MaxEntries + 1)
  BY PipelineAssumption DEF Owed, TypeOK
<1>4. CASE UNCHANGED <<output, handled, left, lost>>
  <2>1. Owed' = Owed /\ Busy' = Busy /\ Lost' = Lost
    BY <1>4 DEF Owed, Busy, Lost
  <2> QED BY <1>1, <1>4, <2>1
<1>5. ASSUME output' = output, Owed' \in 0..Owed, Busy' + Lost' \in {Busy + Lost, Busy + Lost + 1}
      PROVE  \A j \in 0..Len(output') : Fits(output', j, Owed', Busy' + Lost')
  BY <1>1, <1>3, <1>5, FitsMore
<1>6. ASSUME NEW c \in Child, SendRequest(c)
      PROVE  \A j \in 0..Len(output') : Fits(output', j, Owed', Busy' + Lost')
  <2>1. CASE lost' = lost
    BY <1>4, <1>6, <2>1, SendEffect
  <2>2. CASE Loses("refused")
    <3>1. Lost' = Lost + 1
      BY <1>1, <2>2, LosesOne DEF Cause
    <3>2. output' = output /\ Owed' = Owed /\ Busy' = Busy
      BY <1>6, SendEffect DEF Owed, Busy
    <3> QED BY <1>1, <1>3, <1>5, <3>1, <3>2
  <2> QED BY <1>6, <2>1, <2>2, SendEffect DEF StaysCounted
<1>7. ASSUME NEW c \in Child, Relay(c)
      PROVE  \A j \in 0..Len(output') : Fits(output', j, Owed', Busy' + Lost')
  <2>1. Owed' = Owed /\ Busy' = Busy /\ Lost' = Lost /\ output # <<>> /\ output' = Tail(output)
    BY <1>7, RelayEffect DEF Owed, Busy, Lost
  <2>2. Owed \in Nat
    BY <1>3
  <2> QED BY <1>1, <2>1, <2>2, FitsTail
<1>8. CASE TakeRequest
  <2>1. output' = output /\ Lost' = Lost /\ Busy = 0 /\ Busy' = 1 /\ Owed = 0
    BY <1>8 DEF TakeRequest, TypeOK, Busy, Lost, Owed
  <2>2. Owed' \in 0..(Owed + MaxEntries + 1)
    <3>1. \A n \in 0..MaxEntries : n + 1 \in 0..(0 + MaxEntries + 1)
      BY PipelineAssumption
    <3>2. left' \in 0..MaxEntries
      BY DEF TypeOK
    <3>3. Owed' = left' + 1
      BY <2>1 DEF Owed, Busy
    <3> QED BY <2>1, <3>1, <3>2, <3>3
  <2>3. Busy' + Lost' = (Busy + Lost) + 1
    BY <1>1, <2>1
  <2>4. Owed \in Nat
    BY <1>3
  <2> QED BY <1>1, <2>1, <2>2, <2>3, <2>4, FitsMore
<1>9. CASE SendLine
  <2>1. /\ Lost' = Lost /\ Busy = 1 /\ Busy' = 1 /\ Owed \in Nat \ {0} /\ Owed' = Owed - 1
    BY <1>9, LineEffect, PipelineAssumption DEF Owed, Busy, Lost
  <2>2. CASE output' = output
    <3>1. Busy' + Lost' = Busy + Lost
      BY <2>1
    <3>2. Owed' \in 0..Owed
      BY <2>1
    <3> QED BY <1>5, <2>2, <3>1, <3>2
  <2>3. CASE /\ output' = Append(output, Reply(handled, "PROCESSING"))
             /\ Reply(handled, "PROCESSING") \in Replies
             /\ IsLast(Reply(handled, "PROCESSING")) = 0
    <3>1. /\ IsLast(Reply(handled, "PROCESSING")) + (Busy' + Lost') = Busy + Lost
          /\ Busy' + Lost' \in Nat /\ Busy' + Lost' # 0
      BY <1>1, <2>1, <2>3
    <3>2. Owed <= MaxEntries + 1
      BY <1>3
    <3> QED BY <1>1, <2>1, <2>3, <3>1, <3>2, FitsAppend
  <2> QED BY <1>9, <2>2, <2>3, LineEffect
<1>10. CASE SendAnswer
  <2>1. Busy = 1 /\ Busy' = 0 /\ Owed = 1 /\ Owed' = 0
    BY <1>10, AnswerEffect, PipelineAssumption DEF Owed, Busy
  <2>2. CASE Loses("dropped") /\ output' = output
    <3>1. Lost' = Lost + 1
      BY <1>1, <2>2, LosesOne DEF Cause
    <3> QED BY <1>1, <1>5, <2>1, <2>2, <3>1
  <2>3. CASE output' = Append(output, Reply(handled, slot)) /\ Reply(handled, slot) \in Replies
    <3>1. IsLast(Reply(handled, slot)) + (Busy' + Lost') = Busy + Lost /\ Busy' + Lost' \in Nat
      <4>1. CASE IsLast(Reply(handled, slot)) = 1 /\ lost' = lost
        <5>1. Lost' = Lost
          BY <4>1 DEF Lost
        <5> QED BY <1>1, <2>1, <4>1, <5>1
      <4>2. CASE IsLast(Reply(handled, slot)) = 0 /\ Loses("unended")
        <5>1. Lost' = Lost + 1
          BY <1>1, <4>2, LosesOne DEF Cause
        <5> QED BY <1>1, <2>1, <4>2, <5>1
      <4>3. ~(output' = output /\ Loses("dropped"))
        <5>1. Len(output') # Len(output)
          BY <1>1, <2>3, QueueSteps
        <5> QED BY <5>1
      <4> QED BY <1>10, <4>1, <4>2, <4>3, AnswerEffect
    <3>2. 1 \in Nat \ {0} /\ 1 <= MaxEntries + 1 /\ 1 - 1 = 0
      BY PipelineAssumption
    <3> QED BY <1>1, <2>1, <2>3, <3>1, <3>2, FitsAppend
  <2> QED BY <1>10, <2>2, <2>3, AnswerEffect
<1>11. CASE ControllerStops
  <2>1. CASE handled = NoChild
    <3>1. Owed' = 0 /\ Owed = 0 /\ Busy' = Busy /\ Lost' = Lost
      BY <1>11, <2>1 DEF ControllerStops, Owed, Busy, Lost
    <3> QED BY <1>1, <1>5, <1>11, <3>1 DEF ControllerStops
  <2>2. CASE handled # NoChild
    <3>1. Lost' = Lost + 1
      BY <1>1, <1>11, <2>2, LosesOne DEF ControllerStops, Cause
    <3>2. Busy = 1 /\ Busy' = 0 /\ Owed' = 0 /\ 0 \in 0..Owed
      BY <1>3, <1>11, <2>2 DEF ControllerStops, Busy, Owed
    <3> QED BY <1>1, <1>5, <1>11, <3>1, <3>2 DEF ControllerStops
  <2> QED BY <2>1, <2>2
<1>12. CASE Retry \/ StartController \/ UNCHANGED vars
  BY <1>4, <1>12 DEF Retry, StartController, vars
<1> QED BY <1>4, <1>6, <1>7, <1>8, <1>9, <1>10, <1>11, <1>12, QuietSteps
        DEF Next, ControllerStep, ChildStep, StaysCounted

\* A queue with room for all the answers drops none.
LEMMA RepliesFitStep ==
  ASSUME TypeOK, TypeOK', Conservation, RepliesBounded, RepliesFit, [Next]_vars
  PROVE  RepliesFit'
<1> USE DEF queueVars, childVars, controllerVars, historyVars
<1>1. room \in Nat /\ room' = room /\ lost \in [Cause -> Nat]
  BY PipelineAssumption DEF TypeOK, Next, vars, ControllerStep, ChildStep, Accept, ReadRequest,
     ReadNothing, SendRequest, Relay, ClientCloses, TakeRequest, Retry, SendLine, SendAnswer,
     ControllerStops, StartController
<1>2. ASSUME SendAnswer, Len(output) >= room, Loses("dropped"), output' = output
      PROVE  RepliesFit'
  <2>1. /\ Cardinality(UnservedIn(child)) \in Nat /\ Len(input) \in Nat
        /\ Cardinality(LastAfter(output, 0)) \in Nat /\ Lost \in Nat /\ Balance
    BY BalanceTypes
  <2>2. output \in Seq(Replies) /\ Len(output) \in Nat /\ MaxEntries + 1 \in Nat
    BY PipelineAssumption DEF TypeOK
  <2>3. Busy = 1 /\ Owed = 1
    BY <1>2, AnswerEffect, PipelineAssumption DEF Owed, Busy
  <2>4. (Len(output) - 0) + 1 <= (MaxEntries + 1) * (Cardinality(LastAfter(output, 0)) + (1 + Lost))
    BY <2>2, <2>3, BoundedIs DEF Fits
  <2>5. Cardinality(UnservedIn(child)) <= Cardinality(Child) /\ Cardinality(Child) \in Nat
    BY Counts DEF TypeOK, ChildState
  <2>6. Cardinality(LastAfter(output, 0)) + (1 + Lost) <= Cardinality(Child)
    BY <2>1, <2>3, <2>5 DEF Balance
  <2> DEFINE n == Cardinality(LastAfter(output, 0)) + (1 + Lost)
             k == Cardinality(Child)
             m == MaxEntries + 1
  <2>7. n \in Nat /\ k \in Nat /\ m \in Nat /\ n <= k
    BY <2>1, <2>2, <2>5, <2>6
  <2>8. Len(output) + 1 <= m * n
    BY <2>2, <2>4
  <2> HIDE DEF n, k, m
  <2>9. m * n <= m * k /\ m * n \in Nat /\ m * k \in Nat
    BY <2>7, Times
  <2>10. ~(room >= m * k)
    BY <1>1, <1>2, <2>2, <2>8, <2>9
  <2>11. (m * k)' = m * k
    BY DEF m, k
  <2> QED BY <1>1, <2>10 DEF RepliesFit, m, k
<1>3. CASE lost'["dropped"] = lost["dropped"]
  BY <1>1, <1>3 DEF RepliesFit
<1>4. \A k \in Cause : Loses(k) /\ k # "dropped" => lost'["dropped"] = lost["dropped"]
  BY <1>1 DEF Loses, Cause
<1>5. CASE lost' = lost
  BY <1>3, <1>5
<1>6. ASSUME NEW c \in Child, ChildStep(c) PROVE RepliesFit'
  <2>1. CASE SendRequest(c)
    BY <1>3, <1>4, <1>5, <2>1, SendEffect DEF StaysCounted, Cause
  <2>2. CASE Accept(c) \/ ReadRequest(c) \/ ReadNothing(c) \/ Relay(c) \/ ClientCloses(c)
    BY <1>5, <2>2 DEF Accept, ReadRequest, ReadNothing, Relay, ClientCloses
  <2> QED BY <1>6, <2>1, <2>2 DEF ChildStep
<1>7. CASE SendAnswer
  BY <1>2, <1>3, <1>4, <1>5, <1>7, AnswerEffect DEF Cause
<1>8. CASE ControllerStops
  BY <1>3, <1>4, <1>5, <1>8 DEF ControllerStops, Cause
<1>9. CASE TakeRequest \/ Retry \/ SendLine \/ StartController \/ UNCHANGED vars
  BY <1>5, <1>9 DEF TakeRequest, Retry, SendLine, StartController, vars
<1> QED BY <1>6, <1>7, <1>8, <1>9 DEF Next, ControllerStep

-----------------------------------------------------------------------------
(* One request at a time.                                                  *)

\* What is in a queue that moved up was in it, and so was the message that was read.
LEMMA TailElements ==
  ASSUME NEW S, NEW q \in Seq(S), q # <<>>
  PROVE  /\ \A i \in DOMAIN Tail(q) : i + 1 \in DOMAIN q /\ Tail(q)[i] = q[i + 1]
         /\ 1 \in DOMAIN q /\ Head(q) = q[1]
<1>1. /\ DOMAIN Tail(q) = 1..(Len(q) - 1) /\ DOMAIN q = 1..Len(q) /\ Len(q) \in Nat \ {0}
      /\ \A i \in 1..(Len(q) - 1) : Tail(q)[i] = q[i + 1]
  BY HeadTailProperties, LenProperties, EmptySeq
<1>2. \A i \in 1..(Len(q) - 1) : i + 1 \in 1..Len(q)
  BY <1>1
<1> QED BY <1>1, <1>2

\* What is in a queue with one message more was in it, or is that message.
LEMMA AppendElements ==
  ASSUME NEW S, NEW q \in Seq(S), NEW e \in S
  PROVE  \A i \in DOMAIN Append(q, e) :
           (i \in DOMAIN q /\ Append(q, e)[i] = q[i]) \/ Append(q, e)[i] = e
<1>1. /\ DOMAIN Append(q, e) = 1..(Len(q) + 1) /\ DOMAIN q = 1..Len(q) /\ Len(q) \in Nat
      /\ \A i \in 1..Len(q) : Append(q, e)[i] = q[i]
      /\ Append(q, e)[Len(q) + 1] = e
  <2>1. Append(q, e) \in Seq(S) /\ Len(Append(q, e)) = Len(q) + 1
    BY QueueSteps
  <2>2. DOMAIN Append(q, e) = 1..(Len(q) + 1) /\ DOMAIN q = 1..Len(q) /\ Len(q) \in Nat
    BY <2>1, LenProperties
  <2> QED BY <2>2
<1> QED BY <1>1

\* With nobody unserved there is nothing in the queues, and the controller is idle.
LEMMA NothingInFlight ==
  ASSUME TypeOK', Conservation', RepliesBounded', Cardinality(UnservedIn(child')) = 0
  PROVE  \A c \in Child : ~InFlight(c)'
<1>1. /\ Len(input') \in Nat /\ Busy' \in Nat
      /\ Cardinality(LastAfter(output', 0)) \in Nat /\ Lost' \in Nat
      /\ Balance'
  BY BalanceNext
<1>2. Len(input') = 0 /\ Busy' = 0 /\ Cardinality(LastAfter(output', 0)) = 0 /\ Lost' = 0
  BY <1>1 DEF Balance
<1>3. output' \in Seq(Replies) /\ input' \in Seq(Child) /\ Len(output') \in Nat
  BY DEF TypeOK
<1>4. handled' = NoChild /\ Owed' = 0
  BY <1>2 DEF Busy, Owed
<1>5. (Len(output') - 0) + 0 <= (MaxEntries + 1) * (0 + (0 + 0))
  BY <1>2, <1>3, <1>4, BoundedNext DEF Fits
<1>6. Len(output') = 0
  BY <1>3, <1>5, PipelineAssumption
<1>7. DOMAIN output' = {} /\ DOMAIN input' = {}
  BY <1>2, <1>3, <1>6
<1> QED BY <1>4, <1>7, PipelineAssumption DEF InFlight

\* Every action keeps to one request at a time, while requests do not overlap.
LEMMA OneAtATimeStep ==
  ASSUME TypeOK, TypeOK', Conservation, Conservation', RepliesBounded', OneAtATime, [Next]_vars
  PROVE  OneAtATime'
<1> USE DEF queueVars, childVars, controllerVars, historyVars
<1>1. SUFFICES ASSUME ~overlapped'
               PROVE  /\ \A c, d \in Active' : c = d
                      /\ \A c \in Child : InFlight(c)' => c \in Active'
  BY DEF OneAtATime
<1>2. ~overlapped
  <2>1. overlapped' = overlapped \/ \E c \in Child : ReadRequest(c)
    BY DEF Next, vars, ControllerStep, ChildStep, Accept, ReadNothing, SendRequest, Relay,
       ClientCloses, TakeRequest, Retry, SendLine, SendAnswer, ControllerStops, StartController
  <2>2. \A c \in Child : ReadRequest(c) => (overlapped => overlapped')
    BY Zenon DEF ReadRequest
  <2> QED BY <1>1, <2>1, <2>2
<1>3. /\ \A c, d \in Active : c = d
      /\ \A c \in Child : InFlight(c) => c \in Active
  BY <1>2 DEF OneAtATime
<1>4. /\ input \in Seq(Child) /\ output \in Seq(Replies) /\ child \in [Child -> ChildState]
      /\ child' \in [Child -> ChildState]
  BY DEF TypeOK, ChildState
<1>5. ASSUME Active' = Active, \A c \in Child : InFlight(c)' => InFlight(c)
      PROVE  /\ \A c, d \in Active' : c = d
             /\ \A c \in Child : InFlight(c)' => c \in Active'
  BY <1>3, <1>5
<1>6. CASE UNCHANGED <<input, output, child>> /\ handled' \in {handled, NoChild}
  <2>1. Active' = Active /\ \A c \in Child : InFlight(c)' => InFlight(c)
    BY <1>6, PipelineAssumption DEF Active, InFlight
  <2> QED BY <1>5, <2>1
<1>7. ASSUME NEW c \in Child, Accept(c) \/ ReadNothing(c) \/ ClientCloses(c)
      PROVE  /\ \A d, e \in Active' : d = e
             /\ \A d \in Child : InFlight(d)' => d \in Active'
  <2>1. Active' = Active
    BY <1>4, <1>7 DEF Active, Accept, ReadNothing, ClientCloses
  <2>2. \A d \in Child : InFlight(d)' => InFlight(d)
    BY <1>7 DEF InFlight, Accept, ReadNothing, ClientCloses
  <2> QED BY <1>5, <2>1, <2>2
<1>8. ASSUME NEW c \in Child, ReadRequest(c)
      PROVE  /\ \A d, e \in Active' : d = e
             /\ \A d \in Child : InFlight(d)' => d \in Active'
  <2>1. Quiet
    BY <1>1, <1>8, Zenon DEF ReadRequest
  <2>2. Active = {}
    BY <2>1 DEF Quiet, Active
  <2>3. \A d \in Child : ~InFlight(d)'
    BY <1>3, <1>8, <2>2 DEF InFlight, ReadRequest
  <2>4. \A d \in Active' : d = c
    BY <1>4, <1>8, <2>2 DEF Active, ReadRequest
  <2> QED BY <2>3, <2>4
<1>9. ASSUME NEW c \in Child, SendRequest(c)
      PROVE  /\ \A d, e \in Active' : d = e
             /\ \A d \in Child : InFlight(d)' => d \in Active'
  <2>1. c \in Active /\ Active' = Active
    BY <1>4, <1>9 DEF Active, SendRequest
  <2>2. \A i \in DOMAIN input' : (i \in DOMAIN input /\ input'[i] = input[i]) \/ input'[i] = c
    <3>1. input' = input \/ input' = Append(input, c)
      BY <1>9 DEF SendRequest
    <3>2. \A i \in DOMAIN Append(input, c) :
            (i \in DOMAIN input /\ Append(input, c)[i] = input[i]) \/ Append(input, c)[i] = c
      BY <1>4, AppendElements
    <3> QED BY <3>1, <3>2
  <2>3. \A d \in Child : InFlight(d)' => InFlight(d) \/ d = c
    <3>1. handled' = handled /\ output' = output
      BY <1>9 DEF SendRequest
    <3> QED BY <2>2, <3>1 DEF InFlight
  <2> QED BY <1>3, <2>1, <2>3
<1>10. ASSUME NEW c \in Child, Relay(c)
       PROVE  /\ \A d, e \in Active' : d = e
              /\ \A d \in Child : InFlight(d)' => d \in Active'
  <2>1. /\ c \in Active /\ Active' \subseteq Active
        /\ Head(output).status = "PROCESSING" => Active' = Active
        /\ Head(output).status # "PROCESSING" => c \notin Active'
    BY <1>4, <1>10 DEF Active, Relay, NextOf
  <2>2. output # <<>> /\ output' = Tail(output) /\ input' = input /\ handled' = handled
    BY <1>10, RelayEffect
  <2>3. \A d \in Child : InFlight(d)' => InFlight(d)
    <3>1. \A i \in DOMAIN output' : i + 1 \in DOMAIN output /\ output'[i] = output[i + 1]
      BY <1>4, <2>2, TailElements
    <3> QED BY <2>2, <3>1 DEF InFlight
  <2>4. CASE Head(output).status = "PROCESSING"
    BY <1>5, <2>1, <2>3, <2>4
  <2>5. CASE Head(output).status # "PROCESSING"
    <3>1. Active' = {}
      BY <1>3, <2>1, <2>5
    <3>2. UnservedIn(child') = {}
      BY <3>1 DEF Active, UnservedIn
    <3>3. \A d \in Child : ~InFlight(d)'
      BY <3>2, FS_EmptySet, NothingInFlight
    <3> QED BY <3>1, <3>3
  <2> QED BY <2>4, <2>5
<1>11. CASE TakeRequest
  <2>1. \A i \in DOMAIN input' : i + 1 \in DOMAIN input /\ input'[i] = input[i + 1]
    BY <1>4, <1>11, TailElements DEF TakeRequest
  <2>2. 1 \in DOMAIN input /\ handled' = input[1]
    BY <1>4, <1>11, TailElements DEF TakeRequest
  <2>3. \A d \in Child : InFlight(d)' => InFlight(d)
    BY <1>11, <2>1, <2>2 DEF InFlight, TakeRequest
  <2> QED BY <1>5, <1>11, <2>3 DEF TakeRequest, Active
<1>12. CASE SendLine \/ SendAnswer
  <2>1. PICK s \in Status : output' \in {output, Append(output, Reply(handled, s))}
    BY <1>12 DEF SendLine, SendAnswer, Status, TypeOK
  <2>2. handled \in Child /\ handled' \in {handled, NoChild} /\ input' = input /\ child' = child
    BY <1>12, LineEffect, AnswerEffect
  <2>3. Reply(handled, s) \in Replies /\ Reply(handled, s).owner = handled
    BY <2>2 DEF Reply, Replies
  <2>4. \A i \in DOMAIN output' :
          (i \in DOMAIN output /\ output'[i] = output[i]) \/ output'[i] = Reply(handled, s)
    BY <1>4, <2>1, <2>3, AppendElements
  <2>5. \A d \in Child : InFlight(d)' => InFlight(d)
    BY <2>2, <2>3, <2>4, PipelineAssumption DEF InFlight
  <2> QED BY <1>5, <2>2, <2>5 DEF Active
<1>13. CASE Retry \/ ControllerStops \/ StartController \/ UNCHANGED vars
  BY <1>6, <1>13 DEF Retry, ControllerStops, StartController, vars
<1> QED BY <1>7, <1>8, <1>9, <1>10, <1>11, <1>12, <1>13 DEF Next, ControllerStep, ChildStep

\* The reply a process relays is then for its own client.
LEMMA SerialStep ==
  ASSUME TypeOK, OneAtATime, SerialRepliesMatch, [Next]_vars
  PROVE  SerialRepliesMatch'
<1> USE DEF queueVars, childVars, controllerVars, historyVars
<1>1. CASE told' = told /\ (overlapped => overlapped')
  BY <1>1 DEF SerialRepliesMatch, OwnReplies
<1>2. ASSUME NEW c \in Child, Relay(c) PROVE SerialRepliesMatch'
  <2>1. SUFFICES ASSUME ~overlapped PROVE OwnReplies'
    BY <1>2 DEF SerialRepliesMatch, Relay
  <2>2. output \in Seq(Replies) /\ output # <<>> /\ told \in [Child -> Child \union {NoChild}]
    BY <1>2 DEF TypeOK, Relay
  <2>3. 1 \in DOMAIN output /\ Head(output) = output[1] /\ Head(output) \in Replies
    BY <2>2, TailElements, QueueSteps
  <2>4. Head(output).owner \in Child /\ InFlight(Head(output).owner)
    BY <2>3 DEF InFlight, Replies
  <2>5. c \in Active
    BY <1>2 DEF Relay, Active
  <2>6. Head(output).owner = c
    BY <2>1, <2>4, <2>5 DEF OneAtATime
  <2> QED BY <1>2, <2>1, <2>2, <2>6 DEF SerialRepliesMatch, OwnReplies, Relay
<1>3. ASSUME NEW c \in Child, ReadRequest(c) PROVE SerialRepliesMatch'
  <2>1. told' = told
    BY <1>3 DEF ReadRequest
  <2>2. overlapped => overlapped'
    BY <1>3, Zenon DEF ReadRequest
  <2> QED BY <1>1, <2>1, <2>2
<1>4. ASSUME NEW c \in Child, Accept(c) \/ ReadNothing(c) \/ SendRequest(c) \/ ClientCloses(c)
      PROVE  SerialRepliesMatch'
  BY <1>1, <1>4 DEF Accept, ReadNothing, SendRequest, ClientCloses
<1>5. CASE ControllerStep \/ ControllerStops \/ StartController \/ UNCHANGED vars
  BY <1>1, <1>5 DEF ControllerStep, TakeRequest, Retry, SendLine, SendAnswer, ControllerStops,
     StartController, vars
<1> QED BY <1>2, <1>3, <1>4, <1>5 DEF Next, ChildStep

-----------------------------------------------------------------------------
(* The theorems.                                                           *)

\* It holds at the start, when nobody waits and nothing is in the queues.
LEMMA AtStart == Init => IInv
<1> SUFFICES ASSUME Init PROVE IInv
  OBVIOUS
<1>1. TypeOK
  <2>1. /\ kind \in [Child -> Kind]
        /\ 0 \in {n \in 0..RetryCount : n < RetryCount \/ n = 0}
        /\ 0 \in 0..MaxRequests /\ 0 \in 0..MaxEntries /\ room \in Nat
    BY PipelineAssumption DEF Init
  <2>2. input \in Seq(Child) /\ output \in Seq(Replies) /\ Len(input) <= room /\ Len(output) <= room
    BY <2>1 DEF Init
  <2>3. /\ asked \in [Child -> 0..MaxRequests]
        /\ tries \in [Child -> {n \in 0..RetryCount : n < RetryCount \/ n = 0}]
        /\ attempts \in {n \in 0..RetryCount : n < RetryCount \/ n = 0}
        /\ left \in 0..MaxEntries /\ ~(left > 0)
    BY <2>1 DEF Init
  <2>4. /\ child \in [Child -> {"none", "reading", "sending", "waiting", "exited", "killed"}]
        /\ peer \in [Child -> {"open", "closed", "reset"}]
        /\ told \in [Child -> Child \union {NoChild}]
        /\ lost \in [Cause -> Nat]
    BY DEF Init
  <2>5. overlapped \in BOOLEAN
    BY DEF Init
  <2> QED BY <2>1, <2>2, <2>3, <2>4, <2>5 DEF Init, TypeOK
<1>2. /\ input = <<>> /\ output = <<>> /\ Len(input) = 0 /\ Len(output) = 0
      /\ Busy = 0 /\ Lost = 0 /\ Owed = 0
  BY DEF Init, Busy, Lost, Owed, Cause
<1>3. UnservedIn(child) = {} /\ LastAfter(output, 0) = {} /\ Active = {}
  BY <1>2 DEF Init, UnservedIn, LastAfter, Active
<1>4. Balance
  BY <1>2, <1>3, FS_EmptySet DEF Balance
<1>5. Conservation
  BY <1>1, <1>4, BalanceTypes
<1>6. RequestsFit /\ RepliesFit
  BY DEF Init, RequestsFit, RepliesFit, Cause
<1>7. RepliesBounded
  <2>1. (0 - 0) + 0 <= (MaxEntries + 1) * (0 + (0 + 0))
    BY PipelineAssumption
  <2>2. \A j \in 0..Len(output) : Fits(output, j, Owed, Busy + Lost)
    BY <1>2, <1>3, <2>1, FS_EmptySet DEF Fits
  <2> QED BY <1>1, <2>2, BoundedIs
<1>8. OneAtATime
  <2>1. \A c \in Child : ~InFlight(c)
    BY <1>2, PipelineAssumption DEF Init, InFlight
  <2> QED BY <1>3, <2>1 DEF OneAtATime
<1>9. SerialRepliesMatch
  BY DEF Init, SerialRepliesMatch, OwnReplies
<1> QED BY <1>1, <1>5, <1>6, <1>7, <1>8, <1>9 DEF IInv

\* What is under way always matches those who wait, and the bounds and the order of
\* requests that follow from it are kept by every step of the processes, the
\* controller and its crashes.
THEOREM Invariance == Spec => []IInv
<1>1. IInv /\ [Next]_vars => IInv'
  <2> SUFFICES ASSUME IInv, [Next]_vars PROVE IInv'
    OBVIOUS
  <2> USE DEF IInv
  <2>1. TypeOK'
    BY TypeStep
  <2>2. Conservation'
    BY <2>1, ConservationStep
  <2>3. RequestsFit'
    BY <2>1, RequestsFitStep
  <2>4. RepliesBounded'
    BY <2>1, RepliesBoundedStep
  <2>5. RepliesFit'
    BY <2>1, RepliesFitStep
  <2>6. OneAtATime'
    BY <2>1, <2>2, <2>4, OneAtATimeStep
  <2>7. SerialRepliesMatch'
    BY SerialStep
  <2> QED BY <2>1, <2>2, <2>3, <2>4, <2>5, <2>6, <2>7
<1> QED BY <1>1, AtStart, PTL DEF Spec

\* Every variable keeps its type: no queue grows beyond its room.
THEOREM TypeCorrect == Spec => []TypeOK
BY Invariance, PTL DEF IInv

\* Every process that waits has its last reply under way, or its request is accounted
\* for as lost.
THEOREM Conserved == Spec => []Conservation
BY Invariance, PTL DEF IInv

\* A queue with room for one request of each process never refuses one.
THEOREM RequestsAccepted == Spec => []RequestsFit
BY Invariance, PTL DEF IInv

\* A queue with room for the longest answer to each process never drops a reply.
THEOREM RepliesKept == Spec => []RepliesFit
BY Invariance, PTL DEF IInv

\* Clients that wait for each other's last replies are sent their own.
THEOREM SerialMatch == Spec => []SerialRepliesMatch
BY Invariance, PTL DEF IInv

=============================================================================
