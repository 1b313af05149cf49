---------------------------- MODULE ConnectionProofs ----------------------------
(***************************************************************************)
(* Theorems about Connection, for buffers of every size and every way to   *)
(* start the client.                                                       *)
(***************************************************************************)
EXTENDS Connection, Integers, SequenceTheorems, TLAPS

-----------------------------------------------------------------------------
(* Streams.                                                                *)

\* The first n parts of a stream, and what comes after them.
LEMMA Parts ==
  ASSUME NEW S, NEW stream \in Seq(S), NEW n \in 0..Len(stream)
  PROVE  /\ SubSeq(stream, 1, n) \in Seq(S)
         /\ Len(SubSeq(stream, 1, n)) = n
         /\ \A i \in 1..n : SubSeq(stream, 1, n)[i] = stream[i]
         /\ Rest(stream, n) \in Seq(S)
         /\ Len(Rest(stream, n)) = Len(stream) - n
         /\ \A i \in 1..(Len(stream) - n) : Rest(stream, n)[i] = stream[n + i]
  BY DEF Rest

\* What send leaves in the buffers: a beginning of what there was and is to be sent,
\* all of it if no part is cut.
LEMMA SendsType ==
  ASSUME NEW S, NEW stream \in Seq(S), NEW data \in Seq(S), Len(stream) <= Room
  PROVE  /\ Sends(stream, data) \in Seq(S)
         /\ Len(Sends(stream, data)) = IF Len(stream) + Len(data) > Room THEN Room ELSE Len(stream) + Len(data)
         /\ \A i \in 1..Len(Sends(stream, data)) :
              Sends(stream, data)[i] = IF i <= Len(stream) THEN stream[i] ELSE data[i - Len(stream)]
<1> DEFINE all == stream \o data
           n == IF Len(stream) + Len(data) > Room THEN Room ELSE Len(stream) + Len(data)
<1>1. /\ all \in Seq(S)
      /\ Len(all) = Len(stream) + Len(data)
      /\ \A i \in 1..(Len(stream) + Len(data)) :
           all[i] = IF i <= Len(stream) THEN stream[i] ELSE data[i - Len(stream)]
  BY ConcatProperties
<1>2. Sends(stream, data) = SubSeq(all, 1, n)
  BY DEF Sends
<1>3. n \in 0..(Len(stream) + Len(data))
  BY ConnectionAssumption
<1> HIDE DEF all, n
<1>4. /\ SubSeq(all, 1, n) \in Seq(S)
      /\ Len(SubSeq(all, 1, n)) = n
      /\ \A i \in 1..n : SubSeq(all, 1, n)[i] = all[i]
  BY <1>1, <1>3, Parts
<1>5. ASSUME NEW i \in 1..n
      PROVE  SubSeq(all, 1, n)[i] = IF i <= Len(stream) THEN stream[i] ELSE data[i - Len(stream)]
  BY <1>1, <1>3, <1>4
<1> QED BY <1>2, <1>4, <1>5 DEF n

\* Requests and replies are two parts.
LEMMA TransactionType ==
  /\ Request \in Seq({"head", "rest"}) /\ Len(Request) = 2 /\ Request[1] = "head" /\ Request[2] = "rest"
  /\ \A s \in Status :
       Reply(s) \in Seq(Status \union {"rest"}) /\ Len(Reply(s)) = 2 /\ Reply(s)[1] = s
  BY DEF Request, Reply

-----------------------------------------------------------------------------
(* Types.                                                                  *)

\* What the client does after a call of connection_read is one of the things it does.
LEMMA AfterReadType ==
  ASSUME TypeOK, client = "reading", NEW ok, NEW s \in Status, AfterRead(ok, s)
  PROVE  /\ reply' \in Status
         /\ client' \in {"reading", "sleeping", "done"}
         /\ exit' \in {"none", "success", "failure"}
         /\ exit' # "none" <=> client' = "done"
         /\ kind = "COMMAND" => client' = "done" /\ exit' = IF Believes(ok, s) THEN "success" ELSE "failure"
BY DEF AfterRead, Exits, TypeOK

\* Every action keeps the types.
LEMMA TypeStep == TypeOK /\ [Next]_vars => TypeOK'
<1> SUFFICES ASSUME TypeOK, [Next]_vars PROVE TypeOK'
  OBVIOUS
<1> USE DEF clientVars, serverVars, streamVars, traceVars
<1>1. CASE UNCHANGED vars
  BY <1>1 DEF vars, TypeOK
<1>2. CASE Connect
  BY <1>2 DEF Connect, Exits, TypeOK
<1>3. CASE Send
  <2>1. /\ Sends(up, Request) \in Seq({"head", "rest"})
        /\ Len(Sends(up, Request)) <= Room
    BY SendsType, TransactionType, ConnectionAssumption DEF TypeOK
  <2>2. up' \in Seq({"head", "rest"}) /\ Len(up') <= Room
    BY <1>3, <2>1 DEF Send, TypeOK
  <2>3. cut' \in BOOLEAN
    BY <1>3, Zenon DEF Send, Cuts, TypeOK
  <2> QED BY <1>3, <2>2, <2>3 DEF Send, Cleared, Status, TypeOK
<1>4. CASE TimeOut
  <2>1. reply \in Status /\ client = "reading" /\ AfterRead(FALSE, reply)
    BY <1>4 DEF TimeOut, TypeOK
  <2> QED BY <1>4, <2>1, AfterReadType DEF TimeOut, TypeOK
<1>5. CASE ReadEnd
  <2>1. Zeroed(reply) \in Status /\ client = "reading" /\ AfterRead(FALSE, Zeroed(reply))
    BY <1>5 DEF ReadEnd, Zeroed, Status
  <2> QED BY <1>5, <2>1, AfterReadType DEF ReadEnd, TypeOK
<1>6. CASE ReadReply
  <2>1. PICK n \in Found(down) : \E s \in StatusOf(down[1]) : down' = Rest(down, n) /\ AfterRead(n = 2, s)
    BY <1>6 DEF ReadReply
  <2>2. PICK s \in StatusOf(down[1]) : down' = Rest(down, n) /\ AfterRead(n = 2, s)
    BY <2>1
  <2>3. s \in Status /\ client = "reading"
    BY <1>6 DEF StatusOf, ReadReply
  <2>4. n \in 0..Len(down) /\ down \in Seq(Status \union {"rest"}) /\ Len(down) <= Room
    BY DEF Found, TypeOK
  <2>5. down' \in Seq(Status \union {"rest"}) /\ Len(down') = Len(down) - n
    BY <2>2, <2>4, Parts
  <2>6. Len(down') <= Room
    BY <2>4, <2>5, ConnectionAssumption
  <2>7. /\ reply' \in Status
        /\ client' \in {"reading", "sleeping", "done"}
        /\ exit' \in {"none", "success", "failure"}
        /\ exit' # "none" <=> client' = "done"
    BY <2>2, <2>3, AfterReadType
  <2> QED BY <1>6, <2>5, <2>6, <2>7 DEF ReadReply, TypeOK
<1>7. CASE Finish
  BY <1>7 DEF Finish, Exits, TypeOK
<1>8. CASE Accept \/ EndRequests \/ OthersChange \/ AcceptorStops
  <2>1. CASE Accept
    BY <2>1 DEF Accept, TypeOK
  <2>2. CASE EndRequests
    BY <2>2 DEF EndRequests, TypeOK
  <2>3. CASE OthersChange
    BY <2>3 DEF OthersChange, TypeOK
  <2>4. CASE AcceptorStops
    BY <2>4 DEF AcceptorStops, TypeOK
  <2> QED BY <1>8, <2>1, <2>2, <2>3, <2>4
<1>9. CASE ReadRequest
  <2>1. PICK n \in Found(up) : /\ up' = Rest(up, n)
                               /\ server' = AfterRequest(n)
                               /\ misread' = (misread \/ (n = 2 /\ SubSeq(up, 1, 2) # Request))
    BY <1>9 DEF ReadRequest
  <2>2. n \in 0..Len(up) /\ up \in Seq({"head", "rest"}) /\ Len(up) <= Room
    BY DEF Found, TypeOK
  <2>3. up' \in Seq({"head", "rest"}) /\ Len(up') = Len(up) - n
    BY <2>1, <2>2, Parts
  <2>4. Len(up') <= Room
    BY <2>2, <2>3, ConnectionAssumption
  <2>5. server' \in {"waiting", "ended"}
    BY <2>1 DEF AfterRequest
  <2>6. misread' \in BOOLEAN
    BY <2>1, Zenon DEF TypeOK
  <2> QED BY <1>9, <2>3, <2>4, <2>5, <2>6 DEF ReadRequest, TypeOK
<1>10. CASE Relay
  <2>1. ASSUME NEW s \in Status
        PROVE  /\ Sends(down, Reply(s)) \in Seq(Status \union {"rest"})
               /\ Len(Sends(down, Reply(s))) <= Room
    BY <2>1, SendsType, TransactionType, ConnectionAssumption DEF TypeOK
  <2>2. /\ down' \in Seq(Status \union {"rest"}) /\ Len(down') <= Room
        /\ server' \in {"waiting", "reading", "killed"}
    BY <1>10, <2>1 DEF Relay, TypeOK
  <2>3. resets' \subseteq {"client", "server"}
    BY <1>10 DEF Relay, TypeOK
  <2>4. told' \in BOOLEAN /\ cut' \in BOOLEAN
    BY <1>10, Zenon DEF Relay, Cuts, TypeOK
  <2> QED BY <1>10, <2>2, <2>3, <2>4 DEF Relay, TypeOK
<1> QED BY <1>1, <1>2, <1>3, <1>4, <1>5, <1>6, <1>7, <1>8, <1>9, <1>10 DEF Next, ClientRuns

-----------------------------------------------------------------------------
(* The parts of the invariant.                                             *)

\* The server has no process for a client that has not connected, and a command's
\* client never waits for a second reply.
LEMMA OnceStep ==
  TypeOK /\ NothingBefore /\ CommandReadsOnce /\ [Next]_vars => NothingBefore' /\ CommandReadsOnce'
<1> SUFFICES ASSUME TypeOK, NothingBefore, CommandReadsOnce, [Next]_vars
             PROVE  NothingBefore' /\ CommandReadsOnce'
  OBVIOUS
<1> USE DEF clientVars, serverVars, streamVars, traceVars, NothingBefore, CommandReadsOnce
<1>1. CASE UNCHANGED vars
  BY <1>1 DEF vars
<1>2. CASE Connect \/ Send \/ Finish
  BY <1>2 DEF Connect, Send, Finish, Exits
<1>3. CASE TimeOut \/ ReadEnd \/ ReadReply
  <2>1. client = "reading" /\ kind' = kind /\ \E ok, s : AfterRead(ok, s)
    BY <1>3 DEF TimeOut, ReadEnd, ReadReply
  <2> QED BY <2>1 DEF AfterRead, Exits
<1>4. CASE Accept \/ ReadRequest \/ EndRequests \/ Relay \/ OthersChange \/ AcceptorStops
  BY <1>4 DEF Accept, ReadRequest, EndRequests, Relay, OthersChange, AcceptorStops
<1> QED BY <1>1, <1>2, <1>3, <1>4 DEF Next, ClientRuns

\* The first reply on the way to a command's client begins with a status it was told.
LEMMA FirstStep == IInv /\ [Next]_vars => FirstReply'
<1> SUFFICES ASSUME IInv, [Next]_vars PROVE FirstReply'
  OBVIOUS
<1> USE DEF IInv, clientVars, serverVars, streamVars, traceVars
<1>1. CASE UNCHANGED vars
  BY <1>1 DEF vars, FirstReply, ClientGone
<1>2. CASE Connect
  BY <1>2 DEF Connect, NothingBefore, FirstReply
<1>3. CASE Send \/ Finish
  BY <1>3 DEF Send, Finish, FirstReply, ClientGone
<1>4. CASE TimeOut \/ ReadEnd \/ ReadReply
  <2>1. client = "reading" /\ kind' = kind /\ \E ok, s : AfterRead(ok, s)
    BY <1>4 DEF TimeOut, ReadEnd, ReadReply
  <2> QED BY <2>1 DEF AfterRead, Exits, FirstReply, ClientGone
<1>5. CASE Accept \/ ReadRequest \/ EndRequests \/ OthersChange \/ AcceptorStops
  BY <1>5 DEF Accept, ReadRequest, EndRequests, OthersChange, AcceptorStops, FirstReply, ClientGone
<1>6. CASE Relay
  <2>1. CASE down' = down
    <3>1. client' = client /\ kind' = kind
      BY <1>6 DEF Relay
    <3>2. told => told'
      BY <1>6, Zenon DEF Relay
    <3> QED BY <2>1, <3>1, <3>2 DEF FirstReply, ClientGone
  <2>2. CASE down' # down
    <3>1. PICK s \in Status : down' = Sends(down, Reply(s)) /\ told' = (told \/ s # "FAILURE")
      BY <1>6, <2>2 DEF Relay
    <3>2. /\ down \in Seq(Status \union {"rest"}) /\ Len(down) <= Room
          /\ Reply(s) \in Seq(Status \union {"rest"}) /\ Reply(s)[1] = s
      BY TransactionType DEF TypeOK
    <3>3. /\ down' \in Seq(Status \union {"rest"})
          /\ \A i \in 1..Len(down') : down'[i] = IF i <= Len(down) THEN down[i] ELSE Reply(s)[i - Len(down)]
      BY <3>1, <3>2, SendsType
    <3>4. SUFFICES ASSUME kind = "COMMAND", ~ClientGone, down' # <<>>
                   PROVE  down'[1] \in Status /\ (down'[1] # "FAILURE" => told')
      BY <1>6 DEF Relay, FirstReply, ClientGone
    <3>5. 1 \in 1..Len(down')
      BY <3>3, <3>4
    <3>6. CASE down = <<>>
      <4>1. down'[1] = s
        BY <3>2, <3>3, <3>5, <3>6
      <4>2. s # "FAILURE" => told'
        BY <3>1, Zenon
      <4> QED BY <4>1, <4>2
    <3>7. CASE down # <<>>
      <4>1. down'[1] = down[1]
        BY <3>2, <3>3, <3>5, <3>7
      <4>2. told => told'
        BY <3>1, Zenon
      <4> QED BY <3>4, <3>7, <4>1, <4>2 DEF FirstReply
    <3> QED BY <3>6, <3>7
  <2> QED BY <2>1, <2>2
<1> QED BY <1>1, <1>2, <1>3, <1>4, <1>5, <1>6 DEF Next, ClientRuns

\* A request that is sent whole leaves the stream whole.
LEMMA WholeAfterSend ==
  ASSUME NEW stream \in Seq({"head", "rest"}), IsWhole(stream), Len(stream) + 2 <= Room
  PROVE  IsWhole(Sends(stream, Request))
<1> DEFINE sent == Sends(stream, Request)
<1>1. PICK k \in 0..Len(stream) :
        /\ Len(stream) = 2 * k
        /\ \A j \in 1..k : stream[2 * j - 1] = "head" /\ stream[2 * j] = "rest"
  BY DEF IsWhole
<1>2. Room \in Nat /\ Len(stream) <= Room
  BY ConnectionAssumption
<1>3. /\ Len(sent) = IF Len(stream) + Len(Request) > Room THEN Room ELSE Len(stream) + Len(Request)
      /\ \A i \in 1..Len(sent) : sent[i] = IF i <= Len(stream) THEN stream[i] ELSE Request[i - Len(stream)]
  <2>1. Request \in Seq({"head", "rest"})
    BY TransactionType
  <2> QED BY <1>2, <2>1, SendsType
<1> HIDE DEF sent
<1>4. Len(sent) = 2 * k + 2
  BY <1>1, <1>2, <1>3, TransactionType
<1>5. \A i \in 1..(2 * k + 2) : sent[i] = IF i <= 2 * k THEN stream[i] ELSE Request[i - 2 * k]
  BY <1>1, <1>3, <1>4
<1>6. ASSUME NEW j \in 1..(k + 1) PROVE sent[2 * j - 1] = "head" /\ sent[2 * j] = "rest"
  <2>1. CASE j = k + 1
    <3>1. 2 * j - 1 = 2 * k + 1 /\ 2 * j = 2 * k + 2
      BY <2>1
    <3>2. sent[2 * k + 1] = Request[(2 * k + 1) - 2 * k] /\ sent[2 * k + 2] = Request[(2 * k + 2) - 2 * k]
      BY <1>5
    <3> QED BY <3>1, <3>2, TransactionType
  <2>2. CASE j # k + 1
    <3>1. j \in 1..k /\ 2 * j - 1 \in 1..(2 * k + 2) /\ 2 * j \in 1..(2 * k + 2) /\ 2 * j <= 2 * k /\ 2 * j - 1 <= 2 * k
      BY <2>2
    <3> QED BY <1>1, <1>5, <3>1
  <2> QED BY <2>1, <2>2
<1>7. k + 1 \in 0..Len(sent) /\ Len(sent) = 2 * (k + 1)
  BY <1>4
<1>8. IsWhole(sent)
  BY <1>6, <1>7 DEF IsWhole
<1> QED BY <1>8 DEF sent

\* What a process reads of a whole stream is a request, and leaves the stream whole.
LEMMA WholeAfterRead ==
  ASSUME NEW stream \in Seq({"head", "rest"}), IsWhole(stream), 2 <= Len(stream)
  PROVE  SubSeq(stream, 1, 2) = Request /\ IsWhole(Rest(stream, 2))
<1>1. PICK k \in 0..Len(stream) :
        /\ Len(stream) = 2 * k
        /\ \A j \in 1..k : stream[2 * j - 1] = "head" /\ stream[2 * j] = "rest"
  BY DEF IsWhole
<1>2. 1 \in 1..k /\ 2 * 1 - 1 = 1 /\ 2 * 1 = 2
  BY <1>1
<1>3. stream[1] = "head" /\ stream[2] = "rest"
  BY <1>1, <1>2
<1> DEFINE left == Rest(stream, 2)
           two == SubSeq(stream, 1, 2)
<1>4. /\ two \in Seq({"head", "rest"}) /\ Len(two) = 2 /\ \A i \in 1..2 : two[i] = stream[i]
      /\ Len(left) = 2 * k - 2 /\ \A i \in 1..(2 * k - 2) : left[i] = stream[2 + i]
  <2>1. 2 \in 0..Len(stream) /\ Len(stream) - 2 = 2 * k - 2
    BY <1>1
  <2>2. two \in Seq({"head", "rest"}) /\ Len(two) = 2 /\ \A i \in 1..2 : two[i] = stream[i]
    OBVIOUS
  <2>3. Len(left) = Len(stream) - 2 /\ \A i \in 1..(Len(stream) - 2) : left[i] = stream[2 + i]
    <3>1. \A n \in 0..Len(stream) :
            /\ Len(Rest(stream, n)) = Len(stream) - n
            /\ \A i \in 1..(Len(stream) - n) : Rest(stream, n)[i] = stream[n + i]
      BY Parts
    <3> QED BY <2>1, <3>1
  <2> HIDE DEF left, two
  <2> QED BY <2>1, <2>2, <2>3
<1> HIDE DEF left, two
<1>5. two = Request
  <2>1. two \in Seq({"head", "rest"}) /\ Len(two) = 2 /\ two[1] = "head" /\ two[2] = "rest"
    BY <1>3, <1>4
  <2> QED BY <2>1 DEF Request
<1>6. ASSUME NEW j \in 1..(k - 1) PROVE left[2 * j - 1] = "head" /\ left[2 * j] = "rest"
  <2>1. /\ j + 1 \in 1..k /\ 2 * j - 1 \in 1..(2 * k - 2) /\ 2 * j \in 1..(2 * k - 2)
        /\ 2 * (j + 1) - 1 = 2 + (2 * j - 1) /\ 2 * (j + 1) = 2 + 2 * j
    OBVIOUS
  <2>2. left[2 * j - 1] = stream[2 * (j + 1) - 1] /\ left[2 * j] = stream[2 * (j + 1)]
    BY <1>4, <2>1
  <2> QED BY <1>1, <2>1, <2>2
<1>7. k - 1 \in 0..Len(left) /\ Len(left) = 2 * (k - 1)
  BY <1>2, <1>4
<1>8. IsWhole(left)
  BY <1>6, <1>7 DEF IsWhole
<1> QED BY <1>5, <1>8 DEF left, two

\* The client's requests stay whole on their way, until a send is cut or the process
\* that reads them has ended.
LEMMA WholeStep == IInv /\ [Next]_vars => WholeRequests'
<1> SUFFICES ASSUME IInv, [Next]_vars, ~cut', server' \notin {"ended", "killed"} PROVE IsWhole(up')
  BY DEF WholeRequests, IsWhole
<1> USE DEF clientVars, serverVars, streamVars, traceVars
<1>1. up \in Seq({"head", "rest"}) /\ Len(up) <= Room /\ Room \in Nat
  BY ConnectionAssumption DEF IInv, TypeOK
<1>2. ~cut /\ server \notin {"ended", "killed"} => IsWhole(up)
  BY DEF IInv, WholeRequests
<1>3. CASE UNCHANGED vars
  BY <1>2, <1>3 DEF vars
<1>4. CASE Connect
  BY <1>2, <1>4 DEF Connect, IInv, NothingBefore
<1>5. CASE Send
  <2>1. server' = server /\ (up' = up \/ (up' = Sends(up, Request) /\ Cuts(up, Request)))
    BY <1>5 DEF Send
  <2>2. CASE up' = up
    <3>1. ~cut
      BY <1>5, Zenon DEF Send, Cuts
    <3> QED BY <1>2, <2>1, <2>2, <3>1
  <2>3. CASE up' = Sends(up, Request) /\ Cuts(up, Request)
    <3>1. ~cut /\ ~(Len(up) + Len(Request) > Room)
      BY <2>3, Zenon DEF Cuts
    <3>2. Len(up) + 2 <= Room
      BY <1>1, <3>1, TransactionType
    <3> QED BY <1>1, <1>2, <2>1, <2>3, <3>1, <3>2, WholeAfterSend
  <2> QED BY <2>1, <2>2, <2>3
<1>6. CASE TimeOut \/ ReadEnd \/ ReadReply \/ Finish
  BY <1>2, <1>6 DEF TimeOut, ReadEnd, ReadReply, Finish
<1>7. CASE Accept \/ EndRequests \/ OthersChange \/ AcceptorStops
  BY <1>2, <1>7 DEF Accept, EndRequests, OthersChange, AcceptorStops
<1>8. CASE ReadRequest
  <2>1. PICK n \in Found(up) : up' = Rest(up, n) /\ server' = AfterRequest(n)
    BY <1>8 DEF ReadRequest
  <2>2. n = 2 /\ 2 <= Len(up) /\ ~cut /\ server = "reading"
    BY <1>8, <2>1 DEF Found, AfterRequest, ReadRequest
  <2> QED BY <1>1, <1>2, <2>1, <2>2, WholeAfterRead
<1>9. CASE Relay
  <2>1. up' = up /\ server = "waiting"
    BY <1>9 DEF Relay
  <2>2. ~cut
    BY <1>9, Zenon DEF Relay, Cuts
  <2> QED BY <1>2, <2>1, <2>2
<1> QED BY <1>3, <1>4, <1>5, <1>6, <1>7, <1>8, <1>9 DEF Next, ClientRuns

\* A process that reads what no client sent has a stream that was cut.
LEMMA DispatchStep == IInv /\ [Next]_vars => DispatchesRequests'
<1> SUFFICES ASSUME IInv, [Next]_vars PROVE DispatchesRequests'
  OBVIOUS
<1> USE DEF clientVars, serverVars, streamVars, traceVars
<1>1. misread => cut
  BY DEF IInv, DispatchesRequests
<1>2. CASE UNCHANGED vars
  BY <1>1, <1>2 DEF vars, DispatchesRequests
<1>3. CASE Connect \/ TimeOut \/ ReadEnd \/ ReadReply \/ Finish
  BY <1>1, <1>3 DEF Connect, TimeOut, ReadEnd, ReadReply, Finish, DispatchesRequests
<1>4. CASE Accept \/ EndRequests \/ OthersChange \/ AcceptorStops
  BY <1>1, <1>4 DEF Accept, EndRequests, OthersChange, AcceptorStops, DispatchesRequests
<1>5. CASE Send \/ Relay
  <2>1. misread' = misread
    BY <1>5 DEF Send, Relay
  <2>2. cut => cut'
    BY <1>5, Zenon DEF Send, Relay, Cuts
  <2> QED BY <1>1, <2>1, <2>2 DEF DispatchesRequests
<1>6. CASE ReadRequest
  <2>1. PICK n \in Found(up) : misread' = (misread \/ (n = 2 /\ SubSeq(up, 1, 2) # Request))
    BY <1>6 DEF ReadRequest
  <2>2. cut' = cut /\ server = "reading"
    BY <1>6 DEF ReadRequest
  <2>3. ASSUME n = 2, SubSeq(up, 1, 2) # Request, ~cut PROVE FALSE
    <3>1. up \in Seq({"head", "rest"}) /\ IsWhole(up)
      BY <2>2, <2>3 DEF IInv, TypeOK, WholeRequests
    <3>2. 2 <= Len(up)
      BY <2>3 DEF Found
    <3> QED BY <2>3, <3>1, <3>2, WholeAfterRead
  <2>4. misread' => misread \/ (n = 2 /\ SubSeq(up, 1, 2) # Request)
    BY <2>1, Zenon
  <2> QED BY <1>1, <2>2, <2>3, <2>4 DEF DispatchesRequests
<1> QED BY <1>2, <1>3, <1>4, <1>5, <1>6 DEF Next, ClientRuns

\* A command's client believes only a whole reply, and the first one it finds is one
\* that it was sent.
LEMMA SuccessStep == IInv /\ [Next]_vars => SuccessIsTold'
<1> SUFFICES ASSUME IInv, [Next]_vars PROVE SuccessIsTold'
  OBVIOUS
<1> USE DEF IInv, clientVars, serverVars, streamVars, traceVars
<1>1. CASE UNCHANGED vars
  BY <1>1 DEF vars, SuccessIsTold
<1>2. CASE Connect
  BY <1>2 DEF Connect, Exits, NothingBefore, SuccessIsTold, TypeOK
<1>3. CASE Send \/ Finish
  BY <1>3 DEF Send, Finish, Exits, SuccessIsTold
<1>4. CASE Accept \/ EndRequests \/ OthersChange \/ AcceptorStops \/ ReadRequest
  BY <1>4 DEF Accept, EndRequests, OthersChange, AcceptorStops, ReadRequest, SuccessIsTold
<1>5. CASE TimeOut \/ ReadEnd
  <2>1. client = "reading" /\ kind' = kind /\ \E s \in Status : AfterRead(FALSE, s)
    BY <1>5 DEF TimeOut, ReadEnd, Zeroed, Status, TypeOK
  <2>2. kind = "COMMAND" => exit' = "failure"
    BY <2>1, AfterReadType DEF Believes
  <2> QED BY <2>1, <2>2 DEF SuccessIsTold
<1>6. CASE ReadReply
  <2>1. PICK n \in Found(down) : \E s \in StatusOf(down[1]) : AfterRead(n = 2, s)
    BY <1>6 DEF ReadReply
  <2>2. PICK s \in StatusOf(down[1]) : AfterRead(n = 2, s)
    BY <2>1
  <2>3. client = "reading" /\ kind' = kind /\ told' = told /\ s \in Status
    BY <1>6 DEF ReadReply, StatusOf
  <2>4. SUFFICES ASSUME kind = "COMMAND", exit' = "success" PROVE told
    BY <2>3 DEF SuccessIsTold
  <2>5. s # "FAILURE"
    BY <2>2, <2>3, <2>4, AfterReadType DEF Believes
  <2>6. down # <<>> /\ ~ClientGone
    BY <2>3 DEF Found, ClientGone, TypeOK
  <2>7. down[1] \in Status /\ (down[1] # "FAILURE" => told)
    BY <2>4, <2>6 DEF FirstReply
  <2> QED BY <2>5, <2>7 DEF StatusOf
<1>7. CASE Relay
  <2>1. kind' = kind /\ exit' = exit /\ server # "none"
    BY <1>7 DEF Relay
  <2>2. told => told'
    BY <1>7, Zenon DEF Relay
  <2> QED BY <2>1, <2>2 DEF SuccessIsTold
<1> QED BY <1>1, <1>2, <1>3, <1>4, <1>5, <1>6, <1>7 DEF Next, ClientRuns

-----------------------------------------------------------------------------
(* The theorems.                                                           *)

\* What the client has read and been told, and what is on the way to the server,
\* agree in every state.
THEOREM Invariance == Spec => []IInv
<1>1. Init => IInv
  <2> SUFFICES ASSUME Init PROVE IInv
    OBVIOUS
  <2>1. TypeOK
    <3>1. up \in Seq({"head", "rest"}) /\ Len(up) <= Room /\ down \in Seq(Status \union {"rest"}) /\ Len(down) <= Room
      BY ConnectionAssumption DEF Init
    <3> QED BY <3>1 DEF Init, TypeOK, Status
  <2>2. IsWhole(up)
    BY DEF Init, IsWhole
  <2> QED BY <2>1, <2>2 DEF Init, IInv, NothingBefore, CommandReadsOnce, FirstReply, WholeRequests,
                            DispatchesRequests, SuccessIsTold
<1>2. IInv /\ [Next]_vars => IInv'
  BY TypeStep, OnceStep, FirstStep, WholeStep, DispatchStep, SuccessStep DEF IInv
<1> QED BY <1>1, <1>2, PTL DEF Spec

\* The buffers never hold more than they have room for, and an exit status is there
\* when the client has ended by itself.
THEOREM TypeCorrect == Spec => []TypeOK
<1>1. IInv => TypeOK
  BY DEF IInv
<1> QED BY <1>1, Invariance, PTL

\* The process for a client takes nothing for a request that the client did not send,
\* however its requests are cut into segments, unless a send was cut short.
THEOREM RequestsWhole == Spec => []DispatchesRequests
<1>1. IInv => DispatchesRequests
  BY DEF IInv
<1> QED BY <1>1, Invariance, PTL

\* A client that was started for a command and exits with success was told so.
THEOREM SuccessHonest == Spec => []SuccessIsTold
<1>1. IInv => SuccessIsTold
  BY DEF IInv
<1> QED BY <1>1, Invariance, PTL

=============================================================================
