--------------------------- MODULE RequestPipeline ---------------------------
(***************************************************************************)
(* How a request travels: a client's connection, the server process forked *)
(* for it (server/upstream/server.c), the System V queue to the controller *)
(* process, its main loop (server/downstream/controller.c) and the queue   *)
(* back.  Both queues are bounded; a sender that finds one full retries a  *)
(* number of times and then drops its message (send_message_local), which  *)
(* no caller looks at.  Replies carry no address: a server process relays  *)
(* whatever reply it reads, until one is not PROCESSING.                   *)
(*                                                                         *)
(* What a request does to the downloads is module DownloadQueue; here it   *)
(* is the status of its answer and, for STATUS, how many PROCESSING lines  *)
(* go before it.  The queues belong to the kernel: they outlive the        *)
(* controller, which may be killed or crash and be started again.          *)
(***************************************************************************)
EXTENDS Naturals, Sequences, FiniteSets

CONSTANTS
  Child,        \* server processes, one for each connection
  Kinds,        \* what the clients ask for, out of Kind
  Rooms,        \* the numbers of messages a queue may hold: msgmnb of the system
  RetryCount,   \* options->queue_retry_count
  MaxEntries,   \* bound of the model: entries in the download queue
  MaxRequests,  \* bound of the model: requests a --keepalive client sends
  NoChild

\* COMMAND stands for DOWNLOAD, PAUSE, CANCEL and RESTART: one reply each.
Kind == {"COMMAND", "STATUS", "NONE"}

ASSUME PipelineAssumption ==
  /\ IsFiniteSet(Child) /\ NoChild \notin Child
  /\ Kinds \subseteq Kind
  /\ Rooms \subseteq Nat
  /\ RetryCount \in Nat /\ MaxEntries \in Nat /\ MaxRequests \in Nat \ {0}

VARIABLES
  room,        \* how many messages each queue holds
  input,       \* requests to the controller, as the processes that sent them
  output,      \* replies, with the process whose request they answer
  child,       \* what a server process does next
  kind,        \* what its client asks for
  asked,       \* how many requests it has read
  peer,        \* the client's end of the connection
  tries,       \* retry_count of a process in send_message_local
  controller,  \* what the controller does next
  handled,     \* the process whose request it handles
  left,        \* PROCESSING lines it has still to send
  attempts,    \* its retry_count
  slot,        \* the status in its variable response
  told,        \* history: whose request the first reply to its client answers
  lost,        \* history: requests that never get a last reply, by cause
  overlapped   \* history: a request was sent before all others were answered

queueVars      == <<room, input, output>>
childVars      == <<child, kind, asked, peer, tries>>
controllerVars == <<controller, handled, left, attempts, slot>>
historyVars    == <<told, lost, overlapped>>

vars == <<queueVars, childVars, controllerVars, historyVars>>

Status == {"SUCCESS", "PROCESSING", "FAILURE"}

\* refused: the input queue was full; dropped: the output queue was; died: the
\* controller was killed while it handled the request; unended: the response
\* that was never written says PROCESSING.
Cause == {"refused", "dropped", "died", "unended"}

Reply(c, s) == [owner |-> c, status |-> s]

Replies == [owner : Child, status : Status]

\* killed: by SIGPIPE, with the last reply to its request still to come.
TypeOK ==
  /\ room \in Rooms
  /\ input \in Seq(Child) /\ Len(input) <= room
  /\ output \in Seq(Replies) /\ Len(output) <= room
  /\ child \in [Child -> {"none", "reading", "sending", "waiting", "exited", "killed"}]
  /\ kind \in [Child -> Kind]
  /\ asked \in [Child -> 0..MaxRequests]
  /\ peer \in [Child -> {"open", "closed", "reset"}]
  /\ tries \in [Child -> {n \in 0..RetryCount : n < RetryCount \/ n = 0}]
  /\ controller \in {"reading", "listing", "answering", "down"}
  /\ handled \in Child \union {NoChild}
  /\ handled = NoChild <=> controller \in {"reading", "down"}
  /\ left \in 0..MaxEntries
  /\ left > 0 <=> controller = "listing"
  /\ attempts \in {n \in 0..RetryCount : n < RetryCount \/ n = 0}
  /\ slot \in Status
  /\ told \in [Child -> Child \union {NoChild}]
  /\ lost \in [Cause -> Nat]
  /\ overlapped \in BOOLEAN

Init ==
  /\ room \in Rooms
  /\ input = <<>> /\ output = <<>>
  /\ child = [c \in Child |-> "none"]
  /\ kind \in [Child -> Kinds]
  /\ asked = [c \in Child |-> 0]
  /\ peer = [c \in Child |-> "open"]
  /\ tries = [c \in Child |-> 0]
  /\ controller = "reading" /\ handled = NoChild
  /\ left = 0 /\ attempts = 0
  /\ slot \in Status
  /\ told = [c \in Child |-> NoChild]
  /\ lost = [cause \in Cause |-> 0]
  /\ overlapped = FALSE

-----------------------------------------------------------------------------
(* What is under way.                                                      *)

Waiting == {c \in Child : child[c] = "waiting"}

Killed == {c \in Child : child[c] = "killed"}

Terminals == {i \in DOMAIN output : output[i].status # "PROCESSING"}

Busy == IF handled = NoChild THEN 0 ELSE 1

UnderWay == Len(input) + Busy + Cardinality(Terminals)

Lost == lost["refused"] + lost["dropped"] + lost["died"] + lost["unended"]

\* No client is still to be sent the last reply to its request.
Quiet == \A c \in Child : child[c] \notin {"sending", "waiting", "killed"}

Loses(cause) == lost' = [lost EXCEPT ![cause] = @ + 1]

\* An error only once it has tried again more often than the limit.
RetriesOnceMore(n) == n >= RetryCount

\* send_message_local gives up after n retries and one more failure.
GivesUp(n) == n + 1 >= RetryCount

-----------------------------------------------------------------------------
(* A server process.                                                       *)

\* connection_accept and fork.
Accept(c) ==
  /\ child[c] = "none"
  /\ child' = [child EXCEPT ![c] = "reading"]
  /\ UNCHANGED <<queueVars, kind, asked, peer, tries, controllerVars, historyVars>>

\* Only a status request is repeated on a connection (--keepalive).
Allowed(c) == IF kind[c] = "STATUS" THEN MaxRequests ELSE 1

\* The client sends a transaction, and connection_read reads all of it.
ReadRequest(c) ==
  /\ child[c] = "reading"
  /\ peer[c] = "open"
  /\ asked[c] < Allowed(c)
  /\ child' = [child EXCEPT ![c] = "sending"]
  /\ asked' = [asked EXCEPT ![c] = @ + 1]
  /\ overlapped' = (overlapped \/ ~Quiet)
  /\ UNCHANGED <<queueVars, kind, peer, tries, controllerVars, told, lost>>

\* Nothing within the timeout, the end of the connection, or a part of a
\* transaction: the process ends.
ReadNothing(c) ==
  /\ child[c] = "reading"
  /\ child' = [child EXCEPT ![c] = "exited"]
  /\ UNCHANGED <<queueVars, kind, asked, peer, tries, controllerVars, historyVars>>

\* send_to_controller, one msgsnd at a time.  Sent or not, the process then
\* waits for a reply.
SendRequest(c) ==
  /\ child[c] = "sending"
  /\ \/ /\ Len(input) < room
        /\ input' = Append(input, c)
        /\ child' = [child EXCEPT ![c] = "waiting"]
        /\ tries' = [tries EXCEPT ![c] = 0]
        /\ UNCHANGED lost
     \/ /\ Len(input) >= room /\ ~GivesUp(tries[c])
        /\ tries' = [tries EXCEPT ![c] = @ + 1]
        /\ UNCHANGED <<input, child, lost>>
     \/ /\ Len(input) >= room /\ GivesUp(tries[c])
        /\ child' = [child EXCEPT ![c] = "waiting"]
        /\ tries' = [tries EXCEPT ![c] = 0]
        /\ Loses("refused")
        /\ UNCHANGED input
  /\ UNCHANGED <<room, output, kind, asked, peer, controllerVars, told, overlapped>>

\* A process that reads its next request whatever the status of the reply.
AlwaysReads(c, s) == "reading"

\* The loop over replies ends with the first that is not PROCESSING.
NextOf(c, s) == IF s = "PROCESSING" THEN "waiting" ELSE "reading"

\* read_from_controller and connection_send.  The first send after the client
\* closed its end brings a reset, and the ones after that a SIGPIPE, which the
\* process does not handle.
Relay(c) ==
  /\ child[c] = "waiting"
  /\ output # <<>>
  /\ output' = Tail(output)
  /\ LET s == Head(output).status
     IN  \/ child' = [child EXCEPT ![c] = NextOf(c, s)]
         \/ /\ peer[c] = "reset"
            /\ child' = [child EXCEPT ![c] = IF s = "PROCESSING" THEN "killed" ELSE "exited"]
  /\ peer' = [peer EXCEPT ![c] = IF @ = "closed" THEN "reset" ELSE @]
  /\ told' = IF peer[c] = "open" /\ told[c] = NoChild
             THEN [told EXCEPT ![c] = Head(output).owner] ELSE told
  /\ UNCHANGED <<room, input, kind, asked, tries, controllerVars, lost, overlapped>>

\* The client is done, or had enough of waiting.
ClientCloses(c) ==
  /\ child[c] \in {"reading", "sending", "waiting"}
  /\ peer[c] = "open"
  /\ peer' = [peer EXCEPT ![c] = "closed"]
  /\ UNCHANGED <<queueVars, child, kind, asked, tries, controllerVars, historyVars>>

-----------------------------------------------------------------------------
(* The controller.                                                         *)

\* One line too many.
LinesPlusOne(k) == IF k = "STATUS" THEN 0..(MaxEntries + 1) ELSE {0}

\* The entries queue_status reports, as many as are in the download queue.
Lines(k) == IF k = "STATUS" THEN 0..MaxEntries ELSE {0}

\* The status the handler leaves in response: process_request does not touch
\* it for an unknown command.
Answers(k) ==
  CASE k = "COMMAND" -> {"SUCCESS", "FAILURE"}
    [] k = "STATUS"  -> {"SUCCESS"}
    [] OTHER         -> {slot}

\* read_from_server and process_request, up to the first message it sends.
TakeRequest ==
  /\ controller = "reading"
  /\ input # <<>>
  /\ input' = Tail(input)
  /\ handled' = Head(input)
  /\ left' \in Lines(kind[handled'])
  /\ slot' \in Answers(kind[handled'])
  /\ controller' = IF left' > 0 THEN "listing" ELSE "answering"
  /\ UNCHANGED <<room, output, childVars, attempts, historyVars>>

\* send_to_server finds the queue full: it tries again, or gives up.
Retry ==
  /\ controller \in {"listing", "answering"}
  /\ Len(output) >= room /\ ~GivesUp(attempts)
  /\ attempts' = attempts + 1
  /\ UNCHANGED <<queueVars, childVars, controller, handled, left, slot, historyVars>>

\* queue_get_info, for one entry.  A line that is dropped is not missed.
SendLine ==
  /\ controller = "listing"
  /\ \/ Len(output) < room /\ output' = Append(output, Reply(handled, "PROCESSING"))
     \/ Len(output) >= room /\ GivesUp(attempts) /\ UNCHANGED output
  /\ left' = left - 1
  /\ attempts' = 0
  /\ controller' = IF left' > 0 THEN "listing" ELSE "answering"
  /\ UNCHANGED <<room, input, childVars, handled, slot, historyVars>>

\* An answer that is kept to itself if it is a failure.
SendGoodAnswer ==
  /\ controller = "answering"
  /\ IF slot = "FAILURE" THEN UNCHANGED output
     ELSE Len(output) < room /\ output' = Append(output, Reply(handled, slot))
  /\ controller' = "reading" /\ handled' = NoChild
  /\ attempts' = 0
  /\ UNCHANGED <<room, input, childVars, left, slot, historyVars>>

\* The reply of the main loop.
SendAnswer ==
  /\ controller = "answering"
  /\ \/ /\ Len(output) < room
        /\ output' = Append(output, Reply(handled, slot))
        /\ IF slot = "PROCESSING" THEN Loses("unended") ELSE UNCHANGED lost
     \/ /\ Len(output) >= room /\ GivesUp(attempts)
        /\ Loses("dropped")
        /\ UNCHANGED output
  /\ controller' = "reading" /\ handled' = NoChild
  /\ attempts' = 0
  /\ UNCHANGED <<room, input, childVars, left, slot, told, overlapped>>

\* A signal, or freed memory (DownloadQueue).
ControllerStops ==
  /\ controller # "down"
  /\ controller' = "down" /\ handled' = NoChild
  /\ left' = 0 /\ attempts' = 0
  /\ IF handled = NoChild THEN UNCHANGED lost ELSE Loses("died")
  /\ UNCHANGED <<queueVars, childVars, slot, told, overlapped>>

\* dsserver is started again, and finds the queues of the same keys.
StartController ==
  /\ controller = "down"
  /\ controller' = "reading"
  /\ slot' \in Status
  /\ UNCHANGED <<queueVars, childVars, handled, left, attempts, historyVars>>

-----------------------------------------------------------------------------
ControllerStep == TakeRequest \/ Retry \/ SendLine \/ SendAnswer

ChildStep(c) ==
  Accept(c) \/ ReadRequest(c) \/ ReadNothing(c) \/ SendRequest(c) \/ Relay(c) \/ ClientCloses(c)

Next ==
  \/ ControllerStep \/ ControllerStops \/ StartController
  \/ \E c \in Child : ChildStep(c)

Spec == Init /\ [][Next]_vars

\* No sender waits for a reader.  The kernel serves the processes that wait for a
\* message in the order they came: none is passed over for ever.  Clients need
\* not send anything, and nobody need start the controller again.
Fairness ==
  /\ WF_vars(ControllerStep)
  /\ \A c \in Child : WF_vars(SendRequest(c)) /\ SF_vars(Relay(c))

FairSpec == Spec /\ Fairness

-----------------------------------------------------------------------------
(* Properties.                                                             *)

\* What a client prints, "Request executed successfully" or "Error processing the
\* request" (dsclient.c, lines 33 and 41), is about the request it sent.
OwnReplies == \A c \in Child : told[c] \in {c, NoChild}

\* Every process that waits for the last reply to a request, or was killed
\* waiting, has one under way, unless the request is accounted for as lost: the
\* retries, drops, crashes and restarts never make a reply out of nothing, and
\* no other step loses one.
Conservation == Cardinality(Waiting) + Cardinality(Killed) = UnderWay + Lost

\* No request is dropped by a queue with room for one of each process, although
\* processes take each other's replies and then ask again.
RequestsFit == room >= Cardinality(Child) => lost["refused"] = 0

\* No reply is dropped by a queue with room for all a STATUS can produce, for
\* each process, whoever reads the lines left behind by a killed one.
RepliesFit == room >= (MaxEntries + 1) * Cardinality(Child) => lost["dropped"] = 0

\* As long as every client waits for the last reply to all others before it sends
\* a request, each is sent the reply to its own: nothing is left in the queues
\* that could be taken for it, whatever was dropped or lost in crashes before.
SerialRepliesMatch == ~overlapped => OwnReplies

\* Processes do not wait for ever, but as many as there were requests lost, while
\* the controller is up and every client sends a limited number of requests.
WaitsEnd ==
  (Cardinality(Waiting) > Lost) ~> (Cardinality(Waiting) <= Lost \/ controller = "down")

-----------------------------------------------------------------------------
(* The invariant behind the proofs.                                        *)

\* Last replies after the first j of the output queue.
Unread(j) == {i \in Terminals : i > j}

\* What the controller has still to send for the request it handles.
Owed == IF handled = NoChild THEN 0 ELSE left + 1

\* From any place in the output queue on there are at most as many replies as the
\* requests can have produced whose last one comes after it, or is owed, or was lost.
RepliesBounded ==
  \A j \in 0..Len(output) :
    (Len(output) - j) + Owed <= (MaxEntries + 1) * (Cardinality(Unread(j)) + Busy + Lost)

Active == {c \in Child : child[c] \in {"sending", "waiting", "killed"}}

InFlight(c) ==
  \/ \E i \in DOMAIN input : input[i] = c
  \/ handled = c
  \/ \E i \in DOMAIN output : output[i].owner = c

\* As long as requests do not overlap, all there is in the queues is for one process,
\* that has not been sent its last reply.
OneAtATime ==
  ~overlapped =>
    /\ \A c, d \in Active : c = d
    /\ \A c \in Child : InFlight(c) => c \in Active

IInv ==
  /\ TypeOK /\ Conservation /\ RequestsFit /\ RepliesBounded /\ RepliesFit
  /\ OneAtATime /\ SerialRepliesMatch

=============================================================================
