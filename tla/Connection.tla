------------------------------- MODULE Connection -------------------------------
(***************************************************************************)
(* One client (client/dsclient.c), its connection                          *)
(* (common/network/connection.c), and the process the server forks for it  *)
(* (server/upstream/server.c).                                             *)
(*                                                                         *)
(* A transaction is sent with one send that does not wait and is never     *)
(* completed, and read with one recvfrom: as TCP carries bytes, either may *)
(* move a part of it.  Here a transaction has two parts.  The process that *)
(* accepts connections keeps the descriptor of each, and the processes it  *)
(* forks for other clients inherit it: the server's end is closed when     *)
(* none of them has it any more.                                           *)
(*                                                                         *)
(* When and what the controller answers is RequestPipeline; here it is any *)
(* status, any time, or never.                                             *)
(***************************************************************************)
EXTENDS Naturals, Sequences

CONSTANTS
  Kinds,   \* what the client is started for, out of Kind
  Room     \* parts that the buffers of the connection hold, in one direction

\* COMMAND stands for DOWNLOAD, PAUSE, CANCEL and RESTART; KEEPALIVE is STATUS with
\* --keepalive.
Kind == {"COMMAND", "STATUS", "KEEPALIVE"}

ASSUME ConnectionAssumption == Kinds \subseteq Kind /\ Room \in Nat

VARIABLES
  client,     \* what the client does next
  kind,       \* what for
  reply,      \* the status in its variable reply
  exit,       \* its exit status
  acceptor,   \* is the process with run_server's loop up?
  server,     \* the process forked for the client
  others,     \* has one forked for another client inherited the connection?
  up,         \* parts on the way to the server process
  down,       \* parts on the way to the client
  resets,     \* ends that have sent to a closed one, and got a reset for it
  told,       \* history: the client was sent SUCCESS or PROCESSING
  cut,        \* history: a send was cut short, in either direction
  misread     \* history: the server process dispatched what no client had sent

clientVars == <<client, kind, reply, exit>>
serverVars == <<acceptor, server, others>>
streamVars == <<up, down, resets>>
traceVars  == <<told, cut, misread>>

vars == <<clientVars, serverVars, streamVars, traceVars>>

Status == {"SUCCESS", "PROCESSING", "FAILURE"}

Request == <<"head", "rest">>

\* The transaction as it was received, with a command where the status should be.
Echo(s) == Request

Reply(s) == <<s, "rest">>

\* backlog: connected, not accepted yet; unserved: fork failed.
TypeOK ==
  /\ client \in {"none", "connected", "reading", "sleeping", "done", "killed"}
  /\ kind \in Kinds
  /\ reply \in Status
  /\ exit \in {"none", "success", "failure"}
  /\ exit # "none" <=> client = "done"
  /\ acceptor \in BOOLEAN
  /\ server \in {"none", "backlog", "unserved", "reading", "waiting", "ended", "killed"}
  /\ others \in BOOLEAN
  /\ up \in Seq({"head", "rest"}) /\ Len(up) <= Room
  /\ down \in Seq(Status \union {"rest"}) /\ Len(down) <= Room
  /\ resets \subseteq {"client", "server"}
  /\ told \in BOOLEAN /\ cut \in BOOLEAN /\ misread \in BOOLEAN

Init ==
  /\ client = "none"
  /\ kind \in Kinds
  /\ reply = "SUCCESS"
  /\ exit = "none"
  /\ acceptor = TRUE /\ server = "none" /\ others = FALSE
  /\ up = <<>> /\ down = <<>>
  /\ resets = {}
  /\ told = FALSE /\ cut = FALSE /\ misread = FALSE

-----------------------------------------------------------------------------
(* The connection.                                                         *)

ClientGone == client \in {"done", "killed"}

Running == server \in {"reading", "waiting"}

\* Every process of the server has the listening socket.
Listening == acceptor \/ Running \/ others

\* Has any of them the server's end of the connection?
Open == IF server = "backlog" THEN Listening ELSE acceptor \/ Running \/ others

\* connection_send, of which no caller looks at the result: the buffers take what
\* they have room for.
Sends(stream, data) ==
  SubSeq(stream \o data, 1, IF Len(stream) + Len(data) > Room THEN Room ELSE Len(stream) + Len(data))

Cuts(stream, data) == cut' = (cut \/ Len(stream) + Len(data) > Room)

\* How many parts connection_read finds of the transaction it wants.
Found(stream) == {n \in 1..2 : n <= Len(stream)}

Rest(stream, n) == SubSeq(stream, n + 1, Len(stream))

-----------------------------------------------------------------------------
(* The client.                                                             *)

Exits(with) == client' = "done" /\ exit' = with

\* connection_new and connection_connect.  The EXIT_FAILURE run returns if there is
\* no connection_t is true to main.
Connect ==
  /\ client = "none"
  /\ \/ Exits("success") /\ UNCHANGED server
     \/ ~Listening /\ Exits("failure") /\ UNCHANGED server
     \/ Listening /\ client' = "connected" /\ server' = "backlog" /\ UNCHANGED exit
  /\ UNCHANGED <<kind, reply, acceptor, others, streamVars, traceVars>>

\* A reply that nothing clears.
Uncleared == Status

\* bzero(&reply).
Cleared == {"SUCCESS"}

\* connection_send of the request, the first or, with --keepalive, one more.  After
\* a reset it raises SIGPIPE.
Send ==
  /\ client = "connected" \/ (client = "sleeping" /\ kind = "KEEPALIVE")
  /\ reply' \in Cleared
  /\ \/ /\ Open
        /\ client' = "reading"
        /\ up' = Sends(up, Request)
        /\ Cuts(up, Request)
        /\ UNCHANGED resets
     \/ /\ ~Open /\ "client" \notin resets
        /\ client' = "reading"
        /\ resets' = resets \union {"client"}
        /\ UNCHANGED <<up, cut>>
     \/ /\ "client" \in resets
        /\ client' = "killed"
        /\ UNCHANGED <<up, cut, resets>>
  /\ UNCHANGED <<kind, exit, serverVars, down, told, misread>>

\* A client that takes whatever is in reply for an answer.
BelievesAll(ok, s) == s \in {"SUCCESS", "PROCESSING"}

\* default_send_receive's result: an error of connection_read is a failure.
Believes(ok, s) == ok /\ s \in {"SUCCESS", "PROCESSING"}

\* What follows connection_read, which leaves s in reply.status: default_send_receive
\* looks at its result, status_command only at the status.
AfterRead(ok, s) ==
  /\ reply' = s
  /\ IF kind = "COMMAND"
     THEN Exits(IF Believes(ok, s) THEN "success" ELSE "failure")
     ELSE client' = (IF s = "PROCESSING" THEN "reading" ELSE "sleeping") /\ UNCHANGED exit

\* Nothing within the timeout: connection_read does not touch reply.
TimeOut ==
  /\ client = "reading"
  /\ AfterRead(FALSE, reply)
  /\ UNCHANGED <<kind, serverVars, streamVars, traceVars>>

\* A memset that comes after recvfrom found data.
NotZeroed(s) == s

\* connection_read zeroes its destination before it calls recvfrom.
Zeroed(s) == "SUCCESS"

\* The end of the connection, or an error if the server's end was closed with a
\* request unread.
ReadEnd ==
  /\ client = "reading"
  /\ ~Open
  /\ down = <<>> \/ up # <<>>
  /\ AfterRead(FALSE, Zeroed(reply))
  /\ UNCHANGED <<kind, serverVars, streamVars, traceVars>>

\* The status is in the first part of a transaction; the same place in the second
\* part holds any number.
StatusOf(part) == IF part \in Status THEN {part} ELSE Status

ReadReply ==
  /\ client = "reading"
  /\ \E n \in Found(down) : \E s \in StatusOf(down[1]) :
       down' = Rest(down, n) /\ AfterRead(n = 2, s)
  /\ UNCHANGED <<kind, serverVars, up, resets, traceVars>>

\* status_command ends without a value.
Finish ==
  /\ client = "sleeping" /\ kind = "STATUS"
  /\ \E with \in {"success", "failure"} : Exits(with)
  /\ UNCHANGED <<kind, reply, serverVars, streamVars, traceVars>>

-----------------------------------------------------------------------------
(* The server.                                                             *)

\* connection_accept and fork, which may fail; the process that accepts has the
\* descriptor either way.
Accept ==
  /\ acceptor
  /\ server = "backlog"
  /\ server' \in {"reading", "unserved"}
  /\ UNCHANGED <<clientVars, acceptor, others, streamVars, traceVars>>

\* A process that lets a short read pass.
GoesOn(n) == IF n = 2 THEN "waiting" ELSE "reading"

\* A part of a transaction is an error, which ends the process.
AfterRequest(n) == IF n = 2 THEN "waiting" ELSE "ended"

ReadRequest ==
  /\ server = "reading"
  /\ \E n \in Found(up) :
       /\ up' = Rest(up, n)
       /\ server' = AfterRequest(n)
       /\ misread' = (misread \/ (n = 2 /\ SubSeq(up, 1, 2) # Request))
  /\ UNCHANGED <<clientVars, acceptor, others, down, resets, told, cut>>

\* Nothing within the timeout, the end of the connection, or an error.
EndRequests ==
  /\ server = "reading"
  /\ server' = "ended"
  /\ UNCHANGED <<clientVars, acceptor, others, streamVars, traceVars>>

\* read_from_controller and connection_send.  The first to a client that is gone
\* brings a reset, the next a SIGPIPE.
Relay ==
  /\ server = "waiting"
  /\ \E s \in Status :
       \/ /\ "server" \notin resets
          /\ server' = IF s = "PROCESSING" THEN "waiting" ELSE "reading"
          /\ IF ClientGone
             THEN resets' = resets \union {"server"} /\ UNCHANGED <<down, told, cut>>
             ELSE /\ down' = Sends(down, Reply(s))
                  /\ told' = (told \/ s # "FAILURE")
                  /\ Cuts(down, Reply(s))
                  /\ UNCHANGED resets
       \/ /\ "server" \in resets
          /\ server' = "killed"
          /\ UNCHANGED <<down, resets, told, cut>>
  /\ UNCHANGED <<clientVars, acceptor, others, up, misread>>

\* A process is forked for another client, or the last of those ends.
OthersChange ==
  /\ \/ acceptor /\ server \notin {"none", "backlog"} /\ others' = TRUE
     \/ others' = FALSE
  /\ UNCHANGED <<clientVars, acceptor, server, streamVars, traceVars>>

\* The process that accepts is terminated; those it forked go on.
AcceptorStops ==
  /\ acceptor
  /\ acceptor' = FALSE
  /\ UNCHANGED <<clientVars, server, others, streamVars, traceVars>>

-----------------------------------------------------------------------------
ClientRuns == Send \/ TimeOut \/ ReadEnd \/ ReadReply \/ Finish

Next ==
  \/ Connect \/ ClientRuns
  \/ Accept \/ ReadRequest \/ EndRequests \/ Relay \/ OthersChange \/ AcceptorStops

Spec == Init /\ [][Next]_vars

\* Every call a connected client makes has a timeout, or does not wait.  The server
\* owes nothing: it may have no descriptor or no process left, and the controller
\* need not answer.
FairSpec == Spec /\ WF_vars(ClientRuns)

-----------------------------------------------------------------------------
(* Properties.                                                             *)

\* The server process hands to the controller whole requests, as the client sent
\* them, in however many segments they come, unless the buffers of the connection
\* were full and a send was cut short, the client's or one of the server's to it.
DispatchesRequests == misread => cut

\* A client that exits with success for a command, over a connection it could make,
\* has been told SUCCESS or PROCESSING by the server.
SuccessIsTold == kind = "COMMAND" /\ exit = "success" /\ server # "none" => told

\* A client without --keepalive does not wait for ever for a server that tells it
\* nothing: one that did not accept, could not fork, or waits for the controller.
UntoldClientEnds == (client = "reading" /\ kind # "KEEPALIVE") ~> (ClientGone \/ told)

\* When the server's end of its connection is closed the client ends, also one that
\* was told PROCESSING and ignores timeouts, and one that keeps asking.
ClosedEndsClient == (client = "reading" /\ ~Open) ~> ClientGone

-----------------------------------------------------------------------------
(* The invariant behind the proofs.                                        *)

\* What there is before the client connects.
NothingBefore == client = "none" => server = "none" /\ down = <<>>

\* A command's client reads one reply, and exits.
CommandReadsOnce == kind = "COMMAND" => client # "sleeping"

\* So what it reads is the beginning of the first reply it was sent.
FirstReply ==
  kind = "COMMAND" /\ ~ClientGone /\ down # <<>> =>
    down[1] \in Status /\ (down[1] # "FAILURE" => told)

IsWhole(stream) ==
  \E k \in 0..Len(stream) :
    /\ Len(stream) = 2 * k
    /\ \A j \in 1..k : stream[2 * j - 1] = "head" /\ stream[2 * j] = "rest"

\* As long as no send was cut, and the process that reads them has not read a part of
\* one, the client's requests are there from their beginning to their end.
WholeRequests == ~cut /\ server \notin {"ended", "killed"} => IsWhole(up)

IInv ==
  /\ TypeOK /\ NothingBefore /\ CommandReadsOnce /\ FirstReply /\ WholeRequests
  /\ DispatchesRequests /\ SuccessIsTold

=============================================================================
