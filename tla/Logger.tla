------------------------------- MODULE Logger -------------------------------
(***************************************************************************)
(* The application that the tests of log collection talk to                *)
(* (components/datadog/apps/logger/images/logger/main.go): an HTTP server  *)
(* that writes the messages it is posted to its standard output and error, *)
(* to a file, or to a connection that the first request opens.  Every      *)
(* request is a goroutine.  They share the handler and its dialer:         *)
(* `connected' is atomic, `stdout', `stderr' and the dialer's connection   *)
(* are not, and nothing holds a lock from the test of the first to the     *)
(* assignment of the others.                                               *)
(***************************************************************************)
EXTENDS Naturals, Sequences, FiniteSets

CONSTANTS
  Request,   \* the requests that clients send
  Method,    \* Method[r]: the methods that r may have, "POST" and others
  Body,      \* Body[r]: its bodies, "json", "other" or "error" (not readable)
  Data,      \* Data[r]: a sequence of messages [encoded, valid]
  Startup,   \* the request that logData makes, or None
  Conn,      \* the connections that Dial may open
  Fixed,     \* the standard streams, or the file
  Nil,       \* a nil connection
  None       \* nothing, as what is not assigned yet

VARIABLES
  dialer,     \* "stream" (TCP or UDP) or "fixed" (a file, the standard streams)
  server,     \* "starting", "listening", "draining" or "exited"
  connected, stdout, stderr,  \* loggerHandler
  conn,       \* the connection of the dialer, that its Dial calls share
  opened,     \* the connections opened so far
  pc,         \* pc[r]: where the goroutine of r is
  dialed,     \* dialed[r]: the writers that Dial returns to r
  written,    \* written[r]: how many messages of r are written
  status      \* status[r]: the answer, None before, "cut" when there is none

Codes == {"200", "400", "405", "500", "cut"}

ASSUME StartupAssumption == Startup \in Request \cup {None}
ASSUME NoneAssumption ==
  None \notin Conn \cup {Fixed, Nil} \cup Codes /\ Nil \notin Conn \cup {Fixed}
ASSUME DataAssumption ==
  \A r \in Request : Data[r] \in Seq([encoded : BOOLEAN, valid : BOOLEAN])

(* The two writers that Dial returns, when they are the same.              *)
Pair(writer) == [stdout |-> writer, stderr |-> writer]

handler == <<connected, stdout, stderr, conn>>
vars == <<dialer, server, handler, opened, pc, dialed, written, status>>

Init ==
  /\ dialer \in {"stream", "fixed"}
  /\ server = "starting"
  /\ connected = FALSE /\ stdout = None /\ stderr = None /\ conn = Nil
  /\ opened = {}
  /\ pc = [r \in Request |-> "new"]
  /\ dialed = [r \in Request |-> Pair(None)]
  /\ written = [r \in Request |-> 0]
  /\ status = [r \in Request |-> None]

Goto(r, label) == pc' = [pc EXCEPT ![r] = label]

Answer(r, code) ==
  /\ status' = [status EXCEPT ![r] = code]
  /\ Goto(r, "done")

----------------------------------------------------------------------------
(* main                                                                    *)

Listen ==
  /\ server = "starting"
  /\ server' = "listening"
  /\ UNCHANGED <<dialer, handler, opened, pc, dialed, written, status>>

(* logData does not wait for the server, and does not try again.           *)
ConnectionRefused ==
  /\ server = "starting" /\ Startup # None /\ pc[Startup] = "new"
  /\ Answer(Startup, "cut")
  /\ UNCHANGED <<dialer, server, handler, opened, dialed, written>>

Signal ==
  /\ server \in {"starting", "listening"}
  /\ server' = "draining"
  /\ UNCHANGED <<dialer, handler, opened, pc, dialed, written, status>>

Active == {r \in Request : pc[r] \notin {"new", "done"}}

(* Mutant: Shutdown without the ten seconds.                               *)
ExitWhenQuiet ==
  /\ server = "draining" /\ Active = {}
  /\ server' = "exited"
  /\ pc' = [r \in Request |-> "done"]
  /\ status' = [r \in Request |-> IF status[r] = None THEN "cut" ELSE status[r]]
  /\ UNCHANGED <<dialer, handler, opened, dialed, written>>

(* Shutdown waits for the requests, for ten seconds; then main returns and *)
(* takes with it those that are left.                                      *)
Exit ==
  /\ server = "draining"
  /\ server' = "exited"
  /\ pc' = [r \in Request |-> "done"]
  /\ status' = [r \in Request |-> IF status[r] = None THEN "cut" ELSE status[r]]
  /\ UNCHANGED <<dialer, handler, opened, dialed, written>>

----------------------------------------------------------------------------
(* handleRequest                                                           *)

Accept(r) ==
  /\ server = "listening" /\ pc[r] = "new"
  /\ \/ "POST" \in Method[r] /\ Goto(r, "check") /\ UNCHANGED status
     \/ Method[r] # {"POST"} /\ Answer(r, "405")
  /\ UNCHANGED <<dialer, server, handler, opened, dialed, written>>

(* Mutant: every request connects.                                         *)
CheckNothing(r) ==
  /\ pc[r] = "check"
  /\ Goto(r, "dial")
  /\ UNCHANGED <<dialer, server, handler, opened, dialed, written, status>>

Check(r) ==
  /\ pc[r] = "check"
  /\ Goto(r, IF connected THEN "read" ELSE "dial")
  /\ UNCHANGED <<dialer, server, handler, opened, dialed, written, status>>

(* Dial opens a connection and keeps it in the dialer.  Nobody closes the  *)
(* one that another request may have opened at the same time.              *)
Dial(r) ==
  /\ pc[r] = "dial" /\ dialer = "stream"
  /\ Conn \ opened # {}
  /\ LET c == CHOOSE c \in Conn \ opened : TRUE   \* any other is the same
     IN /\ opened' = opened \cup {c} /\ conn' = c
        /\ dialed' = [dialed EXCEPT ![r] = Pair(c)]
  /\ Goto(r, "return stdout")
  /\ UNCHANGED <<dialer, server, connected, stdout, stderr, written, status>>

(* What it returns is read from the dialer, twice, and may by now be what  *)
(* another Dial has put there; or it is still the value at hand, as the    *)
(* two are not synchronized.                                               *)
ReturnStdout(r) ==
  /\ pc[r] = "return stdout"
  /\ \E c \in {dialed[r].stdout, conn} : dialed' = [dialed EXCEPT ![r].stdout = c]
  /\ Goto(r, "return stderr")
  /\ UNCHANGED <<dialer, server, handler, opened, written, status>>

ReturnStderr(r) ==
  /\ pc[r] = "return stderr"
  /\ \E c \in {dialed[r].stderr, conn} : dialed' = [dialed EXCEPT ![r].stderr = c]
  /\ Goto(r, "stdout")
  /\ UNCHANGED <<dialer, server, handler, opened, written, status>>

DialFixed(r) ==
  /\ pc[r] = "dial" /\ dialer = "fixed"
  /\ dialed' = [dialed EXCEPT ![r] = Pair(Fixed)]
  /\ Goto(r, "stdout")
  /\ UNCHANGED <<dialer, server, handler, opened, written, status>>

(* A target that has no address leaves the dialer alone; one that does not *)
(* answer leaves it a nil connection, whoever else is using it.            *)
DialFails(r) ==
  /\ pc[r] = "dial" /\ dialer = "stream"
  /\ conn' \in {conn, Nil}
  /\ dialed' = [dialed EXCEPT ![r] = Pair(Nil)]
  /\ Answer(r, "500")
  /\ UNCHANGED <<dialer, server, connected, stdout, stderr, opened, written>>

(* Mutant: the flag before the writers.                                    *)
StoreFirst(r) ==
  /\ pc[r] = "stdout"
  /\ stdout' = dialed[r].stdout /\ connected' = TRUE /\ Goto(r, "stderr")
  /\ UNCHANGED <<dialer, server, stderr, conn, opened, dialed, written, status>>

(* The assignments of Connect, in their order.                             *)
SetStdout(r) ==
  /\ pc[r] = "stdout"
  /\ stdout' = dialed[r].stdout /\ Goto(r, "stderr")
  /\ UNCHANGED <<dialer, server, connected, stderr, conn, opened, dialed, written, status>>

SetStderr(r) ==
  /\ pc[r] = "stderr"
  /\ stderr' = dialed[r].stderr /\ Goto(r, "store")
  /\ UNCHANGED <<dialer, server, connected, stdout, conn, opened, dialed, written, status>>

Store(r) ==
  /\ pc[r] = "store"
  /\ connected' = TRUE /\ Goto(r, "read")
  /\ dialed' = [dialed EXCEPT ![r] = Pair(None)]
  /\ UNCHANGED <<dialer, server, stdout, stderr, conn, opened, written, status>>

(* A client that does not send the rest of its request is waited for.      *)
ReadBody(r) ==
  /\ pc[r] = "read"
  /\ \/ "error" \in Body[r] /\ Answer(r, "500")
     \/ "other" \in Body[r] /\ Answer(r, "400")
     \/ "json" \in Body[r] /\ Goto(r, "write") /\ UNCHANGED status
  /\ UNCHANGED <<dialer, server, handler, opened, dialed, written>>

Undecodable(message) == message.encoded /\ ~message.valid

Bad(r) == {k \in DOMAIN Data[r] : Undecodable(Data[r][k])}

(* Mutant: one message too many.                                           *)
WritePastEnd(r) ==
  /\ pc[r] = "write" /\ written[r] <= Len(Data[r])
  /\ written[r] + 1 \notin Bad(r)
  /\ written' = [written EXCEPT ![r] = @ + 1]
  /\ UNCHANGED <<dialer, server, handler, opened, pc, dialed, status>>

(* To stdout or to stderr.  The error of a write is not looked at: whether *)
(* the other side is still there makes no difference to the handler.       *)
Write(r) ==
  /\ pc[r] = "write" /\ written[r] < Len(Data[r])
  /\ written[r] + 1 \notin Bad(r)
  /\ written' = [written EXCEPT ![r] = @ + 1]
  /\ UNCHANGED <<dialer, server, handler, opened, pc, dialed, status>>

(* A write to a nil connection is an error as any other, or a panic, which *)
(* ends the request without an answer and not the server.                  *)
WritePanics(r) ==
  /\ pc[r] = "write" /\ written[r] < Len(Data[r])
  /\ written[r] + 1 \notin Bad(r)
  /\ Nil \in {stdout, stderr}
  /\ Answer(r, "cut")
  /\ UNCHANGED <<dialer, server, handler, opened, dialed, written>>

(* Mutant: a message that cannot be decoded is left out.                   *)
SkipBadMessage(r) ==
  /\ pc[r] = "write" /\ written[r] + 1 \in Bad(r)
  /\ written' = [written EXCEPT ![r] = @ + 1]
  /\ UNCHANGED <<dialer, server, handler, opened, pc, dialed, status>>

(* Mutant: it is tried again and again.                                    *)
RetryBadMessage(r) ==
  /\ pc[r] = "write" /\ written[r] + 1 \in Bad(r)
  /\ UNCHANGED vars

(* What comes before a message that cannot be decoded is written already.  *)
BadMessage(r) ==
  /\ pc[r] = "write" /\ written[r] + 1 \in Bad(r)
  /\ Answer(r, "400")
  /\ UNCHANGED <<dialer, server, handler, opened, dialed, written>>

Written(r) ==
  /\ pc[r] = "write" /\ written[r] = Len(Data[r])
  /\ Answer(r, "200")
  /\ UNCHANGED <<dialer, server, handler, opened, dialed, written>>

----------------------------------------------------------------------------
Handle(r) ==
  \/ Check(r) \/ Dial(r) \/ DialFixed(r) \/ DialFails(r)
  \/ ReturnStdout(r) \/ ReturnStderr(r)
  \/ SetStdout(r) \/ SetStderr(r) \/ Store(r)
  \/ Write(r) \/ WritePanics(r) \/ BadMessage(r) \/ Written(r)

Next ==
  \/ Listen \/ ConnectionRefused \/ Signal \/ Exit
  \/ \E r \in Request : Accept(r) \/ ReadBody(r) \/ Handle(r)

(* The goroutines run, and the ten seconds of Shutdown end.  Clients may   *)
(* never send anything, nor the rest of what they have begun to send.      *)
Spec ==
  /\ Init /\ [][Next]_vars
  /\ WF_vars(Exit)
  /\ \A r \in Request : WF_vars(Handle(r))

----------------------------------------------------------------------------
(* Properties.                                                             *)

Streams == Conn \cup {Fixed, Nil, None}

TypeOK ==
  /\ connected \in BOOLEAN /\ {stdout, stderr, conn} \subseteq Streams
  /\ opened \subseteq Conn
  /\ \A r \in Request :
       /\ {dialed[r].stdout, dialed[r].stderr} \subseteq Streams
       /\ written[r] \in 0 .. Len(Data[r])
       /\ status[r] \in Codes \cup {None}

(* However many first requests connect at the same time, no request writes *)
(* before both writers are there, since `connected' is stored last; and    *)
(* the writers are connections that were opened, or nil only if the dial   *)
(* of another request failed beside the one that connected.                *)
Refused == {q \in Request : status[q] = "500" /\ dialed[q] = Pair(Nil)}
WritersReady ==
  \A r \in Request : pc[r] \in {"read", "write"} =>
    /\ {stdout, stderr} \subseteq opened \cup {Fixed, Nil}
    /\ Nil \in {stdout, stderr} => Refused # {}

(* What an answer says: 200, all the messages are written; 400, those      *)
(* before the first one that cannot be decoded, none for another body;     *)
(* 405 and 500, none.                                                      *)
AnswersMatch ==
  \A r \in Request :
    LET n == written[r]
    IN /\ status[r] = "200" => n = Len(Data[r]) /\ Bad(r) = {}
       /\ status[r] = "400" => \/ "other" \in Body[r] /\ n = 0
                               \/ n + 1 \in Bad(r) /\ \A k \in Bad(r) : n < k
       /\ status[r] \in {"405", "500"} => n = 0

(* The connection, or the nil one, is for good: when the requests that     *)
(* came first are done connecting, however many they were, no later one    *)
(* opens another connection, nor changes where the messages go.            *)
Connecting ==
  {r \in Request : pc[r] \in {"dial", "return stdout", "return stderr",
                             "stdout", "stderr", "store"}}
Settled ==
  [][connected /\ Connecting = {}
       => handler' = handler /\ opened' = opened /\ Connecting' = {}]_vars

(* After a signal the process ends, whatever the requests are waiting for, *)
(* and every client that was connected has its answer or knows of none.    *)
Terminates ==
  server = "draining" ~> server = "exited" /\ \A r \in Request : status[r] # None

(* A request whose body is there is answered, whatever the others do.      *)
Answered ==
  \A r \in Request : pc[r] = "write" ~> status[r] # None
=============================================================================
