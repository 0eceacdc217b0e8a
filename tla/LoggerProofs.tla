---------------------------- MODULE LoggerProofs ----------------------------
(***************************************************************************)
(* Proofs about module Logger, for any number of requests, whatever each   *)
(* of them sends.  `Inductive' follows a request: while it connects it has *)
(* a pair of writers, the handler has one from the first assignment on,    *)
(* and what is written of its messages is what comes before the first one  *)
(* that cannot be decoded.                                                 *)
(***************************************************************************)
EXTENDS Logger, TLAPS

Labels ==
  {"new", "check", "dial", "return stdout", "return stderr", "stdout", "stderr",
   "store", "read", "write", "done"}

(* The functions of requests, and the handler's fields.                    *)
Functions ==
  /\ pc \in [Request -> Labels]
  /\ dialed \in [Request -> [stdout : Streams, stderr : Streams]]
  /\ written \in [Request -> Nat]
  /\ status \in [Request -> Codes \cup {None}]
  /\ connected \in BOOLEAN /\ stdout \in Streams /\ stderr \in Streams /\ conn \in Streams
  /\ opened \subseteq Conn

(* A writer is a connection that was opened, the file or a standard        *)
(* stream, and nil only if a dial was refused.                             *)
Usable(writer) ==
  writer \in opened \cup {Fixed, Nil} /\ (writer = Nil => Refused # {})

(* The writers are there as soon as anybody may need them, and the         *)
(* dialer's connection as soon as somebody has opened one.                 *)
Connects ==
  /\ connected => stdout # None /\ stderr # None
  /\ stdout # None => Usable(stdout)
  /\ stderr # None => Usable(stderr)
  /\ conn \in opened \cup {Nil}
  /\ opened # {} => Usable(conn)
  /\ \A r \in Request :
       /\ pc[r] \in {"return stdout", "return stderr"} => opened # {}
       /\ pc[r] \in {"return stdout", "return stderr", "stdout", "stderr", "store"}
            => Usable(dialed[r].stdout) /\ Usable(dialed[r].stderr)
       /\ pc[r] \in {"stderr", "store", "read", "write"} => stdout # None
       /\ pc[r] \in {"store", "read", "write"} => stderr # None

(* A request is done when it has its answer; until it is read nothing of   *)
(* it is written, and then nothing after a message that is not valid.      *)
Progress ==
  \A r \in Request :
    /\ status[r] # None => pc[r] = "done"
    /\ pc[r] \notin {"write", "done"} => written[r] = 0
    /\ written[r] <= Len(Data[r])
    /\ \A k \in Bad(r) : written[r] < k

Inductive == Functions /\ Connects /\ Progress /\ AnswersMatch

(* The places of the messages that cannot be decoded are places of the     *)
(* request, and the length of the request is a number.                     *)
LEMMA Places == \A r \in Request : Len(Data[r]) \in Nat /\ Bad(r) \subseteq 1 .. Len(Data[r])
  BY DataAssumption DEF Bad

(* A connection is something, and None is not a writer.                    *)
LEMMA UsableSome ==
  ASSUME Inductive, NEW writer, Usable(writer)
  PROVE  writer # None /\ writer \in Streams
  BY NoneAssumption DEF Inductive, Functions, Usable, Streams

(* A request that was refused stays so, and with the connections that were *)
(* opened what is usable stays usable.                                     *)
LEMMA RefusedStays ==
  ASSUME Inductive,
         \A q \in Request : pc[q] = "done" => status'[q] = status[q] /\ dialed'[q] = dialed[q]
  PROVE  Refused \subseteq Refused'
<1> SUFFICES ASSUME NEW q \in Request, status[q] = "500", dialed[q] = Pair(Nil)
             PROVE  status'[q] = "500" /\ dialed'[q] = Pair(Nil)
  BY DEF Refused, Pair
<1>1. pc[q] = "done"
  BY NoneAssumption DEF Inductive, Progress, Codes
<1> QED
  BY <1>1

----------------------------------------------------------------------------
(* A new server.                                                           *)
LEMMA InitInductive == Init => Inductive
<1> SUFFICES ASSUME Init PROVE Inductive
  OBVIOUS
<1>1. Functions
  BY DEF Init, Functions, Labels, Streams, Pair
<1>2. Connects
  BY DEF Init, Connects
<1>3. Progress
  BY Places DEF Init, Progress
<1>4. AnswersMatch
  BY NoneAssumption DEF Init, AnswersMatch, Codes
<1> QED
  BY <1>1, <1>2, <1>3, <1>4 DEF Inductive

----------------------------------------------------------------------------
(* When some requests end and the handler stays as it is, but for a nil    *)
(* connection that a refused dial leaves.                                  *)
LEMMA AwayConnects ==
  ASSUME Connects, UNCHANGED <<connected, stdout, stderr, opened>>,
         Refused \subseteq Refused',
         conn' = conn \/ (conn' = Nil /\ Refused' # {}),
         \A q \in Request : pc'[q] # "done" => pc'[q] = pc[q] /\ dialed'[q] = dialed[q]
  PROVE  Connects'
<1>1. ASSUME NEW writer, Usable(writer)
      PROVE  writer \in opened' \cup {Fixed, Nil} /\ (writer = Nil => Refused' # {})
  BY <1>1 DEF Usable
<1>2. ASSUME NEW q \in Request
      PROVE  /\ pc'[q] \in {"return stdout", "return stderr"} => opened' # {}
             /\ pc'[q] \in {"return stdout", "return stderr", "stdout", "stderr", "store"}
                  => Usable(dialed[q].stdout) /\ Usable(dialed[q].stderr)
                     /\ dialed'[q] = dialed[q]
             /\ pc'[q] \in {"stderr", "store", "read", "write"} => stdout # None
             /\ pc'[q] \in {"store", "read", "write"} => stderr # None
  BY <1>2 DEF Connects
<1>3. conn' \in opened \cup {Nil} /\ (opened # {} /\ conn' = Nil => Refused' # {})
  BY DEF Connects, Usable
<1> QED
  BY <1>1, <1>2, <1>3 DEF Connects, Usable

(* An answer that is what has been written: the request that gets it is    *)
(* done, and the others are where they were.                               *)
LEMMA AnswerInductive ==
  ASSUME Inductive, NEW r \in Request, NEW code \in Codes,
         Answer(r, code), pc[r] # "done",
         written' = written,
         UNCHANGED <<connected, stdout, stderr, opened>>,
         \/ UNCHANGED <<conn, dialed>>
         \/ /\ code = "500" /\ pc[r] = "dial" /\ conn' \in {conn, Nil}
            /\ dialed' = [dialed EXCEPT ![r] = Pair(Nil)],
         code = "200" => written[r] = Len(Data[r]) /\ Bad(r) = {},
         code = "400" => \/ "other" \in Body[r] /\ written[r] = 0
                         \/ written[r] + 1 \in Bad(r),
         code \in {"405", "500"} => written[r] = 0
  PROVE  Inductive'
<1> USE DEF Inductive
<1>1. /\ pc' = [pc EXCEPT ![r] = "done"] /\ status' = [status EXCEPT ![r] = code]
      /\ opened' = opened
      /\ connected' = connected /\ stdout' = stdout /\ stderr' = stderr
  BY DEF Answer, Goto
<1>a. Refused \subseteq Refused'
  BY <1>1, RefusedStays DEF Functions
<1>2. Functions'
  <2>1. Pair(Nil) \in [stdout : Streams, stderr : Streams] /\ Nil \in Streams
    BY DEF Pair, Streams
  <2> QED
    BY <1>1, <2>1 DEF Functions, Labels
<1>3. Connects'
  <2>1. \A q \in Request : pc'[q] # "done" => pc'[q] = pc[q] /\ dialed'[q] = dialed[q]
    BY <1>1 DEF Functions
  <2>2. conn' = conn \/ (conn' = Nil /\ Refused' # {})
    BY <1>1 DEF Functions, Refused
  <2> QED
    BY <1>1, <1>a, <2>1, <2>2, AwayConnects
<1>4. Progress'
  BY <1>1 DEF Functions, Progress, Bad
<1>5. AnswersMatch'
  <2> SUFFICES ASSUME NEW q \in Request
               PROVE  /\ status'[q] = "200" => written[q] = Len(Data[q]) /\ Bad(q) = {}
                      /\ status'[q] = "400" =>
                           \/ "other" \in Body[q] /\ written[q] = 0
                           \/ written[q] + 1 \in Bad(q) /\ \A k \in Bad(q) : written[q] < k
                      /\ status'[q] \in {"405", "500"} => written[q] = 0
    BY DEF AnswersMatch, Bad
  <2>1. CASE q = r
    BY <2>1, <1>1 DEF Functions, Progress
  <2>2. CASE q # r
    BY <2>2, <1>1 DEF Functions, AnswersMatch
  <2> QED
    BY <2>1, <2>2
<1> QED
  BY <1>2, <1>3, <1>4, <1>5

(* A request that goes on, without an answer and without a write.          *)
LEMMA GotoInductive ==
  ASSUME Inductive, NEW r \in Request, NEW label \in Labels \ {"new", "done"},
         Goto(r, label), pc[r] \notin {"write", "done"},
         written' = written, status' = status,
         Functions', Connects'
  PROVE  Inductive'
<1> USE DEF Inductive
<1>1. Progress'
  BY DEF Goto, Functions, Progress, Bad
<1>2. AnswersMatch'
  BY DEF AnswersMatch, Bad
<1> QED
  BY <1>1, <1>2

----------------------------------------------------------------------------
(* The steps of a request that connects.                                   *)
LEMMA ConnectInductive ==
  ASSUME Inductive, NEW r \in Request,
         \/ Check(r) \/ Dial(r) \/ ReturnStdout(r) \/ ReturnStderr(r) \/ DialFixed(r)
         \/ SetStdout(r) \/ SetStderr(r) \/ Store(r)
  PROVE  Inductive'
<1> USE DEF Inductive
<1>a. Refused \subseteq Refused'
  BY RefusedStays DEF Functions, Check, Dial, ReturnStdout, ReturnStderr, DialFixed,
     SetStdout, SetStderr, Store, handler
<1>b. \A writer \in Streams : Pair(writer) \in [stdout : Streams, stderr : Streams]
  BY DEF Pair
<1>1. CASE Check(r)
  <2>1. Functions'
    BY <1>1 DEF Check, Goto, Functions, Labels, handler
  <2>2. Connects'
    BY <1>1, <1>a DEF Check, Goto, Functions, Connects, Usable, handler
  <2> QED
    BY <1>1, <2>1, <2>2, GotoInductive DEF Check, Labels
<1>2. CASE Dial(r)
  <2>a. PICK c \in Conn \ opened :
          /\ opened' = opened \cup {c} /\ conn' = c
          /\ dialed' = [dialed EXCEPT ![r] = Pair(c)]
    BY <1>2 DEF Dial
  <2>1. Functions'
    <3>1. c \in Streams /\ Pair(c) \in [stdout : Streams, stderr : Streams]
      BY <1>b DEF Streams
    <3> QED
      BY <1>2, <2>a, <3>1 DEF Dial, Goto, Functions, Labels
  <2>2. Connects'
    <3>1. Usable(c)' /\ c # None
      BY <2>a, NoneAssumption DEF Usable
    <3>2. \A writer \in Streams : Usable(writer) => writer \in opened' \cup {Fixed, Nil}
                                   /\ (writer = Nil => Refused' # {})
      BY <1>a, <2>a DEF Usable
    <3>3. Pair(c).stdout = c /\ Pair(c).stderr = c
      BY DEF Pair
    <3> QED
      BY <1>2, <2>a, <3>1, <3>2, <3>3 DEF Dial, Goto, Functions, Connects, Usable
  <2> QED
    BY <1>2, <2>1, <2>2, GotoInductive DEF Dial, Labels
<1>3. CASE ReturnStdout(r)
  <2>a. PICK c \in {dialed[r].stdout, conn} : dialed' = [dialed EXCEPT ![r].stdout = c]
    BY <1>3 DEF ReturnStdout
  <2>b. Usable(c) /\ c \in Streams
    <3>1. Usable(dialed[r].stdout) /\ Usable(conn)
      BY <1>3 DEF ReturnStdout, Connects
    <3> QED
      BY <2>a, <3>1, UsableSome
  <2>1. Functions'
    BY <1>3, <2>a, <2>b DEF ReturnStdout, Goto, Functions, Labels, handler
  <2>2. Connects'
    <3>1. /\ dialed'[r].stdout \in {dialed[r].stdout, c}
          /\ dialed'[r].stderr \in {dialed[r].stderr, c}
          /\ \A q \in Request : q # r => dialed'[q] = dialed[q]
      BY <2>a DEF Functions
    <3>2. \A writer : Usable(writer) =>
            writer \in opened \cup {Fixed, Nil} /\ (writer = Nil => Refused' # {})
      BY <1>a DEF Usable
    <3> QED
      BY <1>3, <2>b, <3>1, <3>2 DEF ReturnStdout, Goto, Functions, Connects, Usable, handler
  <2> QED
    BY <1>3, <2>1, <2>2, GotoInductive DEF ReturnStdout, Labels
<1>4. CASE ReturnStderr(r)
  <2>a. PICK c \in {dialed[r].stderr, conn} : dialed' = [dialed EXCEPT ![r].stderr = c]
    BY <1>4 DEF ReturnStderr
  <2>b. Usable(c) /\ c \in Streams
    <3>1. Usable(dialed[r].stderr) /\ Usable(conn)
      BY <1>4 DEF ReturnStderr, Connects
    <3> QED
      BY <2>a, <3>1, UsableSome
  <2>1. Functions'
    BY <1>4, <2>a, <2>b DEF ReturnStderr, Goto, Functions, Labels, handler
  <2>2. Connects'
    <3>1. /\ dialed'[r].stdout \in {dialed[r].stdout, c}
          /\ dialed'[r].stderr \in {dialed[r].stderr, c}
          /\ \A q \in Request : q # r => dialed'[q] = dialed[q]
      BY <2>a DEF Functions
    <3>2. \A writer : Usable(writer) =>
            writer \in opened \cup {Fixed, Nil} /\ (writer = Nil => Refused' # {})
      BY <1>a DEF Usable
    <3> QED
      BY <1>4, <2>b, <3>1, <3>2 DEF ReturnStderr, Goto, Functions, Connects, Usable, handler
  <2> QED
    BY <1>4, <2>1, <2>2, GotoInductive DEF ReturnStderr, Labels
<1>5. CASE DialFixed(r)
  <2>1. Functions'
    <3>1. Pair(Fixed) \in [stdout : Streams, stderr : Streams]
      BY <1>b DEF Streams
    <3> QED
      BY <1>5, <3>1 DEF DialFixed, Goto, Functions, Labels, handler
  <2>2. Connects'
    <3>1. Pair(Fixed).stdout = Fixed /\ Pair(Fixed).stderr = Fixed /\ Fixed # Nil
      BY NoneAssumption DEF Pair
    <3> QED
      BY <1>5, <1>a, <3>1 DEF DialFixed, Goto, Functions, Connects, Usable, handler
  <2> QED
    BY <1>5, <2>1, <2>2, GotoInductive DEF DialFixed, Labels
<1>6. CASE SetStdout(r)
  <2>a. Usable(dialed[r].stdout) /\ dialed[r].stdout # None
    BY <1>6, UsableSome DEF SetStdout, Connects
  <2>1. Functions'
    BY <1>6 DEF SetStdout, Goto, Functions, Labels
  <2>2. Connects'
    BY <1>6, <1>a, <2>a DEF SetStdout, Goto, Functions, Connects, Usable
  <2> QED
    BY <1>6, <2>1, <2>2, GotoInductive DEF SetStdout, Labels
<1>7. CASE SetStderr(r)
  <2>a. Usable(dialed[r].stderr) /\ dialed[r].stderr # None
    BY <1>7, UsableSome DEF SetStderr, Connects
  <2>1. Functions'
    BY <1>7 DEF SetStderr, Goto, Functions, Labels
  <2>2. Connects'
    BY <1>7, <1>a, <2>a DEF SetStderr, Goto, Functions, Connects, Usable
  <2> QED
    BY <1>7, <2>1, <2>2, GotoInductive DEF SetStderr, Labels
<1>8. CASE Store(r)
  <2>1. Functions'
    <3>1. Pair(None) \in [stdout : Streams, stderr : Streams]
      BY <1>b DEF Streams
    <3> QED
      BY <1>8, <3>1 DEF Store, Goto, Functions, Labels
  <2>2. Connects'
    BY <1>8, <1>a DEF Store, Goto, Functions, Connects, Usable
  <2> QED
    BY <1>8, <2>1, <2>2, GotoInductive DEF Store, Labels
<1> QED
  BY <1>1, <1>2, <1>3, <1>4, <1>5, <1>6, <1>7, <1>8

(* A request comes, and its body is read.                                  *)
LEMMA ReceiveInductive ==
  ASSUME Inductive, NEW r \in Request, Accept(r) \/ ReadBody(r)
  PROVE  Inductive'
<1> USE DEF Inductive
<1>1. ASSUME NEW label \in {"check", "write"}, Goto(r, label),
             pc[r] \in {"new", "read"}, label = "write" => pc[r] = "read",
             UNCHANGED <<status, handler, opened, dialed, written>>
      PROVE  Inductive'
  <2>1. Functions'
    BY <1>1 DEF Goto, Functions, Labels, handler
  <2>2. Connects'
    <3>1. Refused' = Refused
      BY <1>1 DEF Refused
    <3> QED
      BY <1>1, <3>1 DEF Goto, Functions, Connects, Usable, handler
  <2> QED
    BY <1>1, <2>1, <2>2, GotoInductive DEF Labels
<1>2. ASSUME pc[r] \in {"new", "read"},
             \/ Answer(r, "405") \/ Answer(r, "500")
             \/ "other" \in Body[r] /\ Answer(r, "400"),
             UNCHANGED <<handler, opened, dialed, written>>
      PROVE  Inductive'
  <2>1. written[r] = 0
    BY <1>2 DEF Progress
  <2> QED
    BY <1>2, <2>1, AnswerInductive DEF Codes, handler
<1>3. CASE Accept(r)
  BY <1>1, <1>2, <1>3 DEF Accept
<1>4. CASE ReadBody(r)
  BY <1>1, <1>2, <1>4 DEF ReadBody
<1> QED
  BY <1>3, <1>4

(* The messages are written up to one that cannot be decoded.              *)
LEMMA WriteInductive ==
  ASSUME Inductive, NEW r \in Request, Write(r)
  PROVE  Inductive'
<1> USE DEF Inductive
<1>1. /\ pc[r] = "write" /\ written[r] < Len(Data[r]) /\ written[r] + 1 \notin Bad(r)
      /\ written' = [written EXCEPT ![r] = written[r] + 1]
      /\ UNCHANGED <<connected, stdout, stderr, conn, opened, pc, dialed, status>>
  BY DEF Write, handler
<1>2. Functions'
  BY <1>1 DEF Functions
<1>3. Connects'
  BY <1>1 DEF Connects, Usable, Refused
<1>4. Progress'
  <2>1. \A k \in Bad(r) : written[r] + 1 < k
    BY <1>1, Places DEF Functions, Progress
  <2> QED
    BY <1>1, <2>1, Places DEF Functions, Progress, Bad
<1>5. status[r] = None
  BY <1>1 DEF Progress
<1>6. AnswersMatch'
  BY <1>1, <1>5, NoneAssumption DEF Functions, AnswersMatch, Bad, Codes
<1> QED
  BY <1>2, <1>3, <1>4, <1>6

(* The answers that end a request.                                         *)
LEMMA EndInductive ==
  ASSUME Inductive, NEW r \in Request,
         DialFails(r) \/ WritePanics(r) \/ BadMessage(r) \/ Written(r)
  PROVE  Inductive'
<1> USE DEF Inductive
<1>1. CASE DialFails(r)
  <2>1. written[r] = 0
    BY <1>1 DEF DialFails, Progress
  <2> QED
    BY <1>1, <2>1, AnswerInductive DEF DialFails, Codes
<1>2. CASE BadMessage(r)
  BY <1>2, AnswerInductive DEF BadMessage, Codes, handler
<1>4. CASE WritePanics(r)
  BY <1>4, AnswerInductive DEF WritePanics, Codes, handler
<1>3. CASE Written(r)
  <2>1. written[r] = Len(Data[r])
    BY <1>3 DEF Written
  <2>2. Bad(r) = {}
    BY <2>1, Places DEF Progress
  <2> QED
    BY <1>3, <2>1, <2>2, AnswerInductive DEF Written, Codes, handler
<1> QED
  BY <1>1, <1>2, <1>3, <1>4

(* The server: its end cuts the requests that have no answer.              *)
LEMMA ServerInductive ==
  ASSUME Inductive, Listen \/ ConnectionRefused \/ Signal \/ Exit
  PROVE  Inductive'
<1> USE DEF Inductive
<1>1. CASE Listen \/ Signal
  <2>1. UNCHANGED <<connected, stdout, stderr, conn, opened, pc, dialed, written, status>>
    BY <1>1 DEF Listen, Signal, handler
  <2> QED
    BY <2>1 DEF Functions, Connects, Usable, Refused, Progress, AnswersMatch, Bad
<1>2. CASE ConnectionRefused
  <2>1. Startup \in Request
    BY <1>2, StartupAssumption DEF ConnectionRefused
  <2> QED
    BY <1>2, <2>1, AnswerInductive DEF ConnectionRefused, Codes, handler
<1>3. CASE Exit
  <2>1. /\ pc' = [r \in Request |-> "done"]
        /\ status' = [r \in Request |-> IF status[r] = None THEN "cut" ELSE status[r]]
        /\ UNCHANGED <<connected, stdout, stderr, conn, opened, dialed, written>>
    BY <1>3 DEF Exit, handler
  <2>2. Functions'
    BY <2>1 DEF Functions, Labels, Codes
  <2>3. Connects'
    <3>1. Refused \subseteq Refused'
      BY <2>1, NoneAssumption DEF Refused, Codes
    <3> QED
      BY <2>1, <3>1 DEF Connects, Usable
  <2>4. Progress'
    BY <2>1 DEF Progress, Bad
  <2>5. AnswersMatch'
    BY <2>1 DEF AnswersMatch, Bad
  <2> QED
    BY <2>2, <2>3, <2>4, <2>5
<1> QED
  BY <1>1, <1>2, <1>3

----------------------------------------------------------------------------
(* Every step keeps the invariant.                                         *)
LEMMA NextInductive == Inductive /\ [Next]_vars => Inductive'
<1> SUFFICES ASSUME Inductive, [Next]_vars PROVE Inductive'
  OBVIOUS
<1>1. CASE Listen \/ ConnectionRefused \/ Signal \/ Exit
  BY <1>1, ServerInductive
<1>2. ASSUME NEW r \in Request, Accept(r) \/ ReadBody(r) PROVE Inductive'
  BY <1>2, ReceiveInductive
<1>3. ASSUME NEW r \in Request, Handle(r) PROVE Inductive'
  BY <1>3, ConnectInductive, WriteInductive, EndInductive DEF Handle
<1>4. CASE UNCHANGED vars
  <2>1. UNCHANGED <<connected, stdout, stderr, conn, opened, pc, dialed, written, status>>
    BY <1>4 DEF vars, handler
  <2> QED
    BY <2>1 DEF Inductive, Functions, Connects, Usable, Refused, Progress, AnswersMatch, Bad
<1> QED
  BY <1>1, <1>2, <1>3, <1>4 DEF Next

LEMMA SpecInductive == Spec => []Inductive
  BY InitInductive, NextInductive, PTL DEF Spec

----------------------------------------------------------------------------
(* Type correctness: no more is written of a request than there is of it.  *)
THEOREM TypeCorrect == Spec => []TypeOK
<1>1. Inductive => TypeOK
  <2> SUFFICES ASSUME Inductive, NEW r \in Request
               PROVE  /\ connected \in BOOLEAN /\ {stdout, stderr, conn} \subseteq Streams
                      /\ opened \subseteq Conn
                      /\ {dialed[r].stdout, dialed[r].stderr} \subseteq Streams
                      /\ written[r] \in 0 .. Len(Data[r])
                      /\ status[r] \in Codes \cup {None}
    BY DEF Inductive, Functions, TypeOK
  <2> QED
    BY Places DEF Inductive, Functions, Progress
<1> QED
  BY <1>1, SpecInductive, PTL

(* No request writes before both writers are there, and none to a nil      *)
(* connection unless a dial failed, however many connect at the same time. *)
THEOREM WritersAreReady == Spec => []WritersReady
<1>1. Inductive => WritersReady
  BY DEF Inductive, Connects, Usable, WritersReady
<1> QED
  BY <1>1, SpecInductive, PTL

(* The answers tell what was written.                                      *)
THEOREM AnswersTell == Spec => []AnswersMatch
<1>1. Inductive => AnswersMatch
  BY DEF Inductive
<1> QED
  BY <1>1, SpecInductive, PTL

(* When the first requests are done connecting, where the messages go is   *)
(* settled.                                                                *)
THEOREM ConnectedForGood == Spec => Settled
<1> DEFINE Step ==
      connected /\ Connecting = {}
        => handler' = handler /\ opened' = opened /\ Connecting' = {}
<1>1. Inductive /\ [Next]_vars => [Step]_vars
  <2> SUFFICES ASSUME Inductive, Next, connected, Connecting = {}
               PROVE  handler' = handler /\ opened' = opened /\ Connecting' = {}
    OBVIOUS
  <2>1. \A r \in Request :
          pc[r] \notin {"dial", "return stdout", "return stderr", "stdout", "stderr", "store"}
    BY DEF Connecting
  <2>2. ASSUME handler' = handler, opened' = opened,
               \A r \in Request :
                 pc'[r] \notin {"dial", "return stdout", "return stderr", "stdout", "stderr", "store"}
        PROVE  handler' = handler /\ opened' = opened /\ Connecting' = {}
    BY <2>2 DEF Connecting
  <2>3. pc \in [Request -> Labels]
    BY DEF Inductive, Functions
  <2>4. CASE Listen \/ Signal
    BY <2>1, <2>2, <2>4 DEF Listen, Signal
  <2>5. CASE ConnectionRefused
    BY <2>1, <2>2, <2>3, <2>5, StartupAssumption DEF ConnectionRefused, Answer, Goto
  <2>6. CASE Exit
    BY <2>2, <2>6 DEF Exit
  <2>7. ASSUME NEW r \in Request, Accept(r) \/ ReadBody(r)
        PROVE  handler' = handler /\ opened' = opened /\ Connecting' = {}
    BY <2>1, <2>2, <2>3, <2>7 DEF Accept, ReadBody, Answer, Goto
  <2>8. ASSUME NEW r \in Request, Handle(r)
        PROVE  handler' = handler /\ opened' = opened /\ Connecting' = {}
    <3>1. CASE Check(r)
      BY <2>1, <2>2, <2>3, <3>1 DEF Check, Goto
    <3>2. CASE Write(r) \/ WritePanics(r) \/ BadMessage(r) \/ Written(r)
      BY <2>1, <2>2, <2>3, <3>2 DEF Write, WritePanics, BadMessage, Written, Answer, Goto
    <3>3. ~(\/ Dial(r) \/ ReturnStdout(r) \/ ReturnStderr(r) \/ DialFixed(r) \/ DialFails(r)
            \/ SetStdout(r) \/ SetStderr(r) \/ Store(r))
      BY <2>1 DEF Dial, ReturnStdout, ReturnStderr, DialFixed, DialFails,
         SetStdout, SetStderr, Store
    <3> QED
      BY <2>8, <3>1, <3>2, <3>3 DEF Handle
  <2> QED
    BY <2>4, <2>5, <2>6, <2>7, <2>8 DEF Next
<1> QED
  BY <1>1, SpecInductive, PTL DEF Spec, Settled
=============================================================================
