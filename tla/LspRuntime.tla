------------------------------ MODULE LspRuntime ------------------------------
(***************************************************************************)
(* One language server and the LspRuntime that several handlers share: the *)
(* bounded channel of messages to it and the task that writes them, the    *)
(* task that reads its output and the broadcast channel it feeds, the      *)
(* callers that wait on that channel for their answer, and shutdown.       *)
(*                                                                         *)
(* A caller makes one request and stands for it in the channel.  What the  *)
(* server sends carries, beside its id, the caller it answers, which no    *)
(* guard reads.                                                            *)
(***************************************************************************)
EXTENDS Integers, Sequences

CONSTANTS
    Callers,      \* invocations of LspRuntime::call
    Ids,          \* JSON-RPC ids
    RequestId,    \* the id of each caller's request, chosen by its client
    ServerIds,    \* ids of the requests the server makes of its own
    QueueSize,    \* capacity of the mpsc channel to the writer task (256)
    RingSize,     \* capacity of the broadcast channel (256)
    MaxOutbound,  \* bound: messages the server sends in a behaviour
    NoId, NoCaller, NoMessage

ShutdownMsg == "shutdown"
ExitMsg     == "exit"
Messages    == Callers \cup {ShutdownMsg, ExitMsg}

ASSUME SizesAssumption ==
    QueueSize \in Nat \ {0} /\ RingSize \in Nat \ {0} /\ MaxOutbound \in Nat
ASSUME IdsAssumption == RequestId \in [Callers -> Ids] /\ ServerIds \subseteq Ids
ASSUME NoneAssumption ==
    /\ NoId \notin Ids /\ NoCaller \notin Callers /\ NoMessage \notin Messages
    /\ {ShutdownMsg, ExitMsg} \cap Callers = {}

VARIABLES
    inbound,   \* what the mpsc channel holds
    writing,   \* the message the writer task has taken out of it
    writer,    \* whether the writer task runs; its end closes the channel
    server,    \* whether the process runs
    pending,   \* requests the server has read and not answered
    reader,    \* whether the reader task runs
    outbound,  \* everything the broadcast channel has carried
    pc,        \* where a caller stands
    cursor,    \* cursor[c]: how much of outbound the receiver of c has behind it
    answer,    \* answer[c]: whose answer c returned with
    stop       \* where LspRuntime::shutdown stands

channelVars == <<inbound, writing, writer>>
serverVars  == <<server, pending, reader, outbound>>
callerVars  == <<pc, cursor, answer>>
vars        == <<channelVars, serverVars, callerVars, stop>>

Init ==
    /\ inbound = <<>>
    /\ writing = NoMessage
    /\ writer = "up"
    /\ server = "up"
    /\ pending = {}
    /\ reader = "up"
    /\ outbound = <<>>
    /\ pc = [c \in Callers |-> "idle"]
    /\ cursor = [c \in Callers |-> 0]
    /\ answer = [c \in Callers |-> NoCaller]
    /\ stop = "idle"

--------------------------------------------------------------------------------
\* To the server

\* Mutant: a channel without a bound.
EnqueueUnbounded(m) ==
    /\ writer = "up"
    /\ inbound' = Append(inbound, m)

\* send(): waits for room in the channel.
Enqueue(m) ==
    /\ writer = "up"
    /\ Len(inbound) < QueueSize
    /\ inbound' = Append(inbound, m)

TakeMessage ==
    /\ writer = "up"
    /\ writing = NoMessage
    /\ inbound # <<>>
    /\ writing' = Head(inbound)
    /\ inbound' = Tail(inbound)
    /\ UNCHANGED <<writer, serverVars, callerVars, stop>>

\* Mutant: a message that was written is written again.
WriteAgain ==
    /\ writing # NoMessage
    /\ server = "up"
    /\ pending' = pending \cup ({writing} \cap Callers)
    /\ UNCHANGED <<inbound, writing, writer, server, reader, outbound, callerVars, stop>>

\* write_all and flush return once the server has read enough of its input.
WriteMessage ==
    /\ writing # NoMessage
    /\ server = "up"
    /\ writing' = NoMessage
    /\ pending' = pending \cup ({writing} \cap Callers)
    /\ UNCHANGED <<inbound, writer, server, reader, outbound, callerVars, stop>>

\* The pipe is broken: the task ends, and the channel with all it holds.
WriteFails ==
    /\ writing # NoMessage
    /\ server = "exited"
    /\ writing' = NoMessage
    /\ writer' = "ended"
    /\ inbound' = <<>>
    /\ UNCHANGED <<serverVars, callerVars, stop>>

--------------------------------------------------------------------------------
\* From the server

\* The reader task broadcasts a frame, whoever listens.
Broadcast(i, c) ==
    /\ server = "up" /\ reader = "up"
    /\ Len(outbound) < MaxOutbound
    /\ outbound' = Append(outbound, [id |-> i, to |-> c])
    /\ UNCHANGED <<channelVars, server, reader, callerVars, stop>>

Answer(c) ==
    /\ c \in pending
    /\ Broadcast(RequestId[c], c)
    /\ pending' = pending \ {c}

\* A notification, or a request of the server's own, whose ids it chooses.
ServerSpeaks ==
    /\ \E i \in ServerIds \cup {NoId} : Broadcast(i, NoCaller)
    /\ UNCHANGED pending

ServerExits ==
    /\ server = "up"
    /\ server' = "exited"
    /\ UNCHANGED <<channelVars, pending, reader, outbound, callerVars, stop>>

\* End of file, or a frame that cannot be decoded.  The broadcast channel stays open: the
\* runtime holds a sender of its own.
ReaderEnds ==
    /\ reader = "up"
    /\ reader' = "ended"
    /\ UNCHANGED <<channelVars, server, pending, outbound, callerVars, stop>>

--------------------------------------------------------------------------------
\* LspRuntime::call

\* A receiver is made before the request is sent.
Subscribe(c) ==
    /\ pc[c] = "idle"
    /\ cursor' = [cursor EXCEPT ![c] = Len(outbound)]
    /\ pc' = [pc EXCEPT ![c] = "send"]
    /\ UNCHANGED <<channelVars, serverVars, answer, stop>>

SendRequest(c) ==
    /\ pc[c] = "send"
    /\ Enqueue(c)
    /\ pc' = [pc EXCEPT ![c] = "wait"]
    /\ UNCHANGED <<writing, writer, serverVars, cursor, answer, stop>>

\* The call returns and drops its receiver.
Return(c, result) ==
    /\ pc' = [pc EXCEPT ![c] = result]
    /\ cursor' = [cursor EXCEPT ![c] = 0]
    /\ UNCHANGED <<channelVars, serverVars, stop>>

Fail(c) == Return(c, "failed") /\ UNCHANGED answer

\* The channel is closed, also while the caller waits for room in it.
SendFails(c) == pc[c] = "send" /\ writer = "ended" /\ Fail(c)

Unread(c)      == Len(outbound) - cursor[c]
NextMessage(c) == outbound[cursor[c] + 1]

\* Mutant: a receiver that lags goes on with what the channel still holds.
SkipLag(c) ==
    /\ pc[c] = "wait"
    /\ Unread(c) > RingSize
    /\ cursor' = [cursor EXCEPT ![c] = Len(outbound) - RingSize]
    /\ UNCHANGED <<channelVars, serverVars, pc, answer, stop>>

\* The channel has dropped messages that this receiver had not read: recv fails, and the call.
ReceiveLagged(c) ==
    /\ pc[c] = "wait"
    /\ Unread(c) > RingSize
    /\ Fail(c)

\* Mutant: the receiver is made anew before each recv.
SubscribeAnew(c) ==
    /\ pc[c] = "wait"
    /\ Unread(c) \in 1..RingSize
    /\ NextMessage(c).id # RequestId[c]
    /\ cursor' = [cursor EXCEPT ![c] = Len(outbound)]
    /\ UNCHANGED <<channelVars, serverVars, pc, answer, stop>>

ReceiveOther(c) ==
    /\ pc[c] = "wait"
    /\ Unread(c) \in 1..RingSize
    /\ NextMessage(c).id # RequestId[c]
    /\ cursor' = [cursor EXCEPT ![c] = @ + 1]
    /\ UNCHANGED <<channelVars, serverVars, pc, answer, stop>>

\* The first message with the expected id ends the call.
ReceiveAnswer(c) ==
    /\ pc[c] = "wait"
    /\ Unread(c) \in 1..RingSize
    /\ NextMessage(c).id = RequestId[c]
    /\ answer' = [answer EXCEPT ![c] = NextMessage(c).to]
    /\ Return(c, "answered")

--------------------------------------------------------------------------------
\* LspRuntime::shutdown

BeginStop ==
    /\ stop = "idle"
    /\ stop' = "send_shutdown"
    /\ UNCHANGED <<channelVars, serverVars, callerVars>>

\* Mutant: a closed channel is not noticed.
StopSendsOnly(here, m, after) ==
    /\ stop = here
    /\ Enqueue(m)
    /\ stop' = after
    /\ UNCHANGED <<writing, writer, serverVars, callerVars>>

\* A send waits for room in the channel, and there is no time limit on that; a closed channel
\* is ignored.
StopSends(here, m, after) ==
    /\ stop = here
    /\ Enqueue(m) \/ (writer = "ended" /\ UNCHANGED inbound)
    /\ stop' = after
    /\ UNCHANGED <<writing, writer, serverVars, callerVars>>

SendShutdown == StopSends("send_shutdown", ShutdownMsg, "send_exit")
SendExit     == StopSends("send_exit", ExitMsg, "reap")

\* The process exits within two seconds, or is killed.
Reap ==
    /\ stop = "reap"
    /\ server' = "exited"
    /\ stop' = "done"
    /\ UNCHANGED <<channelVars, pending, reader, outbound, callerVars>>

\* Waiting for it or killing it reports an error, and whoever asked for the stop goes on to
\* force_stop ...
ReapFails ==
    /\ stop = "reap"
    /\ stop' = "force"
    /\ UNCHANGED <<channelVars, serverVars, callerVars>>

\* ... which kills the process unless it has exited.
ForceStop ==
    /\ stop = "force"
    /\ server' = "exited"
    /\ stop' = "done"
    /\ UNCHANGED <<channelVars, pending, reader, outbound, callerVars>>

--------------------------------------------------------------------------------
CallStep(c) ==
    SendRequest(c) \/ SendFails(c) \/ ReceiveLagged(c) \/ ReceiveOther(c) \/ ReceiveAnswer(c)

Next ==
    \/ TakeMessage \/ WriteMessage \/ WriteFails
    \/ \E c \in Callers : Answer(c) \/ Subscribe(c) \/ CallStep(c)
    \/ ServerSpeaks \/ ServerExits \/ ReaderEnds
    \/ BeginStop \/ SendShutdown \/ SendExit \/ Reap \/ ReapFails \/ ForceStop

Spec == Init /\ [][Next]_vars

\* The daemon's tasks run, and room in the channel is handed out first-in first-out.  The
\* server need not read, answer or exit.
Fairness ==
    /\ WF_vars(TakeMessage \/ WriteFails)
    /\ \A c \in Callers : SF_vars(CallStep(c))
    /\ SF_vars(SendShutdown \/ SendExit \/ Reap \/ ReapFails \/ ForceStop)

FairSpec == Spec /\ Fairness

--------------------------------------------------------------------------------
\* Properties

IsQueued(c)   == \E j \in 1..Len(inbound) : inbound[j] = c
IsAnswered(c) == \E j \in 1..Len(outbound) : outbound[j].to = c

TypeOK ==
    /\ inbound \in Seq(Messages) /\ Len(inbound) <= QueueSize
    /\ writing \in Messages \cup {NoMessage}
    /\ writer \in {"up", "ended"} /\ server \in {"up", "exited"} /\ reader \in {"up", "ended"}
    /\ pending \subseteq Callers
    /\ outbound \in Seq([id : Ids \cup {NoId}, to : Callers \cup {NoCaller}])
    /\ Len(outbound) <= MaxOutbound
    /\ pc \in [Callers -> {"idle", "send", "wait", "answered", "failed"}]
    /\ cursor \in [Callers -> 0..MaxOutbound]
    /\ \A c \in Callers : cursor[c] <= Len(outbound)
    /\ answer \in [Callers -> Callers \cup {NoCaller}]
    /\ stop \in {"idle", "send_shutdown", "send_exit", "reap", "force", "done"}

\* A caller that waits has not passed its answer: it subscribed before it sent, and reads on
\* from where it stood.
AnswerIsAhead ==
    \A c \in Callers : \A j \in 1..Len(outbound) :
        pc[c] = "wait" /\ outbound[j].to = c => j > cursor[c]

\* A request is in one place: it is queued, being written, with the server, answered, or lost
\* with the channel; in particular no request reaches the server twice or is answered twice.
RequestOnce ==
    \A c \in Callers :
        /\ \A i, j \in 1..Len(inbound) : inbound[i] = c /\ inbound[j] = c => i = j
        /\ \A i, j \in 1..Len(outbound) : outbound[i].to = c /\ outbound[j].to = c => i = j
        /\ IsQueued(c) => writing # c /\ c \notin pending /\ ~IsAnswered(c)
        /\ writing = c => c \notin pending /\ ~IsAnswered(c)
        /\ c \in pending => ~IsAnswered(c)

\* A caller whose answer the server has sent returns, with it or with an error, although the
\* channel may have dropped it by then.
AnsweredCallReturns ==
    \A c \in Callers : (pc[c] = "wait" /\ IsAnswered(c)) ~> pc[c] \in {"answered", "failed"}

\* shutdown ends with the process gone, unless the server has stopped reading and the channel
\* is full for ever: only then does it not get to its time limit.
StopEndsUnlessStuck ==
    [](stop = "send_shutdown" =>
        <>(stop = "done" /\ server = "exited") \/ <>[](Len(inbound) = QueueSize /\ server = "up"))

================================================================================
