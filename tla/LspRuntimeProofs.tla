--------------------------- MODULE LspRuntimeProofs ---------------------------
(***************************************************************************)
(* Machine-checked proofs about LspRuntime, for any callers and ids, any   *)
(* capacities of its two channels, and any number of messages.             *)
(***************************************************************************)
EXTENDS LspRuntime, SequenceTheorems, TLAPS

USE SizesAssumption, IdsAssumption, NoneAssumption

Answers == [id : Ids \cup {NoId}, to : Callers \cup {NoCaller}]

\* Every variable of the runtime stays in its domain; its queue never holds more than it may,
\* and no receiver is ahead of the channel.
LEMMA InitType == Init => TypeOK
  BY DEF Init, TypeOK

\* A call that returns keeps the types; it leaves its receiver at the start of the channel.
LEMMA ReturnType ==
    ASSUME TypeOK, NEW c \in Callers, NEW result \in {"answered", "failed"}, Return(c, result),
           answer' \in [Callers -> Callers \cup {NoCaller}]
    PROVE  TypeOK'
  <1>1. Len(outbound) \in Nat
    BY DEF TypeOK
  <1>2. /\ cursor' \in [Callers -> 0..MaxOutbound]
        /\ \A d \in Callers : cursor'[d] <= Len(outbound)
    BY <1>1 DEF TypeOK, Return
  <1>3. pc' \in [Callers -> {"idle", "send", "wait", "answered", "failed"}]
    BY DEF TypeOK, Return
  <1>. QED  BY <1>2, <1>3 DEF TypeOK, Return, channelVars, serverVars

\* No step takes a variable out of its domain.
LEMMA StepType == TypeOK /\ [Next]_vars => TypeOK'
  <1> SUFFICES ASSUME TypeOK, [Next]_vars PROVE TypeOK'
    OBVIOUS
  <1> USE DEF TypeOK
  <1>1. CASE TakeMessage
    <2>1. Head(inbound) \in Messages /\ Tail(inbound) \in Seq(Messages)
      BY <1>1 DEF TakeMessage
    <2>2. Len(Tail(inbound)) = Len(inbound) - 1
      BY <1>1 DEF TakeMessage
    <2>. QED  BY <1>1, <2>1, <2>2 DEF TakeMessage, serverVars, callerVars
  <1>2. CASE WriteMessage
    BY <1>2 DEF WriteMessage, callerVars
  <1>3. CASE WriteFails
    BY <1>3 DEF WriteFails, serverVars, callerVars
  <1>4. ASSUME NEW i \in Ids \cup {NoId}, NEW c \in Callers \cup {NoCaller}, Broadcast(i, c),
               pending' \subseteq pending
        PROVE  TypeOK'
    <2>1. outbound' \in Seq(Answers) /\ Len(outbound') = Len(outbound) + 1
      BY <1>4 DEF Broadcast, Answers
    <2>. QED  BY <1>4, <2>1 DEF Broadcast, channelVars, callerVars, Answers
  <1>5. ASSUME NEW c \in Callers, Answer(c) PROVE TypeOK'
    BY <1>4, <1>5 DEF Answer
  <1>6. CASE ServerSpeaks
    BY <1>4, <1>6 DEF ServerSpeaks
  <1>7. CASE ServerExits \/ ReaderEnds
    BY <1>7 DEF ServerExits, ReaderEnds, channelVars, callerVars
  <1>8. ASSUME NEW c \in Callers, Subscribe(c) PROVE TypeOK'
    BY <1>8 DEF Subscribe, channelVars, serverVars
  <1>9. ASSUME NEW c \in Callers, SendRequest(c) PROVE TypeOK'
    BY <1>9 DEF SendRequest, Enqueue, serverVars, Messages
  <1>10. ASSUME NEW c \in Callers, SendFails(c) \/ ReceiveLagged(c) PROVE TypeOK'
    <2>1. Return(c, "failed") /\ UNCHANGED answer
      BY <1>10 DEF SendFails, ReceiveLagged, Fail
    <2>. QED  BY <2>1, ReturnType
  <1>11. ASSUME NEW c \in Callers, ReceiveOther(c) PROVE TypeOK'
    <2>1. Len(outbound) \in Nat /\ cursor[c] + 1 \in 0..Len(outbound)
      BY <1>11 DEF ReceiveOther, Unread
    <2>. QED  BY <1>11, <2>1 DEF ReceiveOther, channelVars, serverVars
  <1>12. ASSUME NEW c \in Callers, ReceiveAnswer(c) PROVE TypeOK'
    <2>1. Len(outbound) \in Nat /\ cursor[c] + 1 \in 1..Len(outbound)
      BY <1>12 DEF ReceiveAnswer, Unread
    <2>2. NextMessage(c) \in Answers
      <3>1. outbound \in Seq(Answers)
        BY DEF Answers
      <3>2. outbound[cursor[c] + 1] \in Answers
        BY <2>1, <3>1, ElementOfSeq
      <3>. QED  BY <3>2 DEF NextMessage
    <2>3. NextMessage(c).to \in Callers \cup {NoCaller}
      BY <2>2 DEF Answers
    <2>4. Return(c, "answered") /\ answer' \in [Callers -> Callers \cup {NoCaller}]
      BY <1>12, <2>3 DEF ReceiveAnswer
    <2>. QED  BY <2>4, ReturnType
  <1>13. CASE BeginStop \/ Reap \/ ReapFails \/ ForceStop
    BY <1>13 DEF BeginStop, Reap, ReapFails, ForceStop, channelVars, serverVars, callerVars
  <1>14. CASE SendShutdown \/ SendExit
    <2>1. ASSUME NEW m \in Messages, Enqueue(m)
          PROVE  inbound' \in Seq(Messages) /\ Len(inbound') <= QueueSize
      BY <2>1 DEF Enqueue
    <2>2. inbound' \in Seq(Messages) /\ Len(inbound') <= QueueSize
      BY <1>14, <2>1 DEF SendShutdown, SendExit, StopSends, Messages
    <2>. QED  BY <1>14, <2>2 DEF SendShutdown, SendExit, StopSends, serverVars, callerVars
  <1>15. CASE UNCHANGED vars
    BY <1>15 DEF vars, channelVars, serverVars, callerVars
  <1>. QED  BY <1>1, <1>2, <1>3, <1>5, <1>6, <1>7, <1>8, <1>9, <1>10, <1>11, <1>12, <1>13,
               <1>14, <1>15 DEF Next, CallStep

\* LspRuntime and its tasks keep every variable in its domain.
THEOREM TypeCorrect == Spec => []TypeOK
  BY InitType, StepType, PTL DEF Spec

--------------------------------------------------------------------------------
(* Where a request is *)

Sent(c) == pc[c] \in {"wait", "answered", "failed"}

\* A request is anywhere only after its caller sent it, and its answer carries its id.
Traces ==
    /\ \A c \in Callers : IsQueued(c) \/ writing = c \/ c \in pending \/ IsAnswered(c) => Sent(c)
    /\ \A j \in 1..Len(outbound) :
          outbound[j].to \in Callers => outbound[j].id = RequestId[outbound[j].to]

Flow == RequestOnce /\ Traces /\ AnswerIsAhead

\* Nothing has been sent at the start.
LEMMA InitFlow == Init => Flow
  BY DEF Init, Flow, RequestOnce, Traces, AnswerIsAhead, IsQueued, IsAnswered, Messages

\* A step that moves no message and unsends no request.
LEMMA CallerFrame ==
    ASSUME TypeOK, Flow, UNCHANGED <<inbound, writing, pending, outbound>>,
           \A c \in Callers : Sent(c) => Sent(c)',
           \A c \in Callers : pc'[c] = "wait" =>
               \/ pc[c] = "wait" /\ cursor'[c] = cursor[c]
               \/ \A j \in 1..Len(outbound) : outbound[j].to = c => j > cursor'[c]
    PROVE  Flow'
  <1>1. \A c \in Callers : (IsQueued(c)' <=> IsQueued(c)) /\ (IsAnswered(c)' <=> IsAnswered(c))
    BY DEF IsQueued, IsAnswered
  <1>2. RequestOnce'
    BY <1>1 DEF Flow, RequestOnce
  <1>3. Traces'
    BY <1>1 DEF Flow, Traces
  <1>4. AnswerIsAhead'
    BY DEF Flow, AnswerIsAhead
  <1>. QED  BY <1>2, <1>3, <1>4 DEF Flow

\* What taking the first message out of the channel does to the requests in it.
LEMMA TakeFlow == ASSUME TypeOK, Flow, TakeMessage PROVE Flow'
  <1>1. /\ inbound \in Seq(Messages) /\ inbound # <<>>
        /\ Len(inbound) \in Nat \ {0} /\ Len(inbound') = Len(inbound) - 1
        /\ \A j \in 1..Len(inbound') : inbound'[j] = inbound[j + 1]
        /\ writing' = inbound[1] /\ writing = NoMessage
    BY DEF TakeMessage, TypeOK
  <1>2. UNCHANGED <<pending, outbound, pc, cursor>>
    BY DEF TakeMessage, serverVars, callerVars
  <1>3. ASSUME NEW c \in Callers
        PROVE  /\ IsQueued(c)' => IsQueued(c)
               /\ writing' = c => IsQueued(c)
               /\ IsQueued(c)' => writing' # c
               /\ IsAnswered(c)' <=> IsAnswered(c)
    <2>1. \A i, j \in 1..Len(inbound) : inbound[i] = c /\ inbound[j] = c => i = j
      BY DEF Flow, RequestOnce
    <2>2. \A j \in 1..Len(inbound') : j + 1 \in 1..Len(inbound) /\ j + 1 # 1
      BY <1>1
    <2>3. 1 \in 1..Len(inbound)
      BY <1>1
    <2>. QED  BY <1>1, <1>2, <2>1, <2>2, <2>3 DEF IsQueued, IsAnswered
  <1>4. ASSUME NEW c \in Callers, NEW i \in 1..Len(inbound'), NEW j \in 1..Len(inbound'),
               inbound'[i] = c, inbound'[j] = c
        PROVE  i = j
    BY <1>1, <1>4 DEF Flow, RequestOnce
  <1>5. RequestOnce'
    BY <1>2, <1>3, <1>4 DEF Flow, RequestOnce
  <1>6. Traces'
    BY <1>2, <1>3 DEF Flow, Traces, Sent
  <1>7. AnswerIsAhead'
    BY <1>2 DEF Flow, AnswerIsAhead
  <1>. QED  BY <1>5, <1>6, <1>7 DEF Flow

\* What queueing a message does: a request that was nowhere, or a message of shutdown.
LEMMA EnqueueFlow ==
    ASSUME TypeOK, Flow, NEW m \in Messages, Enqueue(m),
           UNCHANGED <<writing, pending, outbound, cursor>>,
           \A c \in Callers : c # m => pc'[c] = pc[c],
           m \in Callers => pc[m] = "send" /\ pc'[m] = "wait"
    PROVE  Flow'
  <1>1. /\ Len(inbound) \in Nat /\ Len(inbound') = Len(inbound) + 1
        /\ \A j \in 1..Len(inbound) : inbound'[j] = inbound[j]
        /\ inbound'[Len(inbound) + 1] = m
    BY DEF Enqueue, TypeOK
  <1>2. \A c \in Callers : IsQueued(c)' => IsQueued(c) \/ c = m
    BY <1>1 DEF IsQueued
  <1>3. \A c \in Callers : IsAnswered(c)' <=> IsAnswered(c)
    BY DEF IsAnswered
  <1>4. \A c \in Callers : c = m =>
            ~IsQueued(c) /\ writing # c /\ c \notin pending /\ ~IsAnswered(c)
    BY DEF Flow, Traces, Sent
  <1>5. ASSUME NEW c \in Callers, NEW i \in 1..Len(inbound'), NEW j \in 1..Len(inbound'),
               inbound'[i] = c, inbound'[j] = c
        PROVE  i = j
    BY <1>1, <1>4, <1>5 DEF Flow, RequestOnce, IsQueued
  <1>6. RequestOnce'
    BY <1>2, <1>3, <1>4, <1>5 DEF Flow, RequestOnce
  <1>7. Traces'
    BY <1>2, <1>3 DEF Flow, Traces, Sent
  <1>8. AnswerIsAhead'
    BY <1>4 DEF Flow, AnswerIsAhead, IsAnswered
  <1>. QED  BY <1>6, <1>7, <1>8 DEF Flow

\* What a message of the server does: the first answer to a pending request, or to nobody.
LEMMA BroadcastFlow ==
    ASSUME TypeOK, Flow, NEW i \in Ids \cup {NoId}, NEW c \in Callers \cup {NoCaller},
           Broadcast(i, c), pending' = pending \ {c},
           c \in Callers => c \in pending /\ i = RequestId[c]
    PROVE  Flow'
  <1> DEFINE n == Len(outbound) + 1
  <1>1. /\ Len(outbound) \in Nat /\ Len(outbound') = n
        /\ \A j \in 1..Len(outbound) : outbound'[j] = outbound[j]
        /\ outbound'[n] = [id |-> i, to |-> c]
    BY DEF Broadcast, TypeOK
  <1>2. UNCHANGED <<inbound, writing, pc, cursor>>
    BY DEF Broadcast, channelVars, callerVars
  <1>3. \A d \in Callers : (IsQueued(d)' <=> IsQueued(d)) /\ (IsAnswered(d)' => IsAnswered(d) \/ d = c)
    BY <1>1, <1>2 DEF IsQueued, IsAnswered
  <1>4. \A d \in Callers : d = c => ~IsAnswered(d) /\ ~IsQueued(d) /\ writing # d
    BY DEF Flow, RequestOnce
  <1>5. ASSUME NEW d \in Callers, NEW j \in 1..Len(outbound'), NEW k \in 1..Len(outbound'),
               outbound'[j].to = d, outbound'[k].to = d
        PROVE  j = k
    BY <1>1, <1>4, <1>5 DEF Flow, RequestOnce, IsAnswered
  <1>6. RequestOnce'
    BY <1>2, <1>3, <1>4, <1>5 DEF Flow, RequestOnce
  <1>7. Traces'
    BY <1>1, <1>2, <1>3 DEF Flow, Traces, Sent
  <1>8. \A d \in Callers : cursor[d] \in Nat /\ cursor[d] <= Len(outbound)
    BY DEF TypeOK
  <1>9. AnswerIsAhead'
    BY <1>1, <1>2, <1>8 DEF Flow, AnswerIsAhead
  <1>. QED  BY <1>6, <1>7, <1>9 DEF Flow

\* Every step keeps every request in its one place, and every answer ahead of its caller.
LEMMA StepFlow == TypeOK /\ Flow /\ [Next]_vars => Flow'
  <1> SUFFICES ASSUME TypeOK, Flow, [Next]_vars PROVE Flow'
    OBVIOUS
  <1>1. CASE TakeMessage
    BY <1>1, TakeFlow
  <1>2. CASE WriteMessage \/ WriteFails
    <2>1. /\ UNCHANGED <<outbound, pc, cursor>> /\ writing \in Messages /\ writing' = NoMessage
          /\ pending' \subseteq pending \cup {writing}
          /\ \A c \in Callers : IsQueued(c)' => IsQueued(c)
      BY <1>2 DEF WriteMessage, WriteFails, IsQueued, serverVars, callerVars, TypeOK
    <2>2. \A i, j \in 1..Len(inbound') :
              i \in 1..Len(inbound) /\ j \in 1..Len(inbound) /\ inbound' = inbound
      BY <1>2 DEF WriteMessage, WriteFails
    <2>3. \A c \in Callers : (IsAnswered(c)' <=> IsAnswered(c)) /\ c # NoMessage
      BY <2>1 DEF IsAnswered, Messages
    <2>4. RequestOnce'
      BY <2>1, <2>2, <2>3 DEF Flow, RequestOnce
    <2>5. Traces'
      BY <2>1, <2>3 DEF Flow, Traces, Sent
    <2>6. AnswerIsAhead'
      BY <2>1 DEF Flow, AnswerIsAhead
    <2>. QED  BY <2>4, <2>5, <2>6 DEF Flow
  <1>3. ASSUME NEW c \in Callers, Answer(c) PROVE Flow'
    BY <1>3, BroadcastFlow DEF Answer
  <1>4. CASE ServerSpeaks
    <2>1. pending' = pending \ {NoCaller}
      BY <1>4 DEF ServerSpeaks, TypeOK
    <2>. QED  BY <1>4, <2>1, BroadcastFlow DEF ServerSpeaks
  <1>5. ASSUME NEW c \in Callers, SendRequest(c) PROVE Flow'
    <2>1. c \in Messages /\ Enqueue(c) /\ UNCHANGED <<writing, pending, outbound, cursor>>
          /\ pc[c] = "send" /\ pc'[c] = "wait" /\ \A d \in Callers : d # c => pc'[d] = pc[d]
      BY <1>5 DEF SendRequest, Messages, serverVars, TypeOK
    <2>. QED  BY <2>1, EnqueueFlow
  <1>6. CASE SendShutdown \/ SendExit
    <2>1. PICK m \in {ShutdownMsg, ExitMsg} : Enqueue(m) \/ (writer = "ended" /\ UNCHANGED inbound)
      BY <1>6 DEF SendShutdown, SendExit, StopSends
    <2>2. m \in Messages /\ m \notin Callers /\ UNCHANGED <<writing, pending, outbound, pc, cursor>>
      BY <1>6 DEF SendShutdown, SendExit, StopSends, serverVars, callerVars, Messages
    <2>3. CASE Enqueue(m)
      BY <2>2, <2>3, EnqueueFlow
    <2>4. CASE UNCHANGED inbound
      BY <2>2, <2>4, CallerFrame DEF Sent
    <2>. QED  BY <2>1, <2>3, <2>4
  <1>7. ASSUME NEW c \in Callers, Subscribe(c) PROVE Flow'
    <2>1. UNCHANGED <<inbound, writing, pending, outbound>>
      BY <1>7 DEF Subscribe, channelVars, serverVars
    <2>2. \A d \in Callers : (Sent(d) => Sent(d)')
                              /\ (pc'[d] = "wait" => pc[d] = "wait" /\ cursor'[d] = cursor[d])
      BY <1>7 DEF Subscribe, Sent, TypeOK
    <2>. QED  BY <2>1, <2>2, CallerFrame
  <1>8. ASSUME NEW c \in Callers, NEW result \in {"answered", "failed"}, Return(c, result)
        PROVE  Flow'
    <2>1. UNCHANGED <<inbound, writing, pending, outbound>>
      BY <1>8 DEF Return, channelVars, serverVars
    <2>2. \A d \in Callers : (Sent(d) => Sent(d)')
                              /\ (pc'[d] = "wait" => pc[d] = "wait" /\ cursor'[d] = cursor[d])
      BY <1>8 DEF Return, Sent, TypeOK
    <2>. QED  BY <2>1, <2>2, CallerFrame
  <1>9. ASSUME NEW c \in Callers, ReceiveOther(c) PROVE Flow'
    <2>1. UNCHANGED <<inbound, writing, pending, outbound, pc>>
      BY <1>9 DEF ReceiveOther, channelVars, serverVars
    <2>2. /\ Len(outbound) \in Nat /\ cursor[c] \in Nat /\ cursor[c] + 1 \in 1..Len(outbound)
          /\ outbound[cursor[c] + 1].id # RequestId[c]
          /\ cursor'[c] = cursor[c] + 1 /\ pc[c] = "wait"
          /\ \A d \in Callers : d # c => cursor'[d] = cursor[d]
      BY <1>9 DEF ReceiveOther, Unread, NextMessage, TypeOK
    <2>3. outbound[cursor[c] + 1].to # c
      BY <2>2 DEF Flow, Traces
    <2>4. \A j \in 1..Len(outbound) : outbound[j].to = c => j > cursor'[c]
      BY <2>2, <2>3 DEF Flow, AnswerIsAhead
    <2>. QED  BY <2>1, <2>2, <2>4, CallerFrame DEF Sent
  <1>10. ASSUME UNCHANGED <<inbound, writing, pending, outbound, pc, cursor>> PROVE Flow'
    BY <1>10, CallerFrame DEF Sent
  <1>11. CASE ServerExits \/ ReaderEnds \/ BeginStop \/ Reap \/ ReapFails \/ ForceStop
             \/ UNCHANGED vars
    BY <1>10, <1>11 DEF ServerExits, ReaderEnds, BeginStop, Reap, ReapFails, ForceStop, vars, channelVars, serverVars,
                        callerVars
  <1>12. ASSUME NEW c \in Callers, SendFails(c) \/ ReceiveLagged(c) \/ ReceiveAnswer(c)
         PROVE  Flow'
    BY <1>8, <1>12 DEF SendFails, ReceiveLagged, ReceiveAnswer, Fail
  <1>. QED  BY <1>1, <1>2, <1>3, <1>4, <1>5, <1>6, <1>7, <1>9, <1>11, <1>12 DEF Next, CallStep

\* LspRuntime::call subscribes before it sends and reads every message: a caller that waits
\* never has its answer behind it, and the request it made is in one place.
LEMMA AlwaysFlow == Spec => []Flow
  BY InitType, StepType, InitFlow, StepFlow, PTL DEF Spec

\* No request is doubled on its way through the channel, the writer task and the server.
THEOREM RequestsAreNotDoubled == Spec => []RequestOnce
  BY AlwaysFlow, PTL DEF Flow

\* LspRuntime::call never reads past its own answer.
THEOREM AnswersAreAhead == Spec => []AnswerIsAhead
  BY AlwaysFlow, PTL DEF Flow

================================================================================
