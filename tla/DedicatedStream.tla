----------------------------- MODULE DedicatedStream -----------------------------
(***************************************************************************)
(* One lease's dedicated stream from end to end: the language server's     *)
(* broadcast channel, the tasks of the daemon that bridge it to a socket,  *)
(* and the stdio proxy that an editor runs at the other end.               *)
(*                                                                         *)
(* Messages of the server are numbered in the order it broadcasts them,    *)
(* those of the editor in the order it writes them.  An editor writes the  *)
(* header and the body of a message one after the other, and the proxy may *)
(* be interrupted between the two.                                         *)
(***************************************************************************)
EXTENDS Integers, Sequences

CONSTANTS
    MaxOut, MaxIn, \* bounds: messages of the server, of the editor
    Ring,          \* capacity of the broadcast channel (256)
    QueueCap,      \* capacity of the outbound mpsc channel (256)
    WireCap, UpCap \* frames that the two directions of the socket hold

ASSUME BoundsAssumption ==
    /\ MaxOut \in Nat /\ MaxIn \in Nat
    /\ {Ring, QueueCap, WireCap, UpCap} \subseteq Nat \ {0}

VARIABLES
    session,   \* "up"; "stuck", its server reads nothing and its channel is full; "crashed";
               \* "evicting"; "blocked", evicting and stuck; "removed"
    published, \* messages broadcast so far
    received,  \* messages of the editor that were queued for the server
    lease,     \* "held", "released" by the stream, or "purged" with its session
    conn,      \* the endpoint's task: "listening", "connecting", "open", "failed", "closed"
    cursor,    \* broadcast position of runtime_task, start its first
    start,
    skipped,   \* history: messages that runtime_task lagged behind
    hand,      \* the frame runtime_task is about to queue, or none
    out_seq,   \* its next sequence number
    notice,    \* the terminal event, on its way through event_task
    queue,     \* the outbound channel
    wire,      \* frames written to the client
    up,        \* frames written to the daemon
    proxy,     \* "attached", then "running" its select loop or "writing", then "gone"
    reset,     \* it closed its socket on unread frames
    kind,      \* kind[n]: what the proxy does with message n of the editor
    pipe,      \* its stdin: pieces of editor messages
    reading,   \* the editor message whose header it has read, or 0
    torn,      \* it lost its place in stdin
    message,   \* the editor message it is writing to the stream, or 0
    in_seq,    \* its next sequence number
    shown,     \* its stdout
    typed,     \* editor messages begun
    editor     \* "idle", "header" written, "closed"

serverVars == <<session, published, received, lease>>
outVars    == <<cursor, start, skipped, hand, out_seq, notice, queue>>
stdioVars  == <<kind, pipe, reading, torn, message, in_seq, shown, typed, editor>>
vars == <<serverVars, conn, outVars, wire, up, proxy, reset, stdioVars>>

\* "local": initialize and shutdown are answered here, initialized is swallowed.
Kinds  == {"forwarded", "local", "exit"}
Header(n) == <<"header", n>>
Body(n)   == <<"body", n>>

NoFrame == [type |-> "none", seq |-> 0, n |-> 0]
LspOut(seq, n) == [type |-> "LspOut", seq |-> seq, n |-> n]
LspIn(seq, n)  == [type |-> "LspIn", seq |-> seq, n |-> n]
StreamError    == [type |-> "StreamError", seq |-> 1, n |-> 0]
Partial        == [type |-> "partial", seq |-> 0, n |-> 0]

\* The tasks that connection spawned: they outlive an error of the connection.
Bridging == conn \in {"open", "failed"}
Alive    == proxy \in {"attached", "running", "writing"}

Init ==
    /\ session = "up" /\ published = 0 /\ received = <<>> /\ lease = "held"
    /\ conn = "listening"
    /\ cursor = 0 /\ start = 0 /\ skipped = 0 /\ hand = NoFrame /\ out_seq = 1
    /\ notice = "none"
    /\ queue = <<>> /\ wire = <<>> /\ up = <<>>
    /\ proxy = "attached" /\ reset = FALSE
    /\ kind \in [1..MaxIn -> Kinds]
    /\ pipe = <<>> /\ reading = 0 /\ torn = FALSE /\ message = 0 /\ in_seq = 1
    /\ shown = <<>> /\ typed = 0 /\ editor = "idle"

--------------------------------------------------------------------------------
\* The language server and its session

Publish ==
    /\ session = "up"
    /\ published < MaxOut
    /\ published' = published + 1
    /\ UNCHANGED <<session, received, lease, conn, outVars, wire, up, proxy, reset, stdioVars>>

\* The server stops reading, or exits: the registry does not notice either.  Its exit is all
\* that frees an eviction it blocks.
Fail ==
    /\ \/ session = "up" /\ session' \in {"stuck", "crashed"}
       \/ session = "stuck" /\ session' = "crashed"
       \/ session = "blocked" /\ session' = "evicting"
    /\ UNCHANGED <<published, received, lease, conn, outVars, wire, up, proxy, reset, stdioVars>>

\* evict_session tells the streams that have subscribed, then stops the server ...  A server that
\* reads nothing, by now or before it got both messages of `shutdown`, blocks the eviction.
EvictForMemory ==
    /\ \/ session \in {"up", "crashed"} /\ session' = "evicting"
       \/ session \in {"up", "stuck"} /\ session' = "blocked"
    /\ notice' = IF Bridging THEN "sent" ELSE notice
    /\ UNCHANGED <<published, received, lease, conn, cursor, start, skipped, hand, out_seq, queue,
                   wire, up, proxy, reset, stdioVars>>

\* ... and the session and its leases leave the registry.
RemoveSession ==
    /\ session = "evicting"
    /\ session' = "removed"
    /\ lease' = IF lease = "held" THEN "purged" ELSE lease
    /\ UNCHANGED <<published, received, conn, outVars, wire, up, proxy, reset, stdioVars>>

--------------------------------------------------------------------------------
\* The daemon's end

\* The listening task accepts its one client; both channels are subscribed to from here on.
Accept ==
    /\ conn = "connecting"
    /\ conn' = "open"
    /\ cursor' = published
    /\ start' = published
    /\ UNCHANGED <<serverVars, skipped, hand, out_seq, notice, queue, wire, up, proxy, reset,
                   stdioVars>>

\* Mutant: frames carry the position of their message, with holes after a lag.
ReceiveOutByPosition ==
    /\ Bridging
    /\ hand = NoFrame
    /\ cursor < published
    /\ LET oldest == IF published - cursor > Ring THEN published - Ring ELSE cursor
       IN /\ cursor' = oldest + 1
          /\ skipped' = skipped + (oldest - cursor)
          /\ hand' = LspOut(oldest + 1 - start, oldest + 1)
    /\ out_seq' = out_seq + 1
    /\ UNCHANGED <<serverVars, conn, start, notice, queue, wire, up, proxy, reset, stdioVars>>

\* Mutant: the numbers count what was lost too.
ReceiveOutNumberingLost ==
    /\ Bridging
    /\ hand = NoFrame
    /\ cursor < published
    /\ LET oldest == IF published - cursor > Ring THEN published - Ring ELSE cursor
       IN /\ cursor' = oldest + 1
          /\ skipped' = skipped + (oldest - cursor)
          /\ hand' = LspOut(out_seq, oldest + 1)
          /\ out_seq' = out_seq + 1 + (oldest - cursor)
    /\ UNCHANGED <<serverVars, conn, start, notice, queue, wire, up, proxy, reset, stdioVars>>

\* runtime_task: take the next message; one that has fallen out of the ring is skipped.
ReceiveOut ==
    /\ Bridging
    /\ hand = NoFrame
    /\ cursor < published
    /\ LET oldest == IF published - cursor > Ring THEN published - Ring ELSE cursor
       IN /\ cursor' = oldest + 1
          /\ skipped' = skipped + (oldest - cursor)
          /\ hand' = LspOut(out_seq, oldest + 1)
    /\ out_seq' = out_seq + 1
    /\ UNCHANGED <<serverVars, conn, start, notice, queue, wire, up, proxy, reset, stdioVars>>

\* Mutant: the outbound channel is unbounded.
QueueOutUnbounded ==
    /\ Bridging
    /\ hand # NoFrame
    /\ queue' = Append(queue, hand)
    /\ hand' = NoFrame
    /\ UNCHANGED <<serverVars, conn, cursor, start, skipped, out_seq, notice, wire, up, proxy,
                   reset, stdioVars>>

QueueOut ==
    /\ Bridging
    /\ hand # NoFrame
    /\ Len(queue) < QueueCap
    /\ queue' = Append(queue, hand)
    /\ hand' = NoFrame
    /\ UNCHANGED <<serverVars, conn, cursor, start, skipped, out_seq, notice, wire, up, proxy,
                   reset, stdioVars>>

\* Mutant: try_send, which gives up when the channel is full.
QueueNoticeIfRoom ==
    /\ Bridging
    /\ notice = "sent"
    /\ queue' = IF Len(queue) < QueueCap THEN Append(queue, StreamError) ELSE queue
    /\ notice' = "queued"
    /\ UNCHANGED <<serverVars, conn, cursor, start, skipped, hand, out_seq, wire, up, proxy,
                   reset, stdioVars>>

\* event_task queues one terminal frame and ends.
QueueNotice ==
    /\ Bridging
    /\ notice = "sent"
    /\ Len(queue) < QueueCap
    /\ queue' = Append(queue, StreamError)
    /\ notice' = "queued"
    /\ UNCHANGED <<serverVars, conn, cursor, start, skipped, hand, out_seq, wire, up, proxy,
                   reset, stdioVars>>

\* writer_task; with the client gone a write fails and the channel closes.
WriteFrame ==
    /\ Bridging
    /\ queue # <<>>
    /\ IF proxy = "gone" THEN wire' = wire
       ELSE Len(wire) < WireCap /\ wire' = Append(wire, Head(queue))
    /\ queue' = Tail(queue)
    /\ UNCHANGED <<serverVars, conn, cursor, start, skipped, hand, out_seq, notice, up, proxy,
                   reset, stdioVars>>

\* The reader loop hands a frame to the runtime.  A server that does not read keeps it waiting,
\* the first frame after its end is lost.
ReadFrame ==
    /\ conn = "open"
    /\ up # <<>>
    /\ Head(up) # Partial
    /\ session \notin {"stuck", "blocked"}
    /\ received' = IF session = "up" THEN Append(received, Head(up).n) ELSE received
    /\ up' = Tail(up)
    /\ UNCHANGED <<session, published, lease, conn, outVars, wire, proxy, reset, stdioVars>>

\* An error of read, decode or send leaves at the `?`: no task is aborted and no lease released.
FailReading ==
    /\ conn = "open"
    /\ \/ up = <<>> /\ reset
       \/ up # <<>> /\ Head(up) = Partial
       \/ up # <<>> /\ session \notin {"up", "stuck", "blocked"}
    /\ conn' = "failed"
    /\ UNCHANGED <<serverVars, outVars, wire, up, proxy, reset, stdioVars>>

\* Mutant: the tasks are aborted and the lease forgotten.
EndWithoutRelease ==
    /\ conn = "open"
    /\ proxy = "gone" /\ ~reset
    /\ up = <<>>
    /\ conn' = "closed"
    /\ hand' = NoFrame
    /\ queue' = <<>>
    /\ UNCHANGED <<serverVars, cursor, start, skipped, out_seq, notice, wire, up, proxy, reset,
                   stdioVars>>

\* End of input: both tasks are aborted, the writer is awaited, the lease is released.
EndOfInput ==
    /\ conn = "open"
    /\ proxy = "gone" /\ ~reset
    /\ up = <<>>
    /\ lease' = IF lease = "held" THEN "released" ELSE lease
    /\ conn' = "closed"
    /\ hand' = NoFrame
    /\ queue' = <<>>
    /\ UNCHANGED <<session, published, received, cursor, start, skipped, out_seq, notice, wire,
                   up, proxy, reset, stdioVars>>

\* Once the session is gone too, nobody holds the channels of a failed connection: its tasks
\* end, and with the last half of the socket the client sees the end of the stream.
CloseFailed ==
    /\ conn = "failed"
    /\ session = "removed"
    /\ hand = NoFrame /\ queue = <<>> /\ notice # "sent" /\ cursor = published
    /\ conn' = "closed"
    /\ UNCHANGED <<serverVars, outVars, wire, up, proxy, reset, stdioVars>>

--------------------------------------------------------------------------------
\* The editor

TypeHeader ==
    /\ editor = "idle"
    /\ typed < MaxIn
    /\ typed' = typed + 1
    /\ pipe' = Append(pipe, Header(typed + 1))
    /\ editor' = "header"
    /\ UNCHANGED <<serverVars, conn, outVars, wire, up, proxy, reset, kind, reading, torn, message,
                   in_seq, shown>>

TypeBody ==
    /\ editor = "header"
    /\ pipe' = Append(pipe, Body(typed))
    /\ editor' = "idle"
    /\ UNCHANGED <<serverVars, conn, outVars, wire, up, proxy, reset, kind, reading, torn, message,
                   in_seq, shown, typed>>

CloseEditor ==
    /\ editor = "idle"
    /\ editor' = "closed"
    /\ UNCHANGED <<serverVars, conn, outVars, wire, up, proxy, reset, kind, pipe, reading, torn,
                   message, in_seq, shown, typed>>

--------------------------------------------------------------------------------
\* The proxy, run_async

Connect ==
    /\ proxy = "attached"
    /\ proxy' = "running"
    /\ conn' = "connecting"
    /\ UNCHANGED <<serverVars, outVars, wire, up, reset, stdioVars>>

\* The process ends and both of its sockets close; what is on its way to it is lost.  Frames
\* still in the socket reset the connection; those in the proxy's own buffer do not.
Leave(unread) ==
    /\ proxy' = "gone"
    /\ wire' = <<>>
    /\ reset' \in {FALSE, unread # <<>>}
    /\ UNCHANGED <<serverVars, conn, outVars>>

\* A header after a lost one: the rest of the torn message swallows it, "missing Content-Length".
ReadHeader ==
    /\ proxy = "running"
    /\ pipe # <<>> /\ Head(pipe)[1] = "header"
    /\ pipe' = Tail(pipe)
    /\ IF torn
       THEN /\ Leave(wire)
            /\ UNCHANGED reading
       ELSE /\ reading' = Head(pipe)[2]
            /\ UNCHANGED <<serverVars, conn, outVars, wire, proxy, reset>>
    /\ UNCHANGED <<up, kind, torn, message, in_seq, shown, typed, editor>>

\* A whole message: handle_editor_message.
ReadBody ==
    /\ proxy = "running"
    /\ reading # 0
    /\ pipe # <<>>
    /\ pipe' = Tail(pipe)
    /\ reading' = 0
    /\ \/ /\ kind[reading] = "forwarded"
          /\ proxy' = "writing"
          /\ message' = reading
          /\ UNCHANGED <<serverVars, conn, outVars, wire, reset>>
       \/ /\ kind[reading] = "local"
          /\ UNCHANGED <<serverVars, conn, outVars, wire, proxy, reset, message>>
       \/ /\ kind[reading] = "exit"
          /\ Leave(wire)
          /\ UNCHANGED message
    /\ UNCHANGED <<up, kind, torn, in_seq, shown, typed, editor>>

\* The body of a torn message is taken for a header line.
SkipBody ==
    /\ proxy = "running"
    /\ torn
    /\ pipe # <<>> /\ Head(pipe)[1] = "body"
    /\ pipe' = Tail(pipe)
    /\ UNCHANGED <<serverVars, conn, outVars, wire, up, proxy, reset, kind, reading, torn, message,
                   in_seq, shown, typed, editor>>

\* Mutant: the message stays in hand and is written again.
WriteMessageTwice ==
    /\ proxy = "writing"
    /\ conn # "closed"
    /\ Len(up) < UpCap
    /\ up' = Append(up, LspIn(in_seq, message))
    /\ in_seq' = in_seq + 1
    /\ proxy' \in {"running", "writing"}
    /\ message' = IF proxy' = "running" THEN 0 ELSE message
    /\ UNCHANGED <<serverVars, conn, outVars, wire, reset, kind, pipe, reading, torn, shown, typed,
                   editor>>

\* Nothing else is looked at while the frame is being written.
WriteMessage ==
    /\ proxy = "writing"
    /\ conn # "closed"
    /\ Len(up) < UpCap
    /\ up' = Append(up, LspIn(in_seq, message))
    /\ in_seq' = in_seq + 1
    /\ proxy' = "running"
    /\ message' = 0
    /\ UNCHANGED <<serverVars, conn, outVars, wire, reset, kind, pipe, reading, torn, shown, typed,
                   editor>>

\* A frame of the daemon wins the select: a header already read is lost with its future.
ShowFrame ==
    /\ proxy = "running"
    /\ wire # <<>>
    /\ shown' = Append(shown, Head(wire))
    /\ torn' = (torn \/ reading # 0)
    /\ reading' = 0
    /\ IF Head(wire).type = "StreamError"
       THEN Leave(Tail(wire))
       ELSE /\ wire' = Tail(wire)
            /\ UNCHANGED <<serverVars, conn, outVars, proxy, reset>>
    /\ UNCHANGED <<up, kind, pipe, message, in_seq, typed, editor>>

\* The end of either input, or a write that fails.
End ==
    /\ \/ proxy = "running" /\ pipe = <<>> /\ editor = "closed"
       \/ proxy = "running" /\ wire = <<>> /\ conn = "closed"
       \/ proxy = "writing" /\ conn = "closed"
    /\ Leave(wire)
    /\ UNCHANGED <<up, stdioVars>>

\* The process is killed; a frame being written may be cut short.
Kill ==
    /\ Alive
    /\ \/ up' = up
       \/ proxy = "writing" /\ Len(up) < UpCap /\ up' = Append(up, Partial)
    /\ Leave(wire)
    /\ UNCHANGED stdioVars

--------------------------------------------------------------------------------
Server == Publish \/ Fail \/ EvictForMemory
Bridge ==
    \/ Accept \/ ReceiveOut \/ QueueOut \/ QueueNotice \/ WriteFrame
    \/ ReadFrame \/ FailReading \/ EndOfInput \/ CloseFailed
Editor == TypeHeader \/ TypeBody \/ CloseEditor
Proxy  == ReadHeader \/ ReadBody \/ SkipBody \/ WriteMessage \/ ShowFrame \/ End

Next == Server \/ RemoveSession \/ Bridge \/ Editor \/ Connect \/ Proxy \/ Kill

Spec == Init /\ [][Next]_vars

\* Tokio polls every woken task and select! is fair; an eviction goes on to its end.  Nothing is
\* asked of the server, of the editor, or of a proxy that has not connected.
Fairness ==
    /\ WF_vars(RemoveSession) /\ WF_vars(Accept) /\ WF_vars(ReceiveOut) /\ WF_vars(QueueOut)
    /\ SF_vars(QueueNotice) /\ WF_vars(WriteFrame) /\ WF_vars(ReadFrame \/ FailReading)
    /\ WF_vars(EndOfInput) /\ WF_vars(CloseFailed)
    /\ WF_vars(ReadHeader \/ ReadBody \/ SkipBody) /\ WF_vars(WriteMessage)
    /\ SF_vars(ShowFrame) /\ WF_vars(End)

FairSpec == Spec /\ Fairness

--------------------------------------------------------------------------------
\* Properties

Frames == shown \o wire \o queue \o (IF hand = NoFrame THEN <<>> ELSE <<hand>>)
Outs   == {i \in DOMAIN Frames : Frames[i].type = "LspOut"}

\* Every variable stays in its domain, and channels and sockets within their capacity.
TypeOK ==
    /\ session \in {"up", "stuck", "crashed", "evicting", "blocked", "removed"}
    /\ published \in 0..MaxOut
    /\ received \in Seq(1..MaxIn)
    /\ lease \in {"held", "released", "purged"}
    /\ conn \in {"listening", "connecting", "open", "failed", "closed"}
    /\ start \in 0..published /\ cursor \in start..published /\ skipped \in 0..cursor
    /\ hand \in {NoFrame} \cup [type : {"LspOut"}, seq : Nat, n : 1..MaxOut]
    /\ out_seq \in Nat \ {0} /\ in_seq \in Nat \ {0}
    /\ notice \in {"none", "sent", "queued"}
    /\ Len(queue) <= QueueCap /\ Len(wire) <= WireCap /\ Len(up) <= UpCap
    /\ proxy \in {"attached", "running", "writing", "gone"} /\ reset \in BOOLEAN
    /\ kind \in [1..MaxIn -> Kinds]
    /\ reading \in 0..typed /\ message \in 0..typed /\ typed \in 0..MaxIn
    /\ proxy = "writing" => message # 0
    /\ torn \in BOOLEAN
    /\ editor \in {"idle", "header", "closed"}

\* The editor sees the server's messages in the order of the broadcast, none twice, and their
\* sequence numbers count up from one without a hole; and at most one terminal frame, after which
\* nothing is shown (runtime_task, event_task, writer_task).  The terminal frame is not in that
\* numbering: the code gives it number 1 whatever came before it.
OutInOrder ==
    /\ proxy # "gone" /\ conn # "closed" =>
          /\ \A i, j \in Outs :
                i < j => Frames[i].n < Frames[j].n /\ Frames[i].seq < Frames[j].seq
          /\ {Frames[i].seq : i \in Outs} = 1..(out_seq - 1)
    /\ \A i, j \in DOMAIN Frames :
          Frames[i].type = "StreamError" /\ Frames[j].type = "StreamError" => i = j
    /\ \A i \in DOMAIN shown : shown[i].type = "StreamError" => i = Len(shown)

\* The sequence numbers hide a lag, but only a lag: everything broadcast since the subscription
\* was framed or skipped, and skipped only when more than the ring was outstanding.
LostOnlyToLag ==
    /\ out_seq - 1 + skipped = cursor - start
    /\ skipped # 0 => skipped + Ring <= published - start

Unread == {pipe[i][2] : i \in DOMAIN pipe} \cup {reading}
              \cup (IF editor = "header" THEN {typed} ELSE {})
InHand == {received[i] : i \in DOMAIN received} \cup {up[i].n : i \in DOMAIN up} \cup {message}

\* Until a frame of the daemon interrupts the reading of a message, the server gets every
\* forwarded message of the editor, once, in order and no other (handle_editor_message); and the
\* end of the stream gives the lease back only after the last one (run_stream_connection).
InboundExact ==
    /\ \A i, j \in DOMAIN received : i < j => received[i] < received[j]
    /\ session = "up" /\ Alive /\ ~torn =>
          /\ InHand \ {0} = {n \in 1..typed \ Unread : kind[n] = "forwarded"}
          /\ in_seq - 1 = Len(received) + Len(up)
    /\ lease = "released" /\ session = "up" => Len(received) = in_seq - 1

\* A client that goes away gives its lease back, unless it never connected, the connection
\* stays failed because of an error at its end, or the server never reads again
\* (run_stream_connection, its last lines).
LeaseReturns ==
    \/ proxy = "gone" ~> lease # "held" \/ conn = "listening"
    \/ <>[](conn = "failed")
    \/ <>[](session \in {"stuck", "blocked"})

Noticed == \E i \in DOMAIN shown : shown[i].type = "StreamError"

\* The notice of an eviction reaches the editor unless the proxy goes first, or writes for ever to
\* a connection that nobody reads: one that has failed, or that of a server that never reads
\* again and blocks its own eviction (event_task, run_async).
NoticeReachesEditor ==
    \/ notice = "sent" ~> Noticed \/ proxy = "gone"
    \/ <>[](proxy = "writing" /\ (conn = "failed" \/ session = "blocked"))

================================================================================
