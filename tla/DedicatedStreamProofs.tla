------------------------- MODULE DedicatedStreamProofs -------------------------
(***************************************************************************)
(* What a dedicated stream carries in both directions: the order and the   *)
(* numbers of its frames, what may be lost and what may not, for every     *)
(* number of messages and every capacity.                                  *)
(***************************************************************************)
EXTENDS DedicatedStream, SequenceTheorems, TLAPS

USE BoundsAssumption

\* The position of runtime_task lies between its first and the last message broadcast, and
\* nothing has moved before the client is accepted, once.
PositionOK ==
    /\ published \in Nat /\ start \in Nat /\ cursor \in Nat /\ skipped \in Nat /\ out_seq \in Nat
    /\ start <= cursor /\ cursor <= published /\ 1 <= out_seq
    /\ proxy = "attached" => conn = "listening"
    /\ conn \in {"listening", "connecting"} => cursor = start /\ skipped = 0 /\ out_seq = 1

LagInv == PositionOK /\ LostOnlyToLag

\* Steps that leave the position alone and do not make the proxy or the endpoint start over.
LEMMA LagFrame ==
    ASSUME LagInv, UNCHANGED <<cursor, start, skipped, out_seq>>,
           published' = published \/ published' = published + 1,
           proxy' = "attached" => proxy = "attached" /\ conn' = conn,
           conn' = conn \/ conn' \notin {"listening", "connecting"}
    PROVE  LagInv'
  BY DEF LagInv, PositionOK, LostOnlyToLag

\* Taking the next message counts it as framed, and the ones before it as skipped.
LEMMA LagReceive ==
    ASSUME LagInv, ReceiveOut
    PROVE  LagInv'
  <1> DEFINE oldest == IF published - cursor > Ring THEN published - Ring ELSE cursor
  <1>1. /\ cursor' = oldest + 1 /\ skipped' = skipped + (oldest - cursor) /\ out_seq' = out_seq + 1
        /\ UNCHANGED <<published, start, conn, proxy>>
    BY DEF ReceiveOut, serverVars
  <1>2. conn \in {"open", "failed"} /\ cursor < published
    BY DEF ReceiveOut, Bridging
  <1>3. Ring \in Nat \ {0}
    OBVIOUS
  <1>4. oldest \in Nat /\ cursor <= oldest /\ oldest < published
    BY <1>2, <1>3 DEF LagInv, PositionOK
  <1>5. PositionOK'
    BY <1>1, <1>2, <1>4 DEF LagInv, PositionOK
  <1>6. (out_seq - 1 + skipped = cursor - start)'
    BY <1>1, <1>4 DEF LagInv, PositionOK, LostOnlyToLag
  <1>7. (skipped # 0 => skipped + Ring <= published - start)'
    <2>1. CASE published - cursor > Ring
      BY <1>1, <1>3, <2>1 DEF LagInv, PositionOK, LostOnlyToLag
    <2>2. CASE ~(published - cursor > Ring)
      BY <1>1, <1>3, <2>2 DEF LagInv, PositionOK, LostOnlyToLag
    <2>. QED  BY <2>1, <2>2
  <1>. QED  BY <1>5, <1>6, <1>7 DEF LagInv, LostOnlyToLag

\* Every step of the server, of the bridge, of the editor and of the proxy keeps the account.
LEMMA StepLag == LagInv /\ [Next]_vars => LagInv'
  <1> SUFFICES ASSUME LagInv, [Next]_vars PROVE LagInv'
    OBVIOUS
  <1> USE DEF serverVars, outVars
  <1>1. CASE Accept
    <2>1. /\ cursor' = published /\ start' = published /\ conn' = "open" /\ conn = "connecting"
          /\ UNCHANGED <<published, skipped, out_seq, proxy>>
      BY <1>1 DEF Accept
    <2>2. skipped = 0 /\ out_seq = 1 /\ proxy # "attached"
      BY <2>1 DEF LagInv, PositionOK
    <2>. QED  BY <2>1, <2>2 DEF LagInv, PositionOK, LostOnlyToLag
  <1>2. CASE ReceiveOut
    BY <1>2, LagReceive
  <1>3. CASE Connect
    <2>1. /\ proxy' = "running" /\ conn' = "connecting" /\ conn = "listening"
          /\ UNCHANGED <<published, cursor, start, skipped, out_seq>>
      BY <1>3 DEF Connect, LagInv, PositionOK
    <2>. QED  BY <2>1 DEF LagInv, PositionOK, LostOnlyToLag
  <1>4. CASE Server
    BY <1>4, LagFrame DEF Server, Publish, Fail, EvictForMemory
  <1>5. CASE RemoveSession \/ QueueOut \/ QueueNotice \/ WriteFrame \/ ReadFrame
    BY <1>5, LagFrame DEF RemoveSession, QueueOut, QueueNotice, WriteFrame, ReadFrame
  <1>6. CASE FailReading \/ EndOfInput \/ CloseFailed
    <2>1. /\ UNCHANGED <<published, cursor, start, skipped, out_seq, proxy>>
          /\ conn' \in {"failed", "closed"} /\ conn # "listening"
      BY <1>6 DEF FailReading, EndOfInput, CloseFailed
    <2>2. proxy # "attached"
      BY <2>1 DEF LagInv, PositionOK
    <2>. QED  BY <2>1, <2>2, LagFrame
  <1>7. CASE Editor
    BY <1>7, LagFrame DEF Editor, TypeHeader, TypeBody, CloseEditor
  <1>8. CASE Proxy \/ Kill
    <2>1. /\ UNCHANGED <<published, cursor, start, skipped, out_seq, conn>>
          /\ proxy' # "attached" \/ proxy' = proxy
      <3>1. CASE ReadHeader \/ ShowFrame \/ End \/ Kill
        BY <3>1 DEF ReadHeader, ShowFrame, End, Kill, Leave
      <3>2. CASE SkipBody \/ WriteMessage
        BY <3>2 DEF SkipBody, WriteMessage
      <3>3. CASE ReadBody
        BY <3>3 DEF ReadBody, Leave
      <3>. QED  BY <1>8, <3>1, <3>2, <3>3 DEF Proxy
    <2>. QED  BY <2>1, LagFrame
  <1>9. CASE UNCHANGED vars
    BY <1>9, LagFrame DEF vars
  <1>. QED  BY <1>1, <1>2, <1>3, <1>4, <1>5, <1>6, <1>7, <1>8, <1>9 DEF Next, Bridge

\* The sequence numbers of LspOut frames hide a lag and nothing but a lag, whatever the ring's
\* capacity and however the client stalls (runtime_task in run_stream_connection).
THEOREM OnlyLagLosesMessages == Spec => []LostOnlyToLag
  <1>1. Init => LagInv
    BY DEF Init, LagInv, PositionOK, LostOnlyToLag
  <1>2. LagInv => LostOnlyToLag
    BY DEF LagInv
  <1>. QED  BY <1>1, <1>2, StepLag, PTL DEF Spec

--------------------------------------------------------------------------------
(* Both directions: what is where *)

Frame  == [type : {"LspOut"}, seq : Nat, n : Nat] \cup {StreamError}
UpLink == [type : {"LspIn"}, seq : Nat, n : 1..MaxIn] \cup {Partial}
Pieces == {"header", "body"} \X (1..MaxIn)

\* How many pieces of the editor's messages the proxy has taken from its stdin.
Taken == 2 * typed - (IF editor = "header" THEN 1 ELSE 0) - Len(pipe)

\* The pipe holds the last pieces of the editor's stream, in order, and a header that was read is
\* the last piece taken.
PipeOK ==
    /\ pipe \in Seq(Pieces)
    /\ \A i \in 1..Len(pipe) : /\ pipe[i][1] = "header" => Taken + i = 2 * pipe[i][2] - 1
                               /\ pipe[i][1] = "body" => Taken + i = 2 * pipe[i][2]
                               /\ pipe[i][2] <= typed
    /\ reading # 0 => Taken = 2 * reading - 1
    /\ torn => reading = 0
    /\ 0 <= Taken

\* What TypeOK leaves open of the channels.
ChannelsOK ==
    /\ queue \in Seq(Frame) /\ wire \in Seq(Frame) /\ shown \in Seq(Frame) /\ up \in Seq(UpLink)
    /\ proxy \in {"attached", "running"} => message = 0

StreamType == TypeOK /\ LagInv /\ PipeOK /\ ChannelsOK

\* Steps that leave the editor and what the proxy has read alone.
LEMMA PipeFrame ==
    ASSUME PipeOK, UNCHANGED <<pipe, typed, editor, reading, torn>>
    PROVE  PipeOK'
  BY DEF PipeOK, Taken

\* Nothing is on its way at first.
LEMMA InitType == Init => StreamType
  <1> SUFFICES ASSUME Init PROVE StreamType
    OBVIOUS
  <1>1. LagInv
    BY DEF Init, LagInv, PositionOK, LostOnlyToLag
  <1>2. TypeOK
    <2>1. /\ published = 0 /\ received = <<>> /\ start = 0 /\ cursor = 0 /\ skipped = 0
          /\ hand = NoFrame /\ out_seq = 1 /\ in_seq = 1 /\ notice = "none" /\ queue = <<>>
          /\ wire = <<>> /\ up = <<>> /\ proxy = "attached" /\ kind \in [1..MaxIn -> Kinds]
          /\ reading = 0 /\ message = 0 /\ typed = 0 /\ editor = "idle"
          /\ session = "up" /\ lease = "held" /\ conn = "listening" /\ reset = FALSE
      BY DEF Init
    <2>2. torn \in BOOLEAN
      BY DEF Init
    <2>3. {QueueCap, WireCap, UpCap, MaxOut, MaxIn} \subseteq Nat
      OBVIOUS
    <2>4. /\ 0 \in 0..MaxOut /\ 0 \in 0..0 /\ 0 \in 0..MaxIn
          /\ <<>> \in Seq(1..MaxIn) /\ Len(<<>>) = 0 /\ 0 <= QueueCap /\ 0 <= WireCap /\ 0 <= UpCap
      BY <2>3
    <2>5. /\ session \in {"up", "stuck", "crashed", "evicting", "blocked", "removed"}
          /\ lease \in {"held", "released", "purged"}
          /\ conn \in {"listening", "connecting", "open", "failed", "closed"}
          /\ notice \in {"none", "sent", "queued"}
          /\ proxy \in {"attached", "running", "writing", "gone"} /\ reset \in BOOLEAN
          /\ (proxy = "writing" => message # 0)
          /\ editor \in {"idle", "header", "closed"}
      BY ONLY <2>1
    <2>6. /\ hand \in {NoFrame} \cup [type : {"LspOut"}, seq : Nat, n : 1..MaxOut]
          /\ out_seq \in Nat \ {0} /\ in_seq \in Nat \ {0}
      BY ONLY <2>1
    <2>7. /\ published \in 0..MaxOut /\ received \in Seq(1..MaxIn)
          /\ start \in 0..published /\ cursor \in start..published /\ skipped \in 0..cursor
          /\ Len(queue) <= QueueCap /\ Len(wire) <= WireCap /\ Len(up) <= UpCap
          /\ reading \in 0..typed /\ message \in 0..typed /\ typed \in 0..MaxIn
      BY ONLY <2>1, <2>4
    <2>. QED  BY ONLY <2>1, <2>2, <2>5, <2>6, <2>7, Zenon DEF TypeOK
  <1>3. PipeOK
    BY DEF Init, PipeOK, Taken
  <1>4. ChannelsOK
    BY DEF Init, ChannelsOK
  <1>. QED  BY <1>1, <1>2, <1>3, <1>4 DEF StreamType

\* The server, its session and the tasks of the daemon.
LEMMA TypeServer ==
    ASSUME StreamType, Server \/ RemoveSession \/ Accept \/ FailReading \/ EndOfInput \/ CloseFailed,
           LagInv'
    PROVE  StreamType'
  <1> USE DEF serverVars, outVars, stdioVars
  <1>1. PipeOK'
    <2>1. UNCHANGED <<pipe, typed, editor, reading, torn>>
      BY DEF Server, Publish, Fail, EvictForMemory, RemoveSession, Accept, FailReading, EndOfInput,
             CloseFailed
    <2>. QED  BY <2>1, PipeFrame DEF StreamType
  <1>2. TypeOK' /\ ChannelsOK'
    <2>1. CASE Server
      <3>1. /\ session' \in {"up", "stuck", "crashed", "evicting", "blocked"}
            /\ notice' \in {notice, "sent"}
            /\ published' = published \/ (published < MaxOut /\ published' = published + 1)
            /\ UNCHANGED <<received, lease, conn, cursor, start, skipped, hand, out_seq, queue,
                           wire, up, proxy, reset, stdioVars>>
        BY <2>1 DEF Server, Publish, Fail, EvictForMemory
      <3>2. published' \in 0..MaxOut /\ start' \in 0..published' /\ cursor' \in start'..published'
        <4>1. /\ MaxOut \in Nat /\ published \in 0..MaxOut
              /\ start \in 0..published /\ cursor \in start..published
          BY DEF StreamType, TypeOK
        <4>. QED  BY ONLY <3>1, <4>1
      <3>3. TypeOK'
        <4>1. /\ session' \in {"up", "stuck", "crashed", "evicting", "blocked", "removed"}
              /\ notice' \in {"none", "sent", "queued"}
          BY <3>1 DEF StreamType, TypeOK
        <4>. QED  BY <3>1, <3>2, <4>1 DEF StreamType, TypeOK
      <3>4. ChannelsOK'
        BY <3>1 DEF StreamType, ChannelsOK
      <3>. QED  BY <3>3, <3>4
    <2>2. CASE RemoveSession
      <3>1. /\ session' = "removed" /\ lease' \in {lease, "purged"}
            /\ UNCHANGED <<published, received, conn, outVars, wire, up, proxy, reset, stdioVars>>
        BY <2>2 DEF RemoveSession
      <3>2. TypeOK'
        BY <3>1 DEF StreamType, TypeOK
      <3>3. ChannelsOK'
        BY <3>1 DEF StreamType, ChannelsOK
      <3>. QED  BY <3>2, <3>3
    <2>3. CASE Accept
      <3>1. /\ conn' = "open" /\ cursor' = published /\ start' = published
            /\ UNCHANGED <<serverVars, skipped, hand, out_seq, notice, queue, wire, up, proxy, reset,
                           stdioVars>>
        BY <2>3 DEF Accept
      <3>2. published \in 0..MaxOut /\ skipped \in 0..cursor /\ cursor \in start..published
            /\ start \in Nat
        BY DEF StreamType, TypeOK
      <3>3. start' \in 0..published' /\ cursor' \in start'..published' /\ skipped' \in 0..cursor'
        BY <3>1, <3>2
      <3>4. TypeOK'
        BY <3>1, <3>3 DEF StreamType, TypeOK
      <3>5. ChannelsOK'
        BY <3>1 DEF StreamType, ChannelsOK
      <3>. QED  BY <3>4, <3>5
    <2>4. CASE FailReading \/ CloseFailed
      <3>1. /\ conn' \in {"failed", "closed"}
            /\ UNCHANGED <<serverVars, outVars, wire, up, proxy, reset, stdioVars>>
        BY <2>4 DEF FailReading, CloseFailed
      <3>. QED  BY <3>1 DEF StreamType, TypeOK, ChannelsOK
    <2>5. CASE EndOfInput
      <3>1. /\ conn' = "closed" /\ lease' \in {lease, "released"}
            /\ hand' = NoFrame /\ queue' = <<>>
            /\ UNCHANGED <<session, published, received, cursor, start, skipped, out_seq, notice,
                           wire, up, proxy, reset, stdioVars>>
        BY <2>5 DEF EndOfInput
      <3>2. queue' \in Seq(Frame) /\ Len(queue') <= QueueCap
        BY <3>1
      <3>3. TypeOK'
        BY <3>1, <3>2 DEF StreamType, TypeOK
      <3>4. ChannelsOK'
        BY <3>1, <3>2 DEF StreamType, ChannelsOK
      <3>. QED  BY <3>3, <3>4
    <2>. QED  BY <2>1, <2>2, <2>3, <2>4, <2>5
  <1>. QED  BY <1>1, <1>2 DEF StreamType

\* Frames move on, one at a time.
LEMMA TypeMove ==
    ASSUME StreamType, ReceiveOut \/ QueueOut \/ QueueNotice \/ WriteFrame \/ ReadFrame, LagInv'
    PROVE  StreamType'
  <1> USE DEF serverVars, outVars, stdioVars
  <1>1. PipeOK'
    <2>1. UNCHANGED <<pipe, typed, editor, reading, torn>>
      BY DEF ReceiveOut, QueueOut, QueueNotice, WriteFrame, ReadFrame
    <2>. QED  BY <2>1, PipeFrame DEF StreamType
  <1>2. hand # NoFrame => hand \in Frame
    BY DEF StreamType, TypeOK, Frame
  <1>3. CASE ReceiveOut
    <2>1. /\ hand' = LspOut(out_seq, cursor') /\ out_seq' = out_seq + 1
          /\ UNCHANGED <<serverVars, conn, start, notice, queue, wire, up, proxy, reset, stdioVars>>
      BY <1>3 DEF ReceiveOut
    <2>2. cursor' \in start'..published' /\ start \in Nat /\ published \in 0..MaxOut /\ skipped' \in Nat
          /\ out_seq \in Nat \ {0}
      BY <2>1 DEF StreamType, TypeOK, LagInv, PositionOK
    <2>3. cursor' \in 1..MaxOut
      <3>1. cursor' > cursor /\ cursor \in Nat
        <4>1. Ring \in Nat /\ cursor \in Nat /\ published \in Nat
          BY DEF StreamType, LagInv, PositionOK
        <4>. QED  BY <1>3, <4>1 DEF ReceiveOut
      <3>. QED  BY <2>1, <2>2, <3>1
    <2>4. skipped' \in 0..cursor'
      BY <2>1, <2>2, <2>3 DEF LagInv, LostOnlyToLag
    <2>5. hand' \in [type : {"LspOut"}, seq : Nat, n : 1..MaxOut]
      BY <2>1, <2>2, <2>3 DEF LspOut
    <2>6. TypeOK' /\ ChannelsOK'
      BY <2>1, <2>2, <2>4, <2>5 DEF StreamType, TypeOK, ChannelsOK
    <2>. QED  BY <1>1, <2>6 DEF StreamType
  <1>4. CASE QueueOut \/ QueueNotice
    <2>1. PICK f \in Frame : queue' = Append(queue, f)
      BY <1>2, <1>4 DEF QueueOut, QueueNotice, Frame
    <2>2. /\ Len(queue) < QueueCap /\ hand' \in {hand, NoFrame} /\ notice' \in {notice, "queued"}
          /\ UNCHANGED <<serverVars, conn, cursor, start, skipped, out_seq, wire, up, proxy, reset, stdioVars>>
      BY <1>4 DEF QueueOut, QueueNotice
    <2>3. queue' \in Seq(Frame) /\ Len(queue') <= QueueCap
      BY <2>1, <2>2, AppendProperties DEF StreamType, ChannelsOK
    <2>4. TypeOK' /\ ChannelsOK'
      BY <2>2, <2>3 DEF StreamType, TypeOK, ChannelsOK
    <2>. QED  BY <1>1, <2>4 DEF StreamType
  <1>5. CASE WriteFrame
    <2>1. /\ queue # <<>> /\ queue' = Tail(queue)
          /\ wire' = wire \/ (Len(wire) < WireCap /\ wire' = Append(wire, Head(queue)))
          /\ UNCHANGED <<serverVars, conn, cursor, start, skipped, hand, out_seq, notice, up, proxy, reset, stdioVars>>
      BY <1>5 DEF WriteFrame
    <2>2. queue \in Seq(Frame) /\ wire \in Seq(Frame) /\ Len(wire) <= WireCap /\ WireCap \in Nat
      BY DEF StreamType, ChannelsOK, TypeOK
    <2>3. Head(queue) \in Frame /\ queue' \in Seq(Frame) /\ Len(queue') = Len(queue) - 1
      BY <2>1, <2>2, HeadTailProperties
    <2>4. wire' \in Seq(Frame) /\ Len(wire') <= WireCap
      BY <2>1, <2>2, <2>3, AppendProperties
    <2>5. TypeOK' /\ ChannelsOK'
      BY <2>1, <2>2, <2>3, <2>4 DEF StreamType, TypeOK, ChannelsOK
    <2>. QED  BY <1>1, <2>5 DEF StreamType
  <1>6. CASE ReadFrame
    <2>1. /\ up # <<>> /\ Head(up) # Partial /\ up' = Tail(up)
          /\ received' \in {received, Append(received, Head(up).n)}
          /\ UNCHANGED <<session, published, lease, conn, outVars, wire, proxy, reset, stdioVars>>
      BY <1>6 DEF ReadFrame
    <2>2. up \in Seq(UpLink) /\ received \in Seq(1..MaxIn)
      BY DEF StreamType, TypeOK, ChannelsOK
    <2>3. Head(up) \in UpLink /\ up' \in Seq(UpLink) /\ Len(up') = Len(up) - 1
      BY <2>1, <2>2, HeadTailProperties
    <2>4. Head(up).n \in 1..MaxIn
      BY <2>1, <2>3 DEF UpLink
    <2>5. received' \in Seq(1..MaxIn)
      <3>1. Append(received, Head(up).n) \in Seq(1..MaxIn)
        BY <2>2, <2>4
      <3>. QED  BY <2>1, <2>2, <3>1
    <2>6. TypeOK' /\ ChannelsOK'
      BY <2>1, <2>2, <2>3, <2>5 DEF StreamType, TypeOK, ChannelsOK
    <2>. QED  BY <1>1, <2>6 DEF StreamType
  <1>. QED  BY <1>3, <1>4, <1>5, <1>6

\* A piece at the end of the pipe is the next one of the editor's stream.
LEMMA PipeAppend ==
    ASSUME StreamType, typed' \in 1..MaxIn, typed <= typed',
           NEW p \in Pieces, pipe' = Append(pipe, p), p[2] = typed',
           \/ p[1] = "header" /\ Taken + Len(pipe) + 1 = 2 * typed' - 1 /\ editor' = "header"
           \/ p[1] = "body" /\ Taken + Len(pipe) + 1 = 2 * typed' /\ editor' = "idle",
           UNCHANGED <<reading, torn>>
    PROVE  PipeOK'
  <1>1. pipe \in Seq(Pieces) /\ typed \in Nat /\ Len(pipe) \in Nat /\ Taken \in Nat
    BY DEF StreamType, PipeOK, TypeOK, Taken
  <1>2. MaxIn \in Nat /\ typed' \in Nat
    OBVIOUS
  <1>3. /\ pipe' \in Seq(Pieces) /\ Len(pipe') = Len(pipe) + 1 /\ pipe'[Len(pipe) + 1] = p
        /\ \A i \in 1..Len(pipe) : pipe'[i] = pipe[i]
    BY <1>1, AppendProperties
  <1>4. Taken' = Taken
    <2>1. Taken' = 2 * typed' - (IF editor' = "header" THEN 1 ELSE 0) - Len(pipe')
      BY DEF Taken
    <2>2. CASE editor' = "header"
      <3>1. Taken + Len(pipe) + 1 = 2 * typed' - 1
        BY <2>2
      <3>2. Taken' = 2 * typed' - 1 - (Len(pipe) + 1)
        BY <1>3, <2>1, <2>2
      <3>. QED  BY ONLY <1>1, <1>2, <3>1, <3>2
    <2>3. CASE editor' = "idle"
      <3>1. Taken + Len(pipe) + 1 = 2 * typed'
        BY <2>3
      <3>2. Taken' = 2 * typed' - 0 - (Len(pipe) + 1)
        BY <1>3, <2>1, <2>3
      <3>. QED  BY ONLY <1>1, <1>2, <3>1, <3>2
    <2>. QED  BY <2>2, <2>3
  <1>5. ASSUME NEW i \in 1..Len(pipe')
        PROVE  /\ pipe'[i][1] = "header" => Taken' + i = 2 * pipe'[i][2] - 1
               /\ pipe'[i][1] = "body" => Taken' + i = 2 * pipe'[i][2]
               /\ pipe'[i][2] <= typed'
    <2>1. CASE i \in 1..Len(pipe)
      <3>1. /\ pipe[i][1] = "header" => Taken + i = 2 * pipe[i][2] - 1
            /\ pipe[i][1] = "body" => Taken + i = 2 * pipe[i][2]
            /\ pipe[i][2] <= typed
        BY <2>1 DEF StreamType, PipeOK
      <3>2. pipe[i][2] \in 1..MaxIn
        BY <1>1, <2>1 DEF Pieces
      <3>3. pipe'[i] = pipe[i] /\ Taken' + i = Taken + i
        BY ONLY <1>3, <1>4, <2>1
      <3>4. pipe[i][2] <= typed'
        <4>1. typed <= typed'
          OBVIOUS
        <4>. QED  BY ONLY <1>1, <1>2, <3>1, <3>2, <4>1
      <3>. QED  BY ONLY <3>1, <3>3, <3>4
    <2>2. CASE i = Len(pipe) + 1
      <3>1. pipe'[i] = p
        BY <1>3, <2>2
      <3>2. Taken' + i = Taken + Len(pipe) + 1
        BY ONLY <1>1, <1>4, <2>2
      <3>3. p[2] <= typed'
        BY <1>2
      <3>. QED  BY <3>1, <3>2, <3>3
    <2>. QED  BY ONLY <1>1, <1>3, <1>5, <2>1, <2>2
  <1>. QED  BY <1>1, <1>3, <1>4, <1>5 DEF StreamType, PipeOK

\* The editor appends to the pipe.
LEMMA TypeEditor ==
    ASSUME StreamType, Editor, LagInv'
    PROVE  StreamType'
  <1>0. StreamType
    OBVIOUS
  <1>1. UNCHANGED <<serverVars, conn, outVars, wire, up, proxy, reset, kind, reading, torn, message, in_seq, shown>>
    BY DEF Editor, TypeHeader, TypeBody, CloseEditor
  <1>2. /\ pipe \in Seq(Pieces) /\ typed \in 0..MaxIn
    BY DEF StreamType, PipeOK, TypeOK
  <1>3. TypeOK' /\ ChannelsOK'
    <2>1. typed' \in typed..MaxIn /\ editor' \in {"idle", "header", "closed"}
      BY <1>2 DEF Editor, TypeHeader, TypeBody, CloseEditor
    <2>. QED  BY <1>1, <2>1 DEF StreamType, TypeOK, ChannelsOK, serverVars, outVars
  <1>4. CASE CloseEditor
    <2>1. UNCHANGED <<pipe, typed, reading, torn>> /\ editor = "idle" /\ editor' = "closed"
      BY <1>4 DEF CloseEditor
    <2>2. Taken' = Taken
      BY <2>1 DEF Taken
    <2>. QED  BY <1>3, <2>1, <2>2 DEF StreamType, PipeOK
  <1>5. Taken \in Nat /\ Len(pipe) \in Nat
    BY <1>2 DEF StreamType, PipeOK, Taken
  <1>6. CASE TypeHeader
    <2>1. /\ pipe' = Append(pipe, <<"header", typed + 1>>) /\ typed' = typed + 1 /\ typed < MaxIn
          /\ editor = "idle" /\ editor' = "header" /\ UNCHANGED <<reading, torn>>
      BY <1>6 DEF TypeHeader, Header
    <2>2. Taken + Len(pipe) + 1 = 2 * typed' - 1
      BY <1>2, <1>5, <2>1 DEF Taken
    <2>3. PipeOK'
      <3> DEFINE p == <<"header", typed + 1>>
      <3>1. p \in Pieces /\ p[1] = "header" /\ p[2] = typed' /\ pipe' = Append(pipe, p)
        BY <1>2, <2>1 DEF Pieces
      <3>2. /\ typed' \in 1..MaxIn /\ typed <= typed' /\ UNCHANGED <<reading, torn>>
            /\ \/ p[1] = "header" /\ Taken + Len(pipe) + 1 = 2 * typed' - 1 /\ editor' = "header"
               \/ p[1] = "body" /\ Taken + Len(pipe) + 1 = 2 * typed' /\ editor' = "idle"
        BY <1>2, <2>1, <2>2, <3>1
      <3> HIDE DEF p
      <3>. QED  BY ONLY <1>0, <3>1, <3>2, PipeAppend
    <2>. QED  BY <1>3, <2>3 DEF StreamType
  <1>7. CASE TypeBody
    <2>1. /\ pipe' = Append(pipe, <<"body", typed>>) /\ typed' = typed
          /\ editor = "header" /\ editor' = "idle" /\ UNCHANGED <<reading, torn>>
      BY <1>7 DEF TypeBody, Body
    <2>2. Taken + Len(pipe) + 1 = 2 * typed' /\ typed \in 1..MaxIn
      BY <1>2, <1>5, <2>1 DEF Taken
    <2>3. PipeOK'
      <3> DEFINE p == <<"body", typed>>
      <3>1. p \in Pieces /\ p[1] = "body" /\ p[2] = typed' /\ pipe' = Append(pipe, p)
        BY <1>2, <2>1, <2>2 DEF Pieces
      <3>2. /\ typed' \in 1..MaxIn /\ typed <= typed' /\ UNCHANGED <<reading, torn>>
            /\ \/ p[1] = "header" /\ Taken + Len(pipe) + 1 = 2 * typed' - 1 /\ editor' = "header"
               \/ p[1] = "body" /\ Taken + Len(pipe) + 1 = 2 * typed' /\ editor' = "idle"
        BY <1>2, <2>1, <2>2, <3>1
      <3> HIDE DEF p
      <3>. QED  BY ONLY <1>0, <3>1, <3>2, PipeAppend
    <2>. QED  BY <1>3, <2>3 DEF StreamType
  <1>. QED  BY <1>4, <1>6, <1>7 DEF Editor

\* A piece taken from the pipe.
LEMMA PipeTail ==
    ASSUME StreamType, pipe # <<>>, pipe' = Tail(pipe), UNCHANGED <<typed, editor>>,
           reading' # 0 => Taken + 1 = 2 * reading' - 1, torn' => reading' = 0
    PROVE  PipeOK' /\ Taken' = Taken + 1
  <1>1. pipe \in Seq(Pieces) /\ typed \in Nat /\ Len(pipe) \in Nat /\ Taken \in Nat
    BY DEF StreamType, PipeOK, TypeOK, Taken
  <1>2. /\ pipe' \in Seq(Pieces) /\ Len(pipe') = Len(pipe) - 1
        /\ \A i \in 1..Len(pipe') : pipe'[i] = pipe[i + 1]
    BY <1>1, HeadTailProperties
  <1>3. Taken' = Taken + 1
    BY <1>1, <1>2 DEF Taken
  <1>4. ASSUME NEW i \in 1..Len(pipe')
        PROVE  /\ pipe'[i][1] = "header" => Taken' + i = 2 * pipe'[i][2] - 1
               /\ pipe'[i][1] = "body" => Taken' + i = 2 * pipe'[i][2]
               /\ pipe'[i][2] <= typed'
    <2>1. i + 1 \in 1..Len(pipe) /\ pipe'[i] = pipe[i + 1]
      BY <1>1, <1>2
    <2>2. /\ pipe[i + 1][1] = "header" => Taken + (i + 1) = 2 * pipe[i + 1][2] - 1
          /\ pipe[i + 1][1] = "body" => Taken + (i + 1) = 2 * pipe[i + 1][2]
          /\ pipe[i + 1][2] <= typed
      BY <2>1 DEF StreamType, PipeOK
    <2>3. pipe[i + 1][2] \in 1..MaxIn
      BY <1>1, <2>1 DEF Pieces
    <2>4. i \in Nat /\ typed' = typed
      BY <1>1, <1>2
    <2>5. /\ pipe[i + 1][1] = "header" => Taken' + i = 2 * pipe[i + 1][2] - 1
          /\ pipe[i + 1][1] = "body" => Taken' + i = 2 * pipe[i + 1][2]
      BY ONLY <1>1, <1>3, <2>2, <2>3, <2>4
    <2>. QED  BY ONLY <2>1, <2>2, <2>4, <2>5
  <1>5. (reading' # 0 => Taken' = 2 * reading' - 1) /\ 0 <= Taken'
    BY <1>1, <1>3
  <1>. QED  BY <1>2, <1>3, <1>4, <1>5 DEF PipeOK

\* The piece at the head of the pipe.
LEMMA PipeHead ==
    ASSUME StreamType, pipe # <<>>
    PROVE  /\ Head(pipe)[2] \in 1..typed /\ Head(pipe)[1] \in {"header", "body"}
           /\ Head(pipe)[1] = "header" => Taken + 1 = 2 * Head(pipe)[2] - 1
           /\ Head(pipe)[1] = "body" => Taken + 1 = 2 * Head(pipe)[2]
           /\ reading # 0 => Taken + 1 = 2 * reading
           /\ Taken \in Nat
  <1>1. pipe \in Seq(Pieces) /\ typed \in Nat /\ Len(pipe) \in Nat \ {0} /\ Taken \in Nat
    BY DEF StreamType, PipeOK, TypeOK, Taken
  <1>2. Head(pipe) = pipe[1] /\ 1 \in 1..Len(pipe)
    BY <1>1
  <1>3. pipe[1] \in Pieces
    BY <1>1, <1>2
  <1>4. pipe[1][2] \in 1..typed /\ pipe[1][1] \in {"header", "body"}
    BY <1>1, <1>2, <1>3 DEF Pieces, StreamType, PipeOK
  <1>5. reading # 0 => Taken + 1 = 2 * reading
    BY <1>1 DEF StreamType, PipeOK, TypeOK
  <1>6. /\ pipe[1][1] = "header" => Taken + 1 = 2 * pipe[1][2] - 1
        /\ pipe[1][1] = "body" => Taken + 1 = 2 * pipe[1][2]
    BY <1>2 DEF StreamType, PipeOK
  <1>. QED  BY <1>1, <1>2, <1>4, <1>5, <1>6

\* A process that leaves may reset its connection.
LEMMA LeaveReset ==
    ASSUME NEW unread, Leave(unread) PROVE reset' \in BOOLEAN
  <1>. QED  BY Zenon DEF Leave

\* The proxy reads its stdin.
LEMMA TypeRead ==
    ASSUME StreamType, ReadHeader \/ ReadBody \/ SkipBody, LagInv'
    PROVE  StreamType' /\ Taken' = Taken + 1
  <1> USE DEF serverVars, outVars
  <1>0. typed \in 0..MaxIn /\ (torn => reading = 0) /\ reading \in 0..typed /\ torn \in BOOLEAN
    BY DEF StreamType, TypeOK, PipeOK
  <1>. reset \in BOOLEAN
    BY DEF StreamType, TypeOK
  <1>1. CASE ReadHeader
    <2>1. /\ pipe # <<>> /\ Head(pipe)[1] = "header" /\ pipe' = Tail(pipe) /\ proxy = "running"
          /\ UNCHANGED <<serverVars, conn, outVars, up, kind, torn, message, in_seq, shown, typed, editor>>
          /\ torn => reading' = reading /\ proxy' = "gone" /\ wire' = <<>>
          /\ ~torn => reading' = Head(pipe)[2] /\ UNCHANGED <<wire, proxy>>
      BY <1>1 DEF ReadHeader, Leave
    <2>. reset' \in BOOLEAN
      BY <1>1, LeaveReset DEF ReadHeader
    <2>2. /\ reading' # 0 => Taken + 1 = 2 * reading' - 1
          /\ torn' => reading' = 0
          /\ reading' \in 0..typed
      BY <1>0, <2>1, PipeHead
    <2>3. PipeOK' /\ Taken' = Taken + 1
      BY <2>1, <2>2, PipeTail
    <2>4. TypeOK' /\ ChannelsOK'
      <3>1. CASE torn
        BY <2>1, <2>2, <3>1 DEF StreamType, TypeOK, ChannelsOK
      <3>2. CASE ~torn
        BY <2>1, <2>2, <3>2 DEF StreamType, TypeOK, ChannelsOK
      <3>. QED  BY <3>1, <3>2
    <2>. QED  BY <2>3, <2>4 DEF StreamType
  <1>2. CASE ReadBody
    <2>1. /\ pipe # <<>> /\ pipe' = Tail(pipe) /\ proxy = "running" /\ reading # 0 /\ reading' = 0
          /\ UNCHANGED <<serverVars, conn, outVars, up, kind, torn, in_seq, shown, typed, editor>>
          /\ \/ proxy' = "writing" /\ message' = reading /\ wire' = wire
             \/ proxy' = "running" /\ message' = message /\ wire' = wire
             \/ proxy' = "gone" /\ message' = message /\ wire' = <<>>
      BY <1>2 DEF ReadBody, Leave
    <2>. reset' \in BOOLEAN
      BY <1>2, LeaveReset DEF ReadBody
    <2>2. PipeOK' /\ Taken' = Taken + 1
      BY <2>1, PipeTail
    <2>3. TypeOK' /\ ChannelsOK'
      <3>1. CASE proxy' = "writing" /\ message' = reading /\ wire' = wire
        BY <1>0, <2>1, <3>1 DEF StreamType, TypeOK, ChannelsOK
      <3>2. CASE proxy' = "running" /\ message' = message /\ wire' = wire
        BY <1>0, <2>1, <3>2 DEF StreamType, TypeOK, ChannelsOK
      <3>3. CASE proxy' = "gone" /\ message' = message /\ wire' = <<>>
        BY <1>0, <2>1, <3>3 DEF StreamType, TypeOK, ChannelsOK
      <3>. QED  BY <2>1, <3>1, <3>2, <3>3
    <2>. QED  BY <2>2, <2>3 DEF StreamType
  <1>3. CASE SkipBody
    <2>1. /\ pipe # <<>> /\ pipe' = Tail(pipe) /\ torn
          /\ UNCHANGED <<serverVars, conn, outVars, wire, up, proxy, reset, kind, reading, torn, message, in_seq,
                         shown, typed, editor>>
      BY <1>3 DEF SkipBody
    <2>2. reading = 0 /\ reading' = 0 /\ UNCHANGED <<typed, editor>>
      BY <1>0, <2>1
    <2>3. PipeOK' /\ Taken' = Taken + 1
      BY <2>1, <2>2, PipeTail
    <2>4. TypeOK' /\ ChannelsOK'
      BY <2>1 DEF StreamType, TypeOK, ChannelsOK
    <2>. QED  BY <2>3, <2>4 DEF StreamType
  <1>. QED  BY <1>1, <1>2, <1>3

\* The proxy writes to the stream and to its stdout, starts and ends.
LEMMA TypeProxy ==
    ASSUME StreamType, WriteMessage \/ ShowFrame \/ End \/ Kill \/ Connect, LagInv'
    PROVE  StreamType'
  <1> USE DEF serverVars, outVars, stdioVars
  <1>0. /\ up \in Seq(UpLink) /\ wire \in Seq(Frame) /\ shown \in Seq(Frame)
        /\ Len(up) <= UpCap /\ Len(wire) <= WireCap /\ UpCap \in Nat /\ WireCap \in Nat
        /\ in_seq \in Nat \ {0} /\ message \in 0..typed /\ typed \in 0..MaxIn
    BY DEF StreamType, ChannelsOK, TypeOK
  <1>. reset' \in BOOLEAN
    BY LeaveReset DEF WriteMessage, ShowFrame, End, Kill, Connect, StreamType, TypeOK
  <1>1. CASE WriteMessage
    <2>1. /\ Len(up) < UpCap /\ up' = Append(up, LspIn(in_seq, message)) /\ in_seq' = in_seq + 1
          /\ proxy = "writing" /\ proxy' = "running" /\ message' = 0
          /\ UNCHANGED <<serverVars, conn, outVars, wire, kind, pipe, reading, torn, shown, typed, editor>>
      BY <1>1 DEF WriteMessage
    <2>2. LspIn(in_seq, message) \in UpLink
      BY <1>0, <2>1 DEF UpLink, LspIn, StreamType, TypeOK
    <2>3. up' \in Seq(UpLink) /\ Len(up') <= UpCap
      BY <1>0, <2>1, <2>2, AppendProperties
    <2>4. PipeOK'
      BY <2>1, PipeFrame DEF StreamType
    <2>5. TypeOK' /\ ChannelsOK'
      BY <1>0, <2>1, <2>3 DEF StreamType, TypeOK, ChannelsOK
    <2>. QED  BY <2>4, <2>5 DEF StreamType
  <1>2. CASE ShowFrame
    <2>1. /\ wire # <<>> /\ shown' = Append(shown, Head(wire)) /\ reading' = 0 /\ proxy = "running"
          /\ wire' \in {<<>>, Tail(wire)} /\ proxy' \in {"running", "gone"}
          /\ UNCHANGED <<serverVars, conn, outVars, up, kind, pipe, message, in_seq, typed, editor>>
      BY <1>2 DEF ShowFrame, Leave
    <2>2. torn' \in BOOLEAN
      BY <1>2 DEF ShowFrame
    <2>3. Head(wire) \in Frame /\ wire' \in Seq(Frame) /\ Len(wire') <= WireCap
      <3>1. /\ Head(wire) \in Frame /\ Tail(wire) \in Seq(Frame) /\ Len(Tail(wire)) = Len(wire) - 1
            /\ Len(wire) \in Nat
        BY <1>0, <2>1, HeadTailProperties
      <3>2. CASE wire' = <<>>
        BY <1>0, <3>1, <3>2
      <3>3. CASE wire' = Tail(wire)
        BY <1>0, <3>1, <3>3
      <3>. QED  BY <2>1, <3>2, <3>3, <3>1
    <2>4. shown' \in Seq(Frame)
      BY <1>0, <2>1, <2>3, AppendProperties
    <2>5. PipeOK'
      BY <2>1 DEF StreamType, PipeOK, Taken
    <2>6. TypeOK' /\ ChannelsOK'
      BY <1>0, <2>1, <2>2, <2>3, <2>4 DEF StreamType, TypeOK, ChannelsOK
    <2>. QED  BY <2>5, <2>6 DEF StreamType
  <1>3. CASE End \/ Kill \/ Connect
    <2>1. /\ wire' \in {wire, <<>>} /\ proxy' \in {"running", "gone"}
          /\ proxy' = "running" => proxy = "attached"
          /\ conn' \in {conn, "connecting"}
          /\ up' = up \/ (Len(up) < UpCap /\ up' = Append(up, Partial))
          /\ UNCHANGED <<serverVars, outVars, stdioVars>>
      BY <1>3 DEF End, Kill, Connect, Leave
    <2>2. Partial \in UpLink
      BY DEF UpLink
    <2>3. up' \in Seq(UpLink) /\ Len(up') <= UpCap
      <3>1. CASE up' = up
        BY <1>0, <3>1
      <3>2. CASE Len(up) < UpCap /\ up' = Append(up, Partial)
        BY <1>0, <2>2, <3>2, AppendProperties
      <3>. QED  BY <2>1, <3>1, <3>2
    <2>4. PipeOK'
      BY <2>1, PipeFrame DEF StreamType
    <2>5. wire' \in Seq(Frame) /\ Len(wire') <= WireCap
      <3>1. CASE wire' = wire
        BY <1>0, <3>1
      <3>2. CASE wire' = <<>>
        BY <1>0, <3>2
      <3>. QED  BY <2>1, <3>1, <3>2
    <2>6. TypeOK' /\ ChannelsOK'
      BY <2>1, <2>3, <2>5 DEF StreamType, TypeOK, ChannelsOK
    <2>. QED  BY <2>4, <2>6 DEF StreamType
  <1>. QED  BY <1>1, <1>2, <1>3

\* StreamType is inductive.
LEMMA StepType == StreamType /\ [Next]_vars => StreamType'
  <1> SUFFICES ASSUME StreamType, [Next]_vars PROVE StreamType'
    OBVIOUS
  <1>1. LagInv'
    BY StepLag DEF StreamType
  <1>2. CASE UNCHANGED vars
    <2>1. UNCHANGED <<serverVars, conn, outVars, wire, up, proxy, reset, stdioVars>>
      BY <1>2 DEF vars
    <2>2. PipeOK'
      BY <2>1, PipeFrame DEF StreamType, stdioVars
    <2>3. TypeOK' /\ ChannelsOK'
      BY <2>1 DEF StreamType, TypeOK, ChannelsOK, serverVars, outVars, stdioVars
    <2>. QED  BY <1>1, <2>2, <2>3 DEF StreamType
  <1>. QED  BY <1>1, <1>2, TypeServer, TypeMove, TypeEditor, TypeRead, TypeProxy
            DEF Next, Bridge, Proxy

\* Channels and sockets stay within their capacity and every variable in its domain, for every
\* capacity and however far the editor, the proxy and the server get.
THEOREM StreamTypeCorrect == Spec => []TypeOK
  <1>1. StreamType => TypeOK
    BY DEF StreamType
  <1>. QED  BY <1>1, InitType, StepType, PTL DEF Spec

--------------------------------------------------------------------------------
(* Frames to the editor *)

\* The frames that left runtime_task and event_task, from the oldest on.
Sent == (shown \o wire) \o queue

IsOut(f)   == f.type = "LspOut"
IsError(f) == f.type = "StreamError"

OneError(q) == \A i, j \in 1..Len(q) : IsError(q[i]) /\ IsError(q[j]) => i = j
NoError(q)  == \A i \in 1..Len(q) : ~IsError(q[i])

\* q holds the frames numbered from 1 to m, in order, of messages up to position p.
Numbered(q, m, p) ==
    /\ \A i, j \in 1..Len(q) :
          IsOut(q[i]) /\ IsOut(q[j]) /\ i < j => q[i].n < q[j].n /\ q[i].seq < q[j].seq
    /\ \A i \in 1..Len(q) : IsOut(q[i]) => q[i].seq \in 1..m /\ q[i].n <= p
    /\ \A k \in 1..m : \E i \in 1..Len(q) : IsOut(q[i]) /\ q[i].seq = k

OutOK ==
    /\ proxy # "gone" /\ conn # "closed" =>
          IF hand = NoFrame THEN Numbered(Sent, out_seq - 1, cursor)
          ELSE /\ Numbered(Sent, out_seq - 2, hand.n - 1)
               /\ hand.seq = out_seq - 1 /\ hand.n <= cursor /\ out_seq >= 2
    /\ OneError(Sent)
    /\ notice # "queued" => NoError(Sent)
    /\ notice # "none" => session \in {"evicting", "blocked", "removed"}
    /\ proxy # "gone" => NoError(shown)
    /\ \A i \in 1..Len(shown) : IsError(shown[i]) => i = Len(shown)

\* The head of one channel becomes the end of the one before it.
LEMMA MoveHead ==
    ASSUME NEW s \in Seq(Frame), NEW w \in Seq(Frame), w # <<>>
    PROVE  Append(s, Head(w)) \o Tail(w) = s \o w
  <1>1. Head(w) \in Frame /\ Tail(w) \in Seq(Frame) /\ w = <<Head(w)>> \o Tail(w)
    <2>1. Head(w) \in Frame /\ Tail(w) \in Seq(Frame)
      BY HeadTailProperties
    <2>2. Len(w) \in Nat \ {0} /\ Len(Tail(w)) = Len(w) - 1
          /\ \A i \in 1..Len(w) - 1 : Tail(w)[i] = w[i + 1]
      BY HeadTailProperties
    <2> DEFINE h == <<Head(w)>>
               c == h \o Tail(w)
    <2>3. h \in Seq(Frame) /\ Len(h) = 1 /\ h[1] = w[1]
      BY <2>1
    <2> HIDE DEF h
    <2>4. c \in Seq(Frame) /\ Len(c) = Len(h) + Len(Tail(w))
          /\ \A i \in 1..Len(h) + Len(Tail(w)) : c[i] = IF i <= Len(h) THEN h[i] ELSE Tail(w)[i - Len(h)]
      BY <2>1, <2>3, ConcatProperties
    <2> HIDE DEF c
    <2>5. Len(c) = Len(w) /\ \A i \in 1..Len(w) : c[i] = w[i]
      BY <2>2, <2>3, <2>4
    <2>6. w = c
      BY <2>4, <2>5, SeqEqual
    <2>. QED  BY <2>1, <2>6 DEF c, h
  <1>2. Append(s, Head(w)) = s \o <<Head(w)>> /\ <<Head(w)>> \in Seq(Frame)
    BY <1>1, AppendIsConcat
  <1>3. (s \o <<Head(w)>>) \o Tail(w) = s \o (<<Head(w)>> \o Tail(w))
    BY <1>1, <1>2, ConcatAssociative
  <1>. QED  BY <1>1, <1>2, <1>3

\* What is appended to the last channel comes last of all.
LEMMA AppendEnd ==
    ASSUME NEW s \in Seq(Frame), NEW q \in Seq(Frame), NEW f \in Frame
    PROVE  s \o Append(q, f) = Append(s \o q, f)
  <1>1. Append(q, f) = q \o <<f>> /\ <<f>> \in Seq(Frame) /\ s \o q \in Seq(Frame)
    BY AppendIsConcat, ConcatProperties
  <1>2. Append(s \o q, f) = (s \o q) \o <<f>>
    BY <1>1, AppendIsConcat
  <1>3. (s \o q) \o <<f>> = s \o (q \o <<f>>)
    BY <1>1, ConcatAssociative
  <1>. QED  BY <1>1, <1>2, <1>3

\* p is q without the d frames after position k.
Cut(p, q, k, d) ==
    /\ Len(p) + d <= Len(q)
    /\ \A i \in 1..Len(p) : p[i] = IF i <= k THEN q[i] ELSE q[i + d]

\* What is left has no terminal frame that q has not.
LEMMA Dropped ==
    ASSUME NEW q \in Seq(Frame), NEW p \in Seq(Frame), NEW k \in Nat, NEW d \in Nat, Cut(p, q, k, d)
    PROVE  (OneError(q) => OneError(p)) /\ (NoError(q) => NoError(p))
  <1> USE DEF Cut
  <1>1. Len(p) \in Nat /\ Len(q) \in Nat
    OBVIOUS
  <1>2. ASSUME NoError(q) PROVE NoError(p)
    <2>1. ASSUME NEW i \in 1..Len(p) PROVE ~IsError(p[i])
      <3>1. i \in 1..Len(q) /\ i + d \in 1..Len(q)
        BY <1>1, <2>1
      <3>. QED  BY <1>2, <2>1, <3>1 DEF NoError
    <2>. QED  BY <2>1 DEF NoError
  <1>3. ASSUME OneError(q) PROVE OneError(p)
    <2>1. ASSUME NEW i \in 1..Len(p), NEW j \in 1..Len(p), IsError(p[i]), IsError(p[j]), i < j
          PROVE  FALSE
      <3>1. i \in 1..Len(q) /\ i + d \in 1..Len(q) /\ j \in 1..Len(q) /\ j + d \in 1..Len(q)
        BY <1>1
      <3>a. /\ p[i] = IF i <= k THEN q[i] ELSE q[i + d]
            /\ p[j] = IF j <= k THEN q[j] ELSE q[j + d]
        OBVIOUS
      <3>2. PICK a \in {i, i + d} : p[i] = q[a] /\ (i <= k => a = i)
        BY ONLY <3>a
      <3>3. PICK b \in {j, j + d} : p[j] = q[b] /\ (~(j <= k) => b = j + d)
        BY ONLY <3>a
      <3>4. a < b
        <4>1. i \in Nat /\ j \in Nat /\ i < j /\ k \in Nat /\ d \in Nat
          BY <1>1, <2>1
        <4>. QED  BY ONLY <3>2, <3>3, <4>1
      <3>5. a \in 1..Len(q) /\ b \in 1..Len(q) /\ a # b
        <4>1. a \in 1..Len(q) /\ b \in 1..Len(q)
          BY ONLY <3>1, <3>2, <3>3
        <4>. QED  BY ONLY <1>1, <3>4, <4>1
      <3>6. IsError(q[a]) /\ IsError(q[b])
        BY <2>1, <3>2, <3>3
      <3>. QED  BY ONLY <1>3, <3>5, <3>6 DEF OneError
    <2>2. ASSUME NEW i \in 1..Len(p), NEW j \in 1..Len(p), IsError(p[i]), IsError(p[j]) PROVE i = j
      BY <1>1, <2>1, <2>2
    <2>. QED  BY <2>2 DEF OneError
  <1>. QED  BY <1>2, <1>3

\* Where the frames of two joined channels are.
LEMMA Joined ==
    ASSUME NEW s \in Seq(Frame), NEW q \in Seq(Frame)
    PROVE  /\ s \o q \in Seq(Frame) /\ Len(s \o q) = Len(s) + Len(q)
           /\ \A i \in 1..Len(s) : (s \o q)[i] = s[i]
           /\ \A i \in 1..Len(s) + Len(q) : ~(i <= Len(s)) => (s \o q)[i] = q[i - Len(s)]
  BY ConcatProperties

\* Without what was on its way to a proxy that left ...
LEMMA CutWire ==
    ASSUME NEW s \in Seq(Frame), NEW w \in Seq(Frame), NEW q \in Seq(Frame)
    PROVE  /\ OneError((s \o w) \o q) => OneError((s \o <<>>) \o q)
           /\ NoError((s \o w) \o q) => NoError((s \o <<>>) \o q)
  <1>1. s \o <<>> = s
    BY ConcatEmptySeq
  <1>a. PICK a : a = s \o w
    OBVIOUS
  <1>b. PICK b : b = a \o q
    OBVIOUS
  <1>c. PICK c : c = s \o q
    OBVIOUS
  <1>2. /\ a \in Seq(Frame) /\ Len(a) = Len(s) + Len(w)
        /\ \A i \in 1..Len(s) : a[i] = s[i]
    BY <1>a, Joined
  <1>3. /\ b \in Seq(Frame) /\ Len(b) = Len(a) + Len(q)
        /\ \A i \in 1..Len(a) : b[i] = a[i]
        /\ \A i \in 1..Len(a) + Len(q) : ~(i <= Len(a)) => b[i] = q[i - Len(a)]
    BY <1>b, <1>2, Joined
  <1>4. /\ c \in Seq(Frame) /\ Len(c) = Len(s) + Len(q)
        /\ \A i \in 1..Len(s) : c[i] = s[i]
        /\ \A i \in 1..Len(s) + Len(q) : ~(i <= Len(s)) => c[i] = q[i - Len(s)]
    BY <1>c, Joined
  <1>5. Len(s) \in Nat /\ Len(w) \in Nat /\ Len(q) \in Nat
    OBVIOUS
  <1>6. ASSUME NEW i \in 1..Len(c) PROVE c[i] = IF i <= Len(s) THEN b[i] ELSE b[i + Len(w)]
    <2>1. CASE i <= Len(s)
      <3>1. i \in 1..Len(s) /\ i \in 1..Len(a)
        BY <1>2, <1>4, <1>5, <2>1
      <3>2. c[i] = s[i] /\ a[i] = s[i] /\ b[i] = a[i]
        BY ONLY <1>2, <1>3, <1>4, <3>1
      <3>. QED  BY ONLY <2>1, <3>2
    <2>2. CASE ~(i <= Len(s))
      <3>1. i + Len(w) \in 1..Len(a) + Len(q) /\ ~(i + Len(w) <= Len(a))
            /\ i + Len(w) - Len(a) = i - Len(s) /\ i \in 1..Len(s) + Len(q)
        BY <1>2, <1>4, <1>5, <2>2
      <3>2. b[i + Len(w)] = q[i + Len(w) - Len(a)] /\ c[i] = q[i - Len(s)]
        BY ONLY <1>3, <1>4, <2>2, <3>1
      <3>. QED  BY ONLY <2>2, <3>1, <3>2
    <2>. QED  BY <2>1, <2>2
  <1>7. Cut(c, b, Len(s), Len(w))
    BY <1>2, <1>3, <1>4, <1>5, <1>6 DEF Cut
  <1>8. (OneError(b) => OneError(c)) /\ (NoError(b) => NoError(c))
    BY <1>3, <1>4, <1>5, <1>7, Dropped
  <1>. QED  BY <1>1, <1>a, <1>b, <1>c, <1>8

\* ... or without the first frame, or all frames, of a channel that closed.
LEMMA CutQueue ==
    ASSUME NEW a \in Seq(Frame), NEW q \in Seq(Frame), NEW r \in Seq(Frame),
           r = <<>> \/ (q # <<>> /\ r = Tail(q))
    PROVE  (OneError(a \o q) => OneError(a \o r)) /\ (NoError(a \o q) => NoError(a \o r))
  <1>b. PICK b : b = a \o q
    OBVIOUS
  <1>c. PICK c : c = a \o r
    OBVIOUS
  <1>1. /\ b \in Seq(Frame) /\ Len(b) = Len(a) + Len(q)
        /\ \A i \in 1..Len(a) : b[i] = a[i]
        /\ \A i \in 1..Len(a) + Len(q) : ~(i <= Len(a)) => b[i] = q[i - Len(a)]
    BY <1>b, Joined
  <1>2. /\ c \in Seq(Frame) /\ Len(c) = Len(a) + Len(r)
        /\ \A i \in 1..Len(a) : c[i] = a[i]
        /\ \A i \in 1..Len(a) + Len(r) : ~(i <= Len(a)) => c[i] = r[i - Len(a)]
    BY <1>c, Joined
  <1>3. Len(a) \in Nat /\ Len(q) \in Nat /\ Len(r) \in Nat
    OBVIOUS
  <1>4. PICK d \in Nat : Len(r) + d = Len(q) /\ \A i \in 1..Len(r) : r[i] = q[i + d]
    <2>1. CASE r = <<>>
      <3>1. Len(r) + Len(q) = Len(q) /\ \A i \in 1..Len(r) : r[i] = q[i + Len(q)]
        BY <1>3, <2>1
      <3>. QED  BY <1>3, <3>1
    <2>2. CASE q # <<>> /\ r = Tail(q)
      <3>1. Len(r) + 1 = Len(q) /\ \A i \in 1..Len(r) : r[i] = q[i + 1]
        BY <1>3, <2>2, HeadTailProperties
      <3>. QED  BY <3>1
    <2>. QED  BY <2>1, <2>2
  <1>5. ASSUME NEW i \in 1..Len(c) PROVE c[i] = IF i <= Len(a) THEN b[i] ELSE b[i + d]
    <2>1. CASE i <= Len(a)
      <3>1. i \in 1..Len(a)
        BY <1>2, <1>3, <2>1
      <3>2. c[i] = a[i] /\ b[i] = a[i]
        BY ONLY <1>1, <1>2, <3>1
      <3>. QED  BY ONLY <2>1, <3>2
    <2>2. CASE ~(i <= Len(a))
      <3>1. i + d \in 1..Len(a) + Len(q) /\ ~(i + d <= Len(a)) /\ i \in 1..Len(a) + Len(r)
            /\ i + d - Len(a) = (i - Len(a)) + d /\ i - Len(a) \in 1..Len(r)
        BY <1>2, <1>3, <1>4, <2>2
      <3>2. b[i + d] = q[i + d - Len(a)]
        BY ONLY <1>1, <3>1
      <3>3. c[i] = r[i - Len(a)]
        BY ONLY <1>2, <2>2, <3>1
      <3>4. r[i - Len(a)] = q[(i - Len(a)) + d]
        BY ONLY <1>4, <3>1
      <3>. QED  BY ONLY <2>2, <3>1, <3>2, <3>3, <3>4
    <2>. QED  BY <2>1, <2>2
  <1>6. Cut(c, b, Len(a), d)
    BY <1>1, <1>2, <1>3, <1>4, <1>5 DEF Cut
  <1>7. (OneError(b) => OneError(c)) /\ (NoError(b) => NoError(c))
    BY <1>1, <1>2, <1>3, <1>4, <1>6, Dropped
  <1>. QED  BY <1>b, <1>c, <1>7

\* The next frame counts one on.
LEMMA NumberedOut ==
    ASSUME NEW q \in Seq(Frame), NEW m \in Nat, NEW p \in Int, NEW f \in Frame, Numbered(q, m, p),
           IsOut(f), f.seq = m + 1, f.n > p
    PROVE  Numbered(Append(q, f), m + 1, f.n)
  <1> DEFINE c == Append(q, f)
  <1>1. c \in Seq(Frame) /\ Len(c) = Len(q) + 1 /\ c[Len(q) + 1] = f /\ Len(q) \in Nat
        /\ \A i \in 1..Len(q) : c[i] = q[i]
    BY AppendProperties
  <1> HIDE DEF c
  <1>2. f.n \in Nat /\ f.seq \in Nat /\ \A i \in 1..Len(q) : IsOut(q[i]) => q[i].n \in Nat /\ q[i].seq \in Nat
    BY DEF Frame, IsOut, StreamError
  <1>3. ASSUME NEW i \in 1..Len(c), NEW j \in 1..Len(c), IsOut(c[i]), IsOut(c[j]), i < j
        PROVE  c[i].n < c[j].n /\ c[i].seq < c[j].seq
    <2>1. i \in 1..Len(q)
      BY <1>1, <1>3
    <2>2. CASE j = Len(q) + 1
      <3>1. IsOut(q[i]) /\ c[i] = q[i] /\ c[j] = f
        BY <1>1, <1>3, <2>1, <2>2
      <3>2. q[i].seq \in 1..m /\ q[i].n <= p
        BY <2>1, <3>1 DEF Numbered
      <3>3. q[i].n \in Nat /\ f.n \in Nat
        BY <1>2, <2>1, <3>1
      <3>4. q[i].n < f.n /\ q[i].seq < f.seq
        BY <3>2, <3>3
      <3>. QED  BY <3>1, <3>4
    <2>3. CASE j \in 1..Len(q)
      BY <1>1, <1>3, <2>1, <2>3 DEF Numbered
    <2>. QED  BY <1>1, <2>2, <2>3
  <1>4. ASSUME NEW i \in 1..Len(c), IsOut(c[i]) PROVE c[i].seq \in 1..m + 1 /\ c[i].n <= f.n
    <2>1. CASE i = Len(q) + 1
      BY <1>1, <1>2, <2>1
    <2>2. CASE i \in 1..Len(q)
      <3>1. IsOut(q[i]) /\ c[i] = q[i]
        BY <1>1, <1>4, <2>2
      <3>2. q[i].seq \in 1..m /\ q[i].n <= p
        BY <2>2, <3>1 DEF Numbered
      <3>. QED  BY <1>2, <2>2, <3>1, <3>2
    <2>. QED  BY <1>1, <2>1, <2>2
  <1>5. ASSUME NEW k \in 1..m + 1 PROVE \E i \in 1..Len(c) : IsOut(c[i]) /\ c[i].seq = k
    <2>1. CASE k = m + 1
      BY <1>1, <2>1
    <2>2. CASE k \in 1..m
      <3>1. PICK i \in 1..Len(q) : IsOut(q[i]) /\ q[i].seq = k
        BY <2>2 DEF Numbered
      <3>. QED  BY <1>1, <3>1
    <2>. QED  BY <2>1, <2>2
  <1>6. Numbered(c, m + 1, f.n)
    BY <1>3, <1>4, <1>5 DEF Numbered
  <1>. QED  BY <1>6 DEF c

\* A terminal frame is not counted.
LEMMA NumberedOther ==
    ASSUME NEW q \in Seq(Frame), NEW m \in Int, NEW p \in Int, NEW f \in Frame, Numbered(q, m, p),
           ~IsOut(f)
    PROVE  Numbered(Append(q, f), m, p)
  <1> DEFINE c == Append(q, f)
  <1>1. c \in Seq(Frame) /\ Len(c) = Len(q) + 1 /\ c[Len(q) + 1] = f /\ Len(q) \in Nat
        /\ \A i \in 1..Len(q) : c[i] = q[i]
    BY AppendProperties
  <1> HIDE DEF c
  <1>2. \A i \in 1..Len(c) : IsOut(c[i]) => i \in 1..Len(q) /\ c[i] = q[i]
    BY <1>1
  <1>3. \A i \in 1..Len(q) : i \in 1..Len(c) /\ c[i] = q[i]
    BY <1>1
  <1>4. \A k \in 1..m : \E i \in 1..Len(c) : IsOut(c[i]) /\ c[i].seq = k
    BY <1>3 DEF Numbered
  <1>5. Numbered(c, m, p)
    BY <1>2, <1>4 DEF Numbered
  <1>. QED  BY <1>5 DEF c

\* A later position bounds the messages as well.
LEMMA NumberedLater ==
    ASSUME NEW q \in Seq(Frame), NEW m \in Int, NEW p \in Int, NEW r \in Int, Numbered(q, m, p), p <= r
    PROVE  Numbered(q, m, r)
  <1>1. ASSUME NEW i \in 1..Len(q), IsOut(q[i]) PROVE q[i].n <= r
    <2>1. q[i].n <= p
      BY <1>1 DEF Numbered
    <2>2. q[i].n \in Nat
      BY <1>1 DEF Frame, IsOut, StreamError
    <2>. QED  BY <2>1, <2>2
  <1>. QED  BY <1>1 DEF Numbered

\* No frame is on its way at first.
LEMMA InitOut == Init => OutOK
  <1> SUFFICES ASSUME Init PROVE OutOK
    OBVIOUS
  <1>1. Sent = <<>> /\ shown = <<>> /\ hand = NoFrame /\ out_seq = 1 /\ notice = "none"
    BY DEF Init, Sent
  <1>2. Numbered(<<>>, 0, cursor) /\ NoError(<<>>) /\ OneError(<<>>)
    BY DEF Numbered, NoError, OneError
  <1>. QED  BY <1>1, <1>2 DEF OutOK

\* What is known of the channels, and of the frame in hand, when nothing moves.
LEMMA SentType ==
    ASSUME StreamType
    PROVE  /\ shown \in Seq(Frame) /\ wire \in Seq(Frame) /\ queue \in Seq(Frame)
           /\ shown \o wire \in Seq(Frame) /\ Sent \in Seq(Frame)
           /\ out_seq \in Nat \ {0} /\ cursor \in Nat
           /\ hand # NoFrame => hand \in Frame /\ IsOut(hand)
           /\ <<>> \in Seq(Frame)
  <1>1. shown \in Seq(Frame) /\ wire \in Seq(Frame) /\ queue \in Seq(Frame)
    BY DEF StreamType, ChannelsOK
  <1>2. shown \o wire \in Seq(Frame)
    BY <1>1, Joined
  <1>3. Sent \in Seq(Frame)
    BY <1>1, <1>2, Joined DEF Sent
  <1>4. out_seq \in Nat \ {0} /\ cursor \in Nat
    BY DEF StreamType, TypeOK, LagInv, PositionOK
  <1>5. hand # NoFrame => hand \in Frame /\ IsOut(hand)
    BY DEF StreamType, TypeOK, Frame, IsOut
  <1>. QED  BY <1>1, <1>2, <1>3, <1>4, <1>5

\* Steps that keep the frames, whether or not one moves to the proxy's stdout.
LEMMA OutSame ==
    ASSUME OutOK, Sent' = Sent, UNCHANGED <<hand, out_seq, cursor>>,
           shown' = shown \/ NoError(shown'),
           proxy' # "gone" => proxy # "gone" /\ (conn' # "closed" => conn # "closed"),
           notice' # "queued" => notice # "queued",
           notice' # "none" => session' \in {"evicting", "blocked", "removed"}
    PROVE  OutOK'
  <1>1. OneError(Sent') /\ (notice' # "queued" => NoError(Sent'))
    BY DEF OutOK
  <1>2. /\ proxy' # "gone" => NoError(shown')
        /\ \A i \in 1..Len(shown') : IsError(shown'[i]) => i = Len(shown')
    <2>1. CASE shown' = shown
      BY <2>1 DEF OutOK
    <2>2. CASE NoError(shown')
      BY <2>2 DEF NoError
    <2>. QED  BY <2>1, <2>2
  <1>3. proxy' # "gone" /\ conn' # "closed" =>
          IF hand' = NoFrame THEN Numbered(Sent', out_seq' - 1, cursor')
          ELSE /\ Numbered(Sent', out_seq' - 2, hand'.n - 1)
               /\ hand'.seq = out_seq' - 1 /\ hand'.n <= cursor' /\ out_seq' >= 2
    BY DEF OutOK
  <1>. QED  BY <1>1, <1>2, <1>3 DEF OutOK, Numbered, OneError, NoError

\* Steps of a proxy that is gone, or leaves: only the terminal frames matter.
LEMMA OutGone ==
    ASSUME OutOK, proxy' = "gone", OneError(Sent) => OneError(Sent'), NoError(Sent) => NoError(Sent'),
           UNCHANGED <<notice, session>>,
           shown' = shown \/ \A i \in 1..Len(shown') : IsError(shown'[i]) => i = Len(shown')
    PROVE  OutOK'
  <1>1. OneError(Sent') /\ (notice' # "queued" => NoError(Sent'))
        /\ (notice' # "none" => session' \in {"evicting", "blocked", "removed"})
    BY DEF OutOK
  <1>2. \A i \in 1..Len(shown') : IsError(shown'[i]) => i = Len(shown')
    BY DEF OutOK
  <1>. QED  BY <1>1, <1>2 DEF OutOK, OneError, NoError

\* The proxy leaves and what was on its way to it is lost.
LEMMA OutLeave ==
    ASSUME StreamType, OutOK, proxy' = "gone", wire' = <<>>,
           UNCHANGED <<notice, session, queue, shown>>
    PROVE  OutOK'
  <1>1. Sent' = (shown \o <<>>) \o queue
    BY DEF Sent
  <1>2. (OneError(Sent) => OneError(Sent')) /\ (NoError(Sent) => NoError(Sent'))
    BY <1>1, SentType, CutWire DEF Sent
  <1>. QED  BY <1>2, OutGone

\* runtime_task takes a message.
LEMMA OutReceive ==
    ASSUME StreamType, OutOK, ReceiveOut, StreamType'
    PROVE  OutOK'
  <1>1. /\ hand = NoFrame /\ hand' = LspOut(out_seq, cursor') /\ out_seq' = out_seq + 1
        /\ UNCHANGED <<session, notice, queue, wire, proxy, conn, shown>>
    BY DEF ReceiveOut, serverVars, stdioVars
  <1>2. cursor' > cursor /\ cursor \in Nat /\ cursor' \in Nat /\ out_seq \in Nat \ {0}
    <2>1. Ring \in Nat /\ cursor \in Nat /\ published \in Nat /\ cursor' \in Nat
      BY DEF StreamType, LagInv, PositionOK
    <2>2. out_seq \in Nat \ {0}
      BY DEF StreamType, TypeOK
    <2>. QED  BY <2>1, <2>2 DEF ReceiveOut
  <1>3. Sent' = Sent
    BY <1>1 DEF Sent
  <1>4. hand' # NoFrame /\ hand'.seq = out_seq /\ hand'.n = cursor'
    BY <1>1 DEF LspOut, NoFrame
  <1>5. ASSUME proxy' # "gone", conn' # "closed"
        PROVE  Numbered(Sent, out_seq' - 2, hand'.n - 1)
    <2>1. Numbered(Sent, out_seq - 1, cursor)
      BY <1>1, <1>5 DEF OutOK
    <2>2. Numbered(Sent, out_seq - 1, cursor' - 1)
      <3>0. PICK c \in Nat : c = cursor' /\ cursor < c
        BY <1>2
      <3>1. cursor <= c - 1 /\ c - 1 \in Int
        <4>1. cursor \in Nat /\ c \in Nat /\ cursor < c
          BY <1>2, <3>0
        <4>. QED  BY ONLY <4>1
      <3>2. Sent \in Seq(Frame)
        BY SentType
      <3>3. Numbered(Sent, out_seq - 1, c - 1)
        <4>1. PICK m \in Int : m = out_seq - 1
          BY <1>2
        <4>2. PICK r \in Int : r = c - 1
          BY <3>1
        <4>3. Numbered(Sent, m, cursor) /\ cursor \in Int /\ cursor <= r
          BY <1>2, <2>1, <3>1, <4>1, <4>2
        <4>4. Numbered(Sent, m, r)
          BY ONLY <3>2, <4>3, NumberedLater
        <4>. QED  BY <4>1, <4>2, <4>4
      <3>. QED  BY <3>0, <3>3
    <2>3. out_seq' - 2 = out_seq - 1 /\ hand'.n - 1 = cursor' - 1
      BY <1>1, <1>2, <1>4
    <2>. QED  BY <2>2, <2>3
  <1>6. out_seq' >= 2 /\ hand'.seq = out_seq' - 1 /\ hand'.n <= cursor'
    BY <1>1, <1>2, <1>4
  <1>. QED  BY <1>1, <1>3, <1>4, <1>5, <1>6 DEF OutOK, Numbered, OneError, NoError

\* A frame more, at the end: runtime_task's, or the one of event_task.
LEMMA SentAppend ==
    ASSUME StreamType, NEW f \in Frame, queue' = Append(queue, f), UNCHANGED <<shown, wire>>
    PROVE  /\ Sent' = Append(Sent, f)
           /\ IsOut(f) => (OneError(Sent) => OneError(Sent')) /\ (NoError(Sent) => NoError(Sent'))
           /\ NoError(Sent) => OneError(Sent')
  <1>1. Sent' = Append(Sent, f)
    BY SentType, AppendEnd DEF Sent
  <1>2. PICK c : c = Append(Sent, f)
    OBVIOUS
  <1>3. PICK s : s = Sent
    OBVIOUS
  <1>4. /\ Len(c) = Len(s) + 1 /\ c[Len(s) + 1] = f /\ Len(s) \in Nat
        /\ \A i \in 1..Len(s) : c[i] = s[i]
    BY <1>2, <1>3, SentType, AppendProperties
  <1>5. IsOut(f) => ~IsError(f)
    BY DEF IsOut, IsError
  <1>6. \A i \in 1..Len(c) : i = Len(s) + 1 \/ i \in 1..Len(s)
    BY <1>4
  <1>7. IsOut(f) /\ NoError(s) => NoError(c)
    BY <1>4, <1>5, <1>6 DEF NoError
  <1>8. IsOut(f) /\ OneError(s) => OneError(c)
    BY <1>4, <1>5, <1>6 DEF OneError
  <1>9. NoError(s) => OneError(c)
    BY <1>4, <1>6 DEF OneError, NoError
  <1>. QED  BY <1>1, <1>2, <1>3, <1>7, <1>8, <1>9

\* A frame enters the queue of the writer.
LEMMA OutQueue ==
    ASSUME StreamType, OutOK, QueueOut \/ QueueNotice
    PROVE  OutOK'
  <1> USE DEF serverVars, stdioVars
  <1>1. CASE QueueOut
    <2>1. /\ hand # NoFrame /\ hand' = NoFrame /\ queue' = Append(queue, hand)
          /\ UNCHANGED <<session, notice, wire, proxy, conn, shown, cursor, out_seq>>
      BY <1>1 DEF QueueOut
    <2>2. hand \in Frame /\ IsOut(hand) /\ Sent \in Seq(Frame) /\ cursor \in Nat /\ out_seq \in Nat
      BY <2>1, SentType
    <2>3. Sent' = Append(Sent, hand) /\ (OneError(Sent) => OneError(Sent')) /\ (NoError(Sent) => NoError(Sent'))
      BY <2>1, <2>2, SentAppend
    <2>4. ASSUME proxy' # "gone", conn' # "closed"
          PROVE  Numbered(Sent', out_seq' - 1, cursor')
      <3>1. Numbered(Sent, out_seq - 2, hand.n - 1) /\ hand.seq = out_seq - 1 /\ hand.n <= cursor /\ out_seq >= 2
        BY <2>1, <2>4 DEF OutOK
      <3>2. out_seq - 2 \in Nat /\ hand.n \in Nat /\ hand.n - 1 \in Int /\ hand.seq = (out_seq - 2) + 1
            /\ hand.n > hand.n - 1
        BY <2>2, <3>1 DEF Frame, IsOut, StreamError
      <3>3. Numbered(Append(Sent, hand), (out_seq - 2) + 1, hand.n)
        BY <2>2, <3>1, <3>2, NumberedOut
      <3>4. (out_seq - 2) + 1 = out_seq - 1 /\ Append(Sent, hand) \in Seq(Frame)
        BY <2>2, AppendProperties
      <3>5. Numbered(Append(Sent, hand), out_seq - 1, cursor)
        <4>1. Numbered(Append(Sent, hand), out_seq - 1, hand.n)
          BY <3>3, <3>4
        <4>2. out_seq - 1 \in Int /\ hand.n \in Int /\ cursor \in Int /\ hand.n <= cursor
          BY <2>2, <3>1, <3>2
        <4>. QED  BY <3>4, <4>1, <4>2, NumberedLater
      <3>. QED  BY <2>1, <2>3, <3>5
    <2>. QED  BY <2>1, <2>3, <2>4 DEF OutOK, Numbered, OneError, NoError
  <1>2. CASE QueueNotice
    <2>1. /\ notice = "sent" /\ notice' = "queued" /\ queue' = Append(queue, StreamError)
          /\ UNCHANGED <<session, hand, wire, proxy, conn, shown, cursor, out_seq>>
      BY <1>2 DEF QueueNotice
    <2>2. StreamError \in Frame /\ ~IsOut(StreamError)
      BY DEF Frame, IsOut, StreamError
    <2>3. NoError(Sent) /\ session' \in {"evicting", "blocked", "removed"}
      BY <2>1 DEF OutOK
    <2>4. Sent' = Append(Sent, StreamError) /\ OneError(Sent')
      BY <2>1, <2>2, <2>3, SentAppend
    <2>5. \A m, p \in Int : Numbered(Sent, m, p) => Numbered(Sent', m, p)
      BY <2>2, <2>4, SentType, NumberedOther
    <2>6. out_seq - 1 \in Int /\ out_seq - 2 \in Int /\ cursor \in Int /\ (hand # NoFrame => hand.n - 1 \in Int)
      <3>1. out_seq \in Nat /\ cursor \in Nat /\ (hand # NoFrame => hand \in Frame /\ IsOut(hand))
        BY SentType
      <3>. QED  BY <3>1 DEF Frame, IsOut, StreamError
    <2>7. proxy' # "gone" /\ conn' # "closed" =>
            IF hand' = NoFrame THEN Numbered(Sent', out_seq' - 1, cursor')
            ELSE /\ Numbered(Sent', out_seq' - 2, hand'.n - 1)
                 /\ hand'.seq = out_seq' - 1 /\ hand'.n <= cursor' /\ out_seq' >= 2
      BY <2>1, <2>5, <2>6 DEF OutOK
    <2>. QED  BY <2>1, <2>3, <2>4, <2>7 DEF OutOK, Numbered, OneError, NoError
  <1>. QED  BY <1>1, <1>2

\* A frame is written to the socket, or to one that is closed.
LEMMA OutWrite ==
    ASSUME StreamType, OutOK, WriteFrame \/ EndOfInput
    PROVE  OutOK'
  <1> USE DEF serverVars, stdioVars
  <1>1. CASE EndOfInput \/ (WriteFrame /\ proxy = "gone")
    <2>1. /\ proxy' = "gone" /\ UNCHANGED <<notice, session, shown, wire>>
          /\ queue' = <<>> \/ (queue # <<>> /\ queue' = Tail(queue))
      BY <1>1 DEF WriteFrame, EndOfInput
    <2>2. queue' \in Seq(Frame)
      BY <2>1, SentType, HeadTailProperties
    <2>3. Sent' = (shown \o wire) \o queue'
      BY <2>1 DEF Sent
    <2>4. /\ OneError((shown \o wire) \o queue) => OneError((shown \o wire) \o queue')
          /\ NoError((shown \o wire) \o queue) => NoError((shown \o wire) \o queue')
      BY <2>1, <2>2, SentType, CutQueue
    <2>5. (OneError(Sent) => OneError(Sent')) /\ (NoError(Sent) => NoError(Sent'))
      BY <2>3, <2>4 DEF Sent
    <2>. QED  BY <2>1, <2>5, OutGone
  <1>2. CASE WriteFrame /\ proxy # "gone"
    <2>1. /\ queue # <<>> /\ queue' = Tail(queue) /\ wire' = Append(wire, Head(queue))
          /\ UNCHANGED <<notice, session, shown, proxy, conn, hand, out_seq, cursor>>
      BY <1>2 DEF WriteFrame
    <2>2. Head(queue) \in Frame
      BY <2>1, SentType, HeadTailProperties
    <2>3. shown \o Append(wire, Head(queue)) = Append(shown \o wire, Head(queue))
      BY <2>2, SentType, AppendEnd
    <2>4. Append(shown \o wire, Head(queue)) \o Tail(queue) = (shown \o wire) \o queue
      BY <2>1, SentType, MoveHead
    <2>5. Sent' = Sent
      BY <2>1, <2>3, <2>4 DEF Sent
    <2>6. notice' # "none" => session' \in {"evicting", "blocked", "removed"}
      BY <2>1 DEF OutOK
    <2>. QED  BY <2>1, <2>5, <2>6, OutSame
  <1>. QED  BY <1>1, <1>2

\* A frame reaches the proxy's stdout; a terminal one is the last.
LEMMA OutShow ==
    ASSUME StreamType, OutOK, ShowFrame
    PROVE  OutOK'
  <1> USE DEF serverVars, outVars
  <1> DEFINE more == Append(shown, Head(wire))
  <1>1. /\ wire # <<>> /\ shown' = more /\ proxy = "running"
        /\ UNCHANGED <<notice, session, queue, conn, hand, out_seq, cursor>>
    BY DEF ShowFrame, Leave
  <1>2. /\ Head(wire) \in Frame /\ Tail(wire) \in Seq(Frame)
        /\ more \in Seq(Frame) /\ Len(more) = Len(shown) + 1 /\ more[Len(shown) + 1] = Head(wire)
        /\ \A i \in 1..Len(shown) : more[i] = shown[i]
    BY <1>1, SentType, HeadTailProperties, AppendProperties
  <1>3. more \o Tail(wire) = shown \o wire
    BY <1>1, SentType, MoveHead
  <1>4. NoError(shown) /\ Len(shown) \in Nat
    BY <1>1, SentType DEF OutOK
  <1>5. CASE Head(wire).type = "StreamError"
    <2>1. proxy' = "gone" /\ wire' = <<>>
      BY <1>5 DEF ShowFrame, Leave
    <2> HIDE DEF more
    <2>2. /\ OneError((more \o Tail(wire)) \o queue) => OneError((more \o <<>>) \o queue)
          /\ NoError((more \o Tail(wire)) \o queue) => NoError((more \o <<>>) \o queue)
      BY <1>2, SentType, CutWire
    <2>3. Sent' = (more \o <<>>) \o queue
      BY <1>1, <2>1 DEF Sent
    <2>4. (OneError(Sent) => OneError(Sent')) /\ (NoError(Sent) => NoError(Sent'))
      BY <1>3, <2>2, <2>3 DEF Sent
    <2>5. \A i \in 1..Len(more) : IsError(more[i]) => i = Len(more)
      <3>1. \A i \in 1..Len(more) : i \in 1..Len(shown) \/ i = Len(more)
        BY <1>2, <1>4
      <3>. QED  BY <1>2, <1>4, <3>1 DEF NoError
    <2>6. \A i \in 1..Len(shown') : IsError(shown'[i]) => i = Len(shown')
      BY <1>1, <2>5
    <2>. QED  BY <1>1, <2>1, <2>4, <2>6, OutGone
  <1>6. CASE Head(wire).type # "StreamError"
    <2>1. proxy' = proxy /\ wire' = Tail(wire)
      BY <1>6 DEF ShowFrame, Leave
    <2> HIDE DEF more
    <2>2. Sent' = Sent
      BY <1>1, <1>3, <2>1 DEF Sent
    <2>3. NoError(more)
      <3>1. \A i \in 1..Len(more) : i \in 1..Len(shown) \/ i = Len(shown) + 1
        BY <1>2, <1>4
      <3>2. ~IsError(Head(wire))
        BY <1>6 DEF IsError
      <3>. QED  BY <1>2, <1>4, <3>1, <3>2 DEF NoError
    <2>4. NoError(shown')
      BY <1>1, <2>3
    <2>5. notice' # "none" => session' \in {"evicting", "blocked", "removed"}
      BY <1>1 DEF OutOK
    <2>. QED  BY <1>1, <2>1, <2>2, <2>4, <2>5, OutSame
  <1>. QED  BY <1>5, <1>6

\* Everything else leaves the frames alone, or drops what was on its way to the proxy.
LEMMA StepOut == StreamType /\ OutOK /\ [Next]_vars => OutOK'
  <1> SUFFICES ASSUME StreamType, OutOK, [Next]_vars PROVE OutOK'
    OBVIOUS
  <1> USE DEF serverVars, outVars, stdioVars
  <1>1. StreamType'
    BY StepType
  <1>2. CASE ReceiveOut \/ QueueOut \/ QueueNotice \/ WriteFrame \/ EndOfInput \/ ShowFrame
    BY <1>1, <1>2, OutReceive, OutQueue, OutWrite, OutShow
  <1>3. CASE Accept
    <2>1. /\ conn = "connecting" /\ cursor' = published
          /\ UNCHANGED <<notice, session, queue, hand, out_seq, proxy, shown, wire>>
      BY <1>3 DEF Accept
    <2>2. out_seq = 1 /\ cursor \in Nat /\ published \in Nat /\ cursor <= published
      BY <2>1 DEF StreamType, LagInv, PositionOK
    <2>3. Sent' = Sent /\ Sent \in Seq(Frame)
      BY <2>1, SentType DEF Sent
    <2>4. ASSUME proxy # "gone" PROVE hand = NoFrame /\ Numbered(Sent, out_seq - 1, published)
      <3>1. hand = NoFrame /\ Numbered(Sent, out_seq - 1, cursor)
        BY <2>1, <2>2, <2>4 DEF OutOK
      <3>2. out_seq - 1 \in Int /\ cursor \in Int /\ published \in Int
        BY <2>2
      <3>. QED  BY <2>2, <2>3, <3>1, <3>2, NumberedLater
    <2>. QED  BY <2>1, <2>3, <2>4 DEF OutOK, Numbered, OneError, NoError
  <1>4. CASE Server \/ RemoveSession
    <2>1. /\ UNCHANGED <<hand, out_seq, cursor, shown, wire, queue, proxy, conn>>
      BY <1>4 DEF Server, Publish, Fail, EvictForMemory, RemoveSession
    <2>2. /\ notice' # "queued" => notice # "queued"
          /\ notice' # "none" => session' \in {"evicting", "blocked", "removed"}
      <3>1. CASE Publish \/ RemoveSession
        BY <3>1 DEF Publish, RemoveSession, OutOK
      <3>2. CASE Fail
        BY <3>2 DEF Fail, OutOK
      <3>3. CASE EvictForMemory
        BY <3>3 DEF EvictForMemory, OutOK
      <3>. QED  BY <1>4, <3>1, <3>2, <3>3 DEF Server
    <2>3. Sent' = Sent
      BY <2>1 DEF Sent
    <2>. QED  BY <2>1, <2>2, <2>3, OutSame
  <1>5. CASE ReadFrame \/ FailReading \/ CloseFailed \/ Editor \/ Connect \/ SkipBody \/ WriteMessage \/ UNCHANGED vars
    <2>1. /\ UNCHANGED <<hand, out_seq, cursor, shown, wire, queue, notice, session>>
          /\ proxy' = proxy \/ (proxy \in {"attached", "writing"} /\ proxy' = "running")
          /\ conn' \in {conn, "failed", "closed"} \/ (proxy = "attached" /\ conn' = "connecting")
          /\ conn' = "failed" => conn # "closed"
      <3>1. CASE ReadFrame \/ FailReading \/ CloseFailed
        BY <3>1 DEF ReadFrame, FailReading, CloseFailed
      <3>2. CASE Editor
        BY <3>2 DEF Editor, TypeHeader, TypeBody, CloseEditor
      <3>3. CASE Connect \/ SkipBody \/ WriteMessage \/ UNCHANGED vars
        BY <3>3 DEF Connect, SkipBody, WriteMessage, vars
      <3>. QED  BY <1>5, <3>1, <3>2, <3>3
    <2>2. proxy' # "gone" => proxy # "gone" /\ (conn' # "closed" => conn # "closed")
      BY <2>1 DEF StreamType, LagInv, PositionOK
    <2>3. notice' # "none" => session' \in {"evicting", "blocked", "removed"}
      BY <2>1 DEF OutOK
    <2>4. Sent' = Sent
      BY <2>1 DEF Sent
    <2>. QED  BY <2>1, <2>2, <2>3, <2>4, OutSame
  <1>6. CASE ReadHeader \/ ReadBody \/ End \/ Kill
    <2>1. \/ proxy' = "gone" /\ wire' = <<>> /\ UNCHANGED <<notice, session, queue, shown>>
          \/ /\ UNCHANGED <<hand, out_seq, cursor, shown, wire, queue, notice, session, conn>>
             /\ proxy # "gone"
      <3>1. CASE ReadHeader
        BY <3>1 DEF ReadHeader, Leave
      <3>2. CASE ReadBody
        BY <3>2 DEF ReadBody, Leave
      <3>3. CASE End \/ Kill
        BY <3>3 DEF End, Kill, Leave
      <3>. QED  BY <1>6, <3>1, <3>2, <3>3
    <2>2. CASE proxy' = "gone" /\ wire' = <<>> /\ UNCHANGED <<notice, session, queue, shown>>
      BY <2>2, OutLeave
    <2>3. CASE /\ UNCHANGED <<hand, out_seq, cursor, shown, wire, queue, notice, session, conn>>
               /\ proxy # "gone"
      <3>1. Sent' = Sent
        BY <2>3 DEF Sent
      <3>2. notice' # "none" => session' \in {"evicting", "blocked", "removed"}
        BY <2>3 DEF OutOK
      <3>. QED  BY <2>3, <3>1, <3>2, OutSame
    <2>. QED  BY <2>1, <2>2, <2>3
  <1>. QED  BY <1>2, <1>3, <1>4, <1>5, <1>6 DEF Next, Bridge, Proxy

\* The frames with the one in hand.
LEMMA FramesOK ==
    ASSUME StreamType, OutOK
    PROVE  /\ Frames \in Seq(Frame) /\ OneError(Frames)
           /\ proxy # "gone" /\ conn # "closed" => Numbered(Frames, out_seq - 1, cursor)
  <1>1. CASE hand = NoFrame
    <2>1. Frames = Sent \o <<>>
      BY <1>1 DEF Frames, Sent
    <2>2. Frames = Sent
      BY <2>1, SentType, ConcatEmptySeq
    <2>. QED  BY <1>1, <2>2, SentType DEF OutOK
  <1>2. CASE hand # NoFrame
    <2>1. hand \in Frame /\ IsOut(hand) /\ Sent \in Seq(Frame) /\ cursor \in Nat /\ out_seq \in Nat
      BY <1>2, SentType
    <2>2. Frames = Append(Sent, hand)
      BY <1>2, <2>1, AppendIsConcat DEF Frames, Sent
    <2>3. PICK c : c = Append(Sent, hand)
      OBVIOUS
    <2>4. PICK s : s = Sent
      OBVIOUS
    <2>5. /\ c \in Seq(Frame) /\ Len(c) = Len(s) + 1 /\ c[Len(s) + 1] = hand /\ Len(s) \in Nat
          /\ \A i \in 1..Len(s) : c[i] = s[i]
      BY <2>1, <2>3, <2>4, AppendProperties
    <2>6. \A i \in 1..Len(c) : i = Len(s) + 1 \/ i \in 1..Len(s)
      BY <2>5
    <2>7. OneError(c)
      <3>1. ~IsError(hand)
        BY <2>1 DEF IsOut, IsError
      <3>2. OneError(s)
        BY <2>4 DEF OutOK
      <3>. QED  BY <2>5, <2>6, <3>1, <3>2 DEF OneError
    <2>8. ASSUME proxy # "gone", conn # "closed" PROVE Numbered(Append(Sent, hand), out_seq - 1, cursor)
      <3>1. Numbered(Sent, out_seq - 2, hand.n - 1) /\ hand.seq = out_seq - 1 /\ hand.n <= cursor /\ out_seq >= 2
        BY <1>2, <2>8 DEF OutOK
      <3>2. out_seq - 2 \in Nat /\ hand.n \in Nat /\ hand.n - 1 \in Int /\ hand.seq = (out_seq - 2) + 1
            /\ hand.n > hand.n - 1
        BY <2>1, <3>1 DEF Frame, IsOut, StreamError
      <3>3. Numbered(Append(Sent, hand), (out_seq - 2) + 1, hand.n)
        BY <2>1, <3>1, <3>2, NumberedOut
      <3>4. (out_seq - 2) + 1 = out_seq - 1 /\ Append(Sent, hand) \in Seq(Frame)
        BY <2>1, <2>3, <2>5
      <3>5. Numbered(Append(Sent, hand), out_seq - 1, hand.n)
        BY <3>3, <3>4
      <3>6. out_seq - 1 \in Int /\ hand.n \in Int /\ cursor \in Int /\ hand.n <= cursor
        BY <2>1, <3>1, <3>2
      <3>. QED  BY <3>4, <3>5, <3>6, NumberedLater
    <2>. QED  BY <2>2, <2>3, <2>5, <2>7, <2>8
  <1>. QED  BY <1>1, <1>2

\* The editor sees the server's messages in order, none twice, numbered without a hole, and at
\* most one terminal frame, the last, whatever the capacities and wherever the bridge is cut
\* (runtime_task, event_task and writer_task in run_stream_connection).
THEOREM FramesInOrder == Spec => []OutInOrder
  <1>1. ASSUME StreamType, OutOK PROVE OutInOrder
    <2>1. PICK q : q = Frames
      OBVIOUS
    <2>2. /\ q \in Seq(Frame) /\ OneError(q)
          /\ proxy # "gone" /\ conn # "closed" => Numbered(q, out_seq - 1, cursor)
      BY <1>1, <2>1, FramesOK
    <2>3. DOMAIN q = 1..Len(q) /\ DOMAIN shown = 1..Len(shown)
      BY <1>1, <2>2, SentType
    <2>4. Outs = {i \in 1..Len(q) : IsOut(q[i])}
      BY <2>1, <2>3 DEF Outs, IsOut
    <2>5. ASSUME proxy # "gone", conn # "closed"
          PROVE  /\ \A i, j \in Outs : i < j => q[i].n < q[j].n /\ q[i].seq < q[j].seq
                 /\ {q[i].seq : i \in Outs} = 1..(out_seq - 1)
      BY <2>2, <2>4, <2>5 DEF Numbered
    <2>6. \A i, j \in DOMAIN q : q[i].type = "StreamError" /\ q[j].type = "StreamError" => i = j
      BY <2>2, <2>3 DEF OneError, IsError
    <2>7. \A i \in DOMAIN shown : shown[i].type = "StreamError" => i = Len(shown)
      BY <1>1, <2>3 DEF OutOK, IsError
    <2>. QED  BY <2>1, <2>5, <2>6, <2>7 DEF OutInOrder
  <1>. QED  BY <1>1, InitType, StepType, InitOut, StepOut, PTL DEF Spec

--------------------------------------------------------------------------------
(* Messages of the editor *)

\* Messages are in order in the daemon's queue r and in the socket u, and none is numbered past
\* what was read, t pieces.
InOrder(r, u, t) ==
    /\ \A i, j \in 1..Len(r) : i < j => r[i] < r[j]
    /\ \A i, j \in 1..Len(u) : i < j /\ u[j] # Partial => u[i].n < u[j].n
    /\ \A i \in 1..Len(r), j \in 1..Len(u) : u[j] # Partial => r[i] < u[j].n
    /\ \A i \in 1..Len(r) : 2 * r[i] <= t
    /\ \A i \in 1..Len(u) : 2 * u[i].n <= t

Below(r, u, m) == (\A i \in 1..Len(r) : r[i] < m) /\ (\A i \in 1..Len(u) : u[i].n < m)
Numbers(r, u)  == {r[i] : i \in 1..Len(r)} \cup {u[i].n : i \in 1..Len(u)}

\* A frame cut short is the last one.
CutLast(u) == \A i \in 1..Len(u) : u[i] = Partial => i = Len(u)
Cutoff(u)  == IF u # <<>> /\ u[Len(u)] = Partial THEN 1 ELSE 0

\* The messages that were read whole and go to the server.
Forwarded == {n \in 1..typed : 2 * n <= Taken /\ kind[n] = "forwarded"}

\* Every forwarded message is passed on and none counted twice; a frame is cut short only by the
\* end of the proxy, and the lease comes back when all are read.
InboundInv ==
    /\ InOrder(received, up, Taken)
    /\ 2 * message <= Taken
    /\ Alive /\ message # 0 => Below(received, up, message)
    /\ session = "up" /\ Alive /\ ~torn => (Numbers(received, up) \cup {message}) \ {0} = Forwarded
    /\ session = "up" => in_seq - 1 = Len(received) + Len(up) - Cutoff(up)
    /\ CutLast(up)
    /\ Alive => \A i \in 1..Len(up) : up[i] # Partial
    /\ lease = "released" => conn = "closed" /\ proxy = "gone" /\ up = <<>>

\* What is numbered: the numbers of frames and messages are integers.
LEMMA UpNumber == ASSUME NEW f \in UpLink PROVE f.n \in 0..MaxIn /\ (f # Partial => f.n \in 1..MaxIn)
  BY DEF UpLink, Partial

\* Reading on does no harm.
LEMMA OrderLater ==
    ASSUME NEW r \in Seq(1..MaxIn), NEW u \in Seq(UpLink), NEW t \in Int, NEW v \in Int, t <= v,
           InOrder(r, u, t)
    PROVE  InOrder(r, u, v)
  <1>1. ASSUME NEW i \in 1..Len(r) PROVE 2 * r[i] <= v
    <2>1. 2 * r[i] <= t /\ r[i] \in 1..MaxIn
      BY DEF InOrder
    <2>. QED  BY <2>1
  <1>2. ASSUME NEW i \in 1..Len(u) PROVE 2 * u[i].n <= v
    <2>1. 2 * u[i].n <= t
      BY DEF InOrder
    <2>2. u[i].n \in 0..MaxIn
      BY UpNumber
    <2>. QED  BY <2>1, <2>2
  <1>. QED  BY <1>1, <1>2 DEF InOrder

\* A message goes to the end of the socket.
LEMMA OrderPass ==
    ASSUME NEW r \in Seq(1..MaxIn), NEW u \in Seq(UpLink), NEW t \in Int, NEW s \in Nat,
           NEW m \in 1..MaxIn, InOrder(r, u, t), Below(r, u, m), 2 * m <= t,
           \A i \in 1..Len(u) : u[i] # Partial
    PROVE  /\ InOrder(r, Append(u, LspIn(s, m)), t)
           /\ Numbers(r, Append(u, LspIn(s, m))) = Numbers(r, u) \cup {m}
           /\ \A i \in 1..Len(Append(u, LspIn(s, m))) : Append(u, LspIn(s, m))[i] # Partial
           /\ Len(Append(u, LspIn(s, m))) = Len(u) + 1
  <1>0. LspIn(s, m) \in UpLink /\ LspIn(s, m) # Partial /\ LspIn(s, m).n = m
    BY DEF UpLink, LspIn, Partial
  <1>1. PICK c : c = Append(u, LspIn(s, m))
    OBVIOUS
  <1>2. /\ Len(c) = Len(u) + 1 /\ c[Len(u) + 1] # Partial /\ c[Len(u) + 1].n = m /\ Len(u) \in Nat
        /\ \A i \in 1..Len(u) : c[i] = u[i]
    BY <1>0, <1>1, AppendProperties
  <1>3. \A i \in 1..Len(c) : i = Len(u) + 1 \/ i \in 1..Len(u)
    BY <1>2
  <1>4. \A i \in 1..Len(c) : c[i] # Partial
    BY <1>2, <1>3
  <1>5. Numbers(r, c) = Numbers(r, u) \cup {m}
    <2>1. {c[i].n : i \in 1..Len(c)} = {u[i].n : i \in 1..Len(u)} \cup {m}
      <3>1. \A i \in 1..Len(u) : i \in 1..Len(c)
        BY <1>2
      <3>2. Len(u) + 1 \in 1..Len(c)
        BY <1>2
      <3>. QED  BY <1>2, <1>3, <3>1, <3>2
    <2>. QED  BY <2>1 DEF Numbers
  <1>6. \A i, j \in 1..Len(c) : i < j => c[i].n < c[j].n
    <2>1. SUFFICES ASSUME NEW i \in 1..Len(c), NEW j \in 1..Len(c), i < j PROVE c[i].n < c[j].n
      OBVIOUS
    <2>2. i \in 1..Len(u) /\ c[i] = u[i]
      BY <1>2, <2>1
    <2>3. CASE j = Len(u) + 1
      BY <1>2, <2>2, <2>3 DEF Below
    <2>4. CASE j \in 1..Len(u)
      BY <1>2, <2>1, <2>2, <2>4 DEF InOrder
    <2>. QED  BY <1>3, <2>3, <2>4
  <1>7. \A i \in 1..Len(r), j \in 1..Len(c) : r[i] < c[j].n
    BY <1>2, <1>3 DEF InOrder, Below
  <1>8. \A i \in 1..Len(c) : 2 * c[i].n <= t
    BY <1>2, <1>3 DEF InOrder
  <1>9. InOrder(r, c, t)
    BY <1>6, <1>7, <1>8 DEF InOrder
  <1>. QED  BY <1>1, <1>2, <1>4, <1>5, <1>9

\* A frame is cut short.
LEMMA OrderCut ==
    ASSUME NEW r \in Seq(1..MaxIn), NEW u \in Seq(UpLink), NEW t \in Nat, InOrder(r, u, t),
           \A i \in 1..Len(u) : u[i] # Partial
    PROVE  /\ InOrder(r, Append(u, Partial), t)
           /\ CutLast(Append(u, Partial)) /\ Cutoff(Append(u, Partial)) = 1 /\ Cutoff(u) = 0
           /\ Len(Append(u, Partial)) = Len(u) + 1
  <1>0. Partial \in UpLink /\ Partial.n = 0
    BY DEF UpLink, Partial
  <1>1. PICK c : c = Append(u, Partial)
    OBVIOUS
  <1>2. /\ Len(c) = Len(u) + 1 /\ c[Len(u) + 1] = Partial /\ Len(u) \in Nat
        /\ \A i \in 1..Len(u) : c[i] = u[i]
    BY <1>0, <1>1, AppendProperties
  <1>3. \A i \in 1..Len(c) : i = Len(u) + 1 \/ i \in 1..Len(u)
    BY <1>2
  <1>4. CutLast(c)
    BY <1>2, <1>3 DEF CutLast
  <1>5. Cutoff(u) = 0
    <2>1. u # <<>> => Len(u) \in 1..Len(u)
      OBVIOUS
    <2>. QED  BY <2>1 DEF Cutoff
  <1>6. Cutoff(c) = 1
    <2>1. c # <<>>
      BY <1>2
    <2>. QED  BY <1>2, <2>1 DEF Cutoff
  <1>7. \A i \in 1..Len(c) : c[i] # Partial => i \in 1..Len(u) /\ c[i] = u[i]
    BY <1>2, <1>3
  <1>8. \A i, j \in 1..Len(c) : i < j => i \in 1..Len(u) /\ c[i] = u[i]
    BY <1>2
  <1>9. ASSUME NEW i \in 1..Len(c) PROVE 2 * c[i].n <= t
    <2>1. CASE i = Len(u) + 1
      <3>1. c[i].n = 0
        BY <1>0, <1>2, <2>1
      <3>2. 2 * 0 <= t
        OBVIOUS
      <3>. QED  BY ONLY <3>1, <3>2
    <2>2. CASE i \in 1..Len(u)
      BY <1>2, <2>2 DEF InOrder
    <2>. QED  BY <1>3, <2>1, <2>2
  <1>10. InOrder(r, c, t)
    <2>1. \A i, j \in 1..Len(c) : i < j /\ c[j] # Partial => c[i].n < c[j].n
      <3>1. SUFFICES ASSUME NEW i \in 1..Len(c), NEW j \in 1..Len(c), i < j, c[j] # Partial
                     PROVE  c[i].n < c[j].n
        OBVIOUS
      <3>2. i \in 1..Len(u) /\ c[i] = u[i] /\ j \in 1..Len(u) /\ c[j] = u[j]
        BY <1>7, <1>8, <3>1
      <3>. QED  BY <3>1, <3>2 DEF InOrder
    <2>2. \A i \in 1..Len(r), j \in 1..Len(c) : c[j] # Partial => r[i] < c[j].n
      BY <1>7 DEF InOrder
    <2>. QED  BY <1>9, <2>1, <2>2 DEF InOrder
  <1>. QED  BY <1>1, <1>2, <1>4, <1>5, <1>6, <1>10

\* The first frame leaves the socket.
LEMMA OrderTail ==
    ASSUME NEW u \in Seq(UpLink), u # <<>>, Head(u) # Partial, CutLast(u)
    PROVE  /\ Head(u) = u[1] /\ Len(Tail(u)) = Len(u) - 1 /\ Len(u) \in Nat \ {0}
           /\ \A i \in 1..Len(Tail(u)) : Tail(u)[i] = u[i + 1] /\ i + 1 \in 1..Len(u)
           /\ CutLast(Tail(u)) /\ Cutoff(Tail(u)) = Cutoff(u)
  <1>1. PICK c : c = Tail(u)
    OBVIOUS
  <1>2. Head(u) = u[1] /\ Len(c) = Len(u) - 1 /\ Len(u) \in Nat \ {0} /\ c \in Seq(UpLink)
    BY <1>1, HeadTailProperties
  <1>3. \A i \in 1..Len(c) : c[i] = u[i + 1] /\ i + 1 \in 1..Len(u)
    BY <1>1, <1>2, HeadTailProperties
  <1>4. CutLast(c)
    <2>1. ASSUME NEW i \in 1..Len(c), c[i] = Partial PROVE i = Len(c)
      <3>1. i + 1 \in 1..Len(u) /\ u[i + 1] = Partial
        BY <1>3, <2>1
      <3>2. i + 1 = Len(u)
        BY <3>1 DEF CutLast
      <3>. QED  BY <1>2, <3>2
    <2>. QED  BY <2>1 DEF CutLast
  <1>5. Cutoff(c) = Cutoff(u)
    <2>1. CASE Len(u) = 1
      <3>1. c = <<>> /\ u[Len(u)] # Partial
        BY <1>2, <2>1
      <3>. QED  BY <3>1 DEF Cutoff
    <2>2. CASE Len(u) # 1
      <3>1. Len(c) \in 1..Len(c) /\ Len(c) + 1 = Len(u)
        BY <1>2, <2>2
      <3>2. c # <<>> /\ c[Len(c)] = u[Len(u)]
        BY <1>3, <3>1
      <3>. QED  BY <3>2 DEF Cutoff
    <2>. QED  BY <2>1, <2>2
  <1>. QED  BY <1>1, <1>2, <1>3, <1>4, <1>5

\* The reader loop hands the first frame to the server, or loses it.
LEMMA OrderRead ==
    ASSUME NEW r \in Seq(1..MaxIn), NEW u \in Seq(UpLink), NEW t \in Int, InOrder(r, u, t),
           u # <<>>, Head(u) # Partial, CutLast(u)
    PROVE  /\ InOrder(Append(r, Head(u).n), Tail(u), t) /\ InOrder(r, Tail(u), t)
           /\ Numbers(Append(r, Head(u).n), Tail(u)) = Numbers(r, u)
           /\ Len(Append(r, Head(u).n)) = Len(r) + 1
           /\ \A m \in Nat : Below(r, u, m) =>
                 Below(Append(r, Head(u).n), Tail(u), m) /\ Below(r, Tail(u), m)
  <1>1. PICK c : c = Tail(u)
    OBVIOUS
  <1>2. PICK h : h = Head(u).n
    OBVIOUS
  <1>3. PICK p : p = Append(r, h)
    OBVIOUS
  <1>4. /\ Len(c) = Len(u) - 1 /\ Len(u) \in Nat \ {0} /\ 1 \in 1..Len(u) /\ u[1].n = h /\ u[1] # Partial
        /\ \A i \in 1..Len(c) : c[i] = u[i + 1] /\ i + 1 \in 1..Len(u)
    BY <1>1, <1>2, OrderTail
  <1>5. h \in 1..MaxIn
    BY <1>4, UpNumber
  <1>6. /\ p \in Seq(1..MaxIn) /\ Len(p) = Len(r) + 1 /\ p[Len(r) + 1] = h /\ Len(r) \in Nat
        /\ \A i \in 1..Len(r) : p[i] = r[i]
    BY <1>3, <1>5, AppendProperties
  <1>7. \A i \in 1..Len(p) : i = Len(r) + 1 \/ i \in 1..Len(r)
    BY <1>6
  <1>8. \A i, j \in 1..Len(c) : i < j /\ c[j] # Partial => c[i].n < c[j].n
    <2>1. SUFFICES ASSUME NEW i \in 1..Len(c), NEW j \in 1..Len(c), i < j, c[j] # Partial
                   PROVE  c[i].n < c[j].n
      OBVIOUS
    <2>2. i + 1 \in 1..Len(u) /\ j + 1 \in 1..Len(u) /\ c[i] = u[i + 1] /\ c[j] = u[j + 1] /\ i + 1 < j + 1
      <3>1. i + 1 < j + 1
        BY <2>1
      <3>. QED  BY <1>4, <3>1
    <2>. QED  BY <2>1, <2>2 DEF InOrder
  <1>9. \A i \in 1..Len(r), j \in 1..Len(c) : c[j] # Partial => r[i] < c[j].n
    BY <1>4 DEF InOrder
  <1>10. \A j \in 1..Len(c) : c[j] # Partial => h < c[j].n
    <2>1. SUFFICES ASSUME NEW j \in 1..Len(c), c[j] # Partial PROVE h < c[j].n
      OBVIOUS
    <2>2. j + 1 \in 1..Len(u) /\ c[j] = u[j + 1] /\ 1 < j + 1
      <3>1. j \in Nat \ {0} /\ j \in 1..Len(c)
        BY <1>4
      <3>2. 1 < j + 1
        BY <3>1
      <3>. QED  BY <1>4, <3>1, <3>2
    <2>. QED  BY <1>4, <2>1, <2>2 DEF InOrder
  <1>11. \A i \in 1..Len(c) : 2 * c[i].n <= t
    BY <1>4 DEF InOrder
  <1>12. InOrder(r, c, t)
    BY <1>8, <1>9, <1>11 DEF InOrder
  <1>13. InOrder(p, c, t)
    <2>1. \A i, j \in 1..Len(p) : i < j => p[i] < p[j]
      <3>1. SUFFICES ASSUME NEW i \in 1..Len(p), NEW j \in 1..Len(p), i < j PROVE p[i] < p[j]
        OBVIOUS
      <3>2. i \in 1..Len(r) /\ p[i] = r[i]
        <4>1. i <= Len(r)
          BY <1>6, <3>1
        <4>. QED  BY <1>6, <4>1
      <3>3. CASE j = Len(r) + 1
        <4>1. r[i] < u[1].n
          BY <1>4, <3>2 DEF InOrder
        <4>2. p[j] = u[1].n
          BY <1>4, <1>6, <3>3
        <4>. QED  BY <3>2, <4>1, <4>2
      <3>4. CASE j \in 1..Len(r)
        BY <1>6, <3>1, <3>2, <3>4 DEF InOrder
      <3>. QED  BY <1>7, <3>3, <3>4
    <2>2. \A i \in 1..Len(p), j \in 1..Len(c) : c[j] # Partial => p[i] < c[j].n
      BY <1>6, <1>7, <1>9, <1>10
    <2>3. \A i \in 1..Len(p) : 2 * p[i] <= t
      <3>1. 2 * h <= t
        BY <1>4 DEF InOrder
      <3>. QED  BY <1>6, <1>7, <3>1 DEF InOrder
    <2>. QED  BY <1>8, <1>11, <2>1, <2>2, <2>3 DEF InOrder
  <1>14. Numbers(p, c) = Numbers(r, u)
    <2>1. {p[i] : i \in 1..Len(p)} = {r[i] : i \in 1..Len(r)} \cup {h}
      <3>1. \A i \in 1..Len(r) : i \in 1..Len(p)
        BY <1>6
      <3>2. Len(r) + 1 \in 1..Len(p)
        BY <1>6
      <3>. QED  BY <1>6, <1>7, <3>1, <3>2
    <2>2. {u[i].n : i \in 1..Len(u)} = {c[i].n : i \in 1..Len(c)} \cup {h}
      <3>1. ASSUME NEW i \in 1..Len(u) PROVE u[i].n \in {c[k].n : k \in 1..Len(c)} \cup {h}
        <4>1. CASE i = 1
          BY <1>4, <4>1
        <4>2. CASE i # 1
          <5>1. i - 1 \in 1..Len(c) /\ (i - 1) + 1 = i
            BY <1>4, <4>2
          <5>2. c[i - 1] = u[i]
            BY <1>4, <5>1
          <5>. QED  BY <5>1, <5>2
        <4>. QED  BY <4>1, <4>2
      <3>2. ASSUME NEW i \in 1..Len(c) PROVE c[i].n \in {u[k].n : k \in 1..Len(u)}
        BY <1>4
      <3>3. h \in {u[k].n : k \in 1..Len(u)}
        BY <1>4
      <3>. QED  BY <3>1, <3>2, <3>3
    <2>. QED  BY <2>1, <2>2 DEF Numbers
  <1>15. ASSUME NEW m \in Nat, Below(r, u, m) PROVE Below(p, c, m) /\ Below(r, c, m)
    <2>1. \A i \in 1..Len(c) : c[i].n < m
      BY <1>4, <1>15 DEF Below
    <2>2. h < m
      BY <1>4, <1>15 DEF Below
    <2>3. \A i \in 1..Len(p) : p[i] < m
      BY <1>6, <1>7, <1>15, <2>2 DEF Below
    <2>. QED  BY <1>15, <2>1, <2>3 DEF Below
  <1>. QED  BY <1>1, <1>2, <1>3, <1>6, <1>12, <1>13, <1>14, <1>15

\* The domains that the account of the editor's messages rests on.
LEMMA InType ==
    ASSUME StreamType
    PROVE  /\ received \in Seq(1..MaxIn) /\ up \in Seq(UpLink) /\ MaxIn \in Nat
           /\ typed \in 0..MaxIn /\ message \in 0..typed /\ reading \in 0..typed /\ in_seq \in Nat \ {0}
           /\ Taken \in Nat /\ Taken <= 2 * typed
           /\ Alive <=> proxy # "gone"
  <1>1. /\ received \in Seq(1..MaxIn) /\ up \in Seq(UpLink) /\ MaxIn \in Nat
        /\ typed \in 0..MaxIn /\ message \in 0..typed /\ reading \in 0..typed /\ in_seq \in Nat \ {0}
        /\ Alive <=> proxy # "gone"
    BY DEF StreamType, TypeOK, ChannelsOK, Alive
  <1>2. pipe \in Seq(Pieces) /\ 0 <= Taken
    BY DEF StreamType, PipeOK
  <1>3. Len(pipe) \in Nat /\ typed \in Nat
    BY <1>1, <1>2
  <1>4. Taken \in Nat /\ Taken <= 2 * typed
    <2>1. Taken = 2 * typed - (IF editor = "header" THEN 1 ELSE 0) - Len(pipe)
      BY DEF Taken
    <2>. QED  BY ONLY <1>2, <1>3, <2>1
  <1>. QED  BY <1>1, <1>4

\* The editor has typed nothing at first.
LEMMA InitInbound == Init => InboundInv
  <1> SUFFICES ASSUME Init PROVE InboundInv
    OBVIOUS
  <1>0. /\ received = <<>> /\ up = <<>> /\ message = 0 /\ in_seq = 1 /\ typed = 0 /\ lease = "held"
        /\ editor = "idle" /\ pipe = <<>>
    BY DEF Init
  <1>1. Taken = 0
    <2>1. Len(pipe) = 0
      BY <1>0
    <2>2. Taken = 2 * 0 - 0 - 0
      BY <1>0, <2>1 DEF Taken
    <2>3. 2 * 0 - 0 - 0 = 0
      OBVIOUS
    <2>. QED  BY ONLY <2>2, <2>3
  <1>2. InOrder(<<>>, <<>>, 0) /\ CutLast(<<>>) /\ Cutoff(<<>>) = 0 /\ Numbers(<<>>, <<>>) = {}
    BY DEF InOrder, CutLast, Cutoff, Numbers
  <1>3. Forwarded = {}
    BY <1>0 DEF Forwarded
  <1>. QED  BY <1>0, <1>1, <1>2, <1>3 DEF InboundInv

\* Steps that pass no message on.
LEMMA InFrame ==
    ASSUME StreamType, InboundInv, StreamType', UNCHANGED <<received, up, message, in_seq>>,
           Taken' = Taken \/ Taken' = Taken + 1, proxy' # "gone" => proxy # "gone",
           session' = "up" => session = "up",
           ~torn' /\ proxy' # "gone" => ~torn /\ Forwarded' = Forwarded,
           lease' = "released" => conn' = "closed" /\ proxy' = "gone" /\ up = <<>>
    PROVE  InboundInv'
  <1>1. Alive' => Alive
    BY InType DEF Alive
  <1>2. InOrder(received', up', Taken') /\ 2 * message' <= Taken'
    <2>1. Taken \in Nat /\ message \in Nat
      BY InType
    <2>2. PICK t : t = Taken'
      OBVIOUS
    <2>3. t \in Int /\ Taken <= t
      BY <2>1, <2>2
    <2>4. InOrder(received, up, t)
      BY <2>1, <2>3, InType, OrderLater DEF InboundInv
    <2>5. 2 * message <= t
      BY <2>1, <2>3 DEF InboundInv
    <2>. QED  BY <2>2, <2>4, <2>5
  <1>3. Alive' /\ message' # 0 => Below(received', up', message')
    BY <1>1 DEF InboundInv
  <1>4. session' = "up" /\ Alive' /\ ~torn' => (Numbers(received', up') \cup {message'}) \ {0} = Forwarded'
    <2>1. Alive' => proxy' # "gone"
      BY DEF Alive
    <2>. QED  BY <1>1, <2>1 DEF InboundInv
  <1>5. /\ session' = "up" => in_seq' - 1 = Len(received') + Len(up') - Cutoff(up')
        /\ CutLast(up')
        /\ Alive' => \A i \in 1..Len(up') : up'[i] # Partial
        /\ lease' = "released" => conn' = "closed" /\ proxy' = "gone" /\ up' = <<>>
    BY <1>1 DEF InboundInv
  <1>. QED  BY <1>2, <1>3, <1>4, <1>5 DEF InboundInv, InOrder, Below, Numbers, CutLast, Cutoff

\* ReadFrame takes the first frame off the socket.
LEMMA InRead ==
    ASSUME StreamType, InboundInv, ReadFrame
    PROVE  InboundInv'
  <1>1. /\ up # <<>> /\ Head(up) # Partial /\ up' = Tail(up) /\ conn = "open"
        /\ UNCHANGED <<session, lease, conn, proxy, message, in_seq, typed, editor, pipe, kind, torn>>
        /\ received' = IF session = "up" THEN Append(received, Head(up).n) ELSE received
    BY DEF ReadFrame, stdioVars
  <1>2. Taken' = Taken /\ Forwarded' = Forwarded /\ (Alive' <=> Alive)
    BY <1>1 DEF Taken, Forwarded, Alive
  <1>3. /\ InOrder(received, up, Taken) /\ CutLast(up) /\ received \in Seq(1..MaxIn) /\ up \in Seq(UpLink)
        /\ Taken \in Int /\ message \in Nat
    BY InType DEF InboundInv
  <1>4. /\ InOrder(Append(received, Head(up).n), Tail(up), Taken) /\ InOrder(received, Tail(up), Taken)
        /\ Numbers(Append(received, Head(up).n), Tail(up)) = Numbers(received, up)
        /\ Len(Append(received, Head(up).n)) = Len(received) + 1
        /\ Below(received, up, message) =>
              Below(Append(received, Head(up).n), Tail(up), message) /\ Below(received, Tail(up), message)
    BY <1>1, <1>3, OrderRead
  <1>5. /\ Len(Tail(up)) = Len(up) - 1 /\ Len(up) \in Nat \ {0}
        /\ \A i \in 1..Len(Tail(up)) : Tail(up)[i] = up[i + 1] /\ i + 1 \in 1..Len(up)
        /\ CutLast(Tail(up)) /\ Cutoff(Tail(up)) = Cutoff(up)
    BY <1>1, <1>3, OrderTail
  <1>6. InOrder(received', up', Taken')
    BY <1>1, <1>2, <1>4
  <1>7. Alive' /\ message' # 0 => Below(received', up', message')
    BY <1>1, <1>2, <1>4 DEF InboundInv
  <1>8. session' = "up" /\ Alive' /\ ~torn' => (Numbers(received', up') \cup {message'}) \ {0} = Forwarded'
    BY <1>1, <1>2, <1>4 DEF InboundInv
  <1>9. session' = "up" => in_seq' - 1 = Len(received') + Len(up') - Cutoff(up')
    <2>1. SUFFICES ASSUME session = "up" PROVE in_seq - 1 = Len(received') + Len(up') - Cutoff(up')
      BY <1>1
    <2>2. in_seq - 1 = Len(received) + Len(up) - Cutoff(up) /\ Len(received) \in Nat /\ Cutoff(up) \in {0, 1}
      BY <1>3, <2>1 DEF InboundInv, Cutoff
    <2>3. Len(received') = Len(received) + 1 /\ Len(up') = Len(up) - 1 /\ Cutoff(up') = Cutoff(up)
      BY <1>1, <1>4, <1>5, <2>1
    <2>. QED  BY ONLY <1>5, <2>2, <2>3
  <1>10. CutLast(up') /\ (Alive' => \A i \in 1..Len(up') : up'[i] # Partial)
    BY <1>1, <1>2, <1>5 DEF InboundInv
  <1>11. lease' # "released" /\ 2 * message' <= Taken'
    BY <1>1, <1>2 DEF InboundInv
  <1>. QED  BY <1>6, <1>7, <1>8, <1>9, <1>10, <1>11
            DEF InboundInv, InOrder, Below, Numbers, CutLast, Cutoff

\* WriteMessage puts the message in hand on the socket.
LEMMA InPass ==
    ASSUME StreamType, InboundInv, WriteMessage
    PROVE  InboundInv'
  <1>1. /\ proxy = "writing" /\ proxy' = "running" /\ message' = 0 /\ in_seq' = in_seq + 1
        /\ up' = Append(up, LspIn(in_seq, message))
        /\ UNCHANGED <<received, session, lease, conn, typed, editor, pipe, kind, torn>>
    BY DEF WriteMessage, serverVars
  <1>2. Taken' = Taken /\ Forwarded' = Forwarded /\ Alive /\ Alive'
    BY <1>1 DEF Taken, Forwarded, Alive
  <1>3. /\ received \in Seq(1..MaxIn) /\ up \in Seq(UpLink) /\ Taken \in Nat /\ message \in 1..MaxIn
        /\ in_seq \in Nat
    <2>1. message # 0
      BY <1>1 DEF StreamType, TypeOK
    <2>. QED  BY <2>1, InType
  <1>4. /\ InOrder(received, up, Taken) /\ Below(received, up, message) /\ 2 * message <= Taken
        /\ \A i \in 1..Len(up) : up[i] # Partial
    BY <1>2, <1>3 DEF InboundInv
  <1>5. /\ InOrder(received, up', Taken)
        /\ Numbers(received, up') = Numbers(received, up) \cup {message}
        /\ \A i \in 1..Len(up') : up'[i] # Partial
        /\ Len(up') = Len(up) + 1
    <2>1. Taken \in Int /\ up' = Append(up, LspIn(in_seq, message))
      BY <1>1, <1>3
    <2>. QED  BY ONLY <1>3, <1>4, <2>1, OrderPass
  <1>6. CutLast(up') /\ Cutoff(up') = 0 /\ Cutoff(up) = 0
    <2>1. ASSUME NEW u \in Seq(UpLink), \A i \in 1..Len(u) : u[i] # Partial PROVE CutLast(u) /\ Cutoff(u) = 0
      <3>1. u # <<>> => Len(u) \in 1..Len(u)
        OBVIOUS
      <3>. QED  BY <2>1, <3>1 DEF CutLast, Cutoff
    <2>2. up' \in Seq(UpLink)
      <3>1. LspIn(in_seq, message) \in UpLink
        BY <1>3 DEF LspIn, UpLink
      <3>. QED  BY <1>1, <1>3, <3>1, AppendProperties
    <2>. QED  BY <1>3, <1>4, <1>5, <2>1, <2>2
  <1>7. session' = "up" => in_seq' - 1 = Len(received') + Len(up') - Cutoff(up')
    <2>1. ASSUME session = "up" PROVE in_seq' - 1 = Len(received') + Len(up') - Cutoff(up')
      <3>1. in_seq - 1 = Len(received) + Len(up) - Cutoff(up) /\ Len(received) \in Nat /\ Len(up) \in Nat
        BY <1>3, <2>1 DEF InboundInv
      <3>2. in_seq' = in_seq + 1 /\ received' = received
        BY <1>1
      <3>. QED  BY ONLY <1>3, <1>5, <1>6, <3>1, <3>2
    <2>. QED  BY <1>1, <2>1
  <1>8. session' = "up" /\ Alive' /\ ~torn' => (Numbers(received', up') \cup {message'}) \ {0} = Forwarded'
    BY <1>1, <1>2, <1>3, <1>5 DEF InboundInv
  <1>9. lease' # "released"
    BY <1>1 DEF InboundInv
  <1>10. InOrder(received', up', Taken') /\ 2 * message' <= Taken'
    BY <1>1, <1>2, <1>3, <1>5
  <1>. QED  BY <1>1, <1>5, <1>6, <1>7, <1>8, <1>9, <1>10
            DEF InboundInv, InOrder, Below, Numbers, CutLast, Cutoff

\* The process is killed in the middle of a frame.
LEMMA InCut ==
    ASSUME StreamType, InboundInv, Kill, up' = Append(up, Partial)
    PROVE  InboundInv'
  <1>1. /\ proxy' = "gone" /\ Alive
        /\ UNCHANGED <<received, message, in_seq, session, lease, conn, typed, editor, pipe, kind, torn>>
    BY DEF Kill, Leave, serverVars, stdioVars
  <1>2. Taken' = Taken /\ ~Alive' /\ proxy # "gone"
    BY <1>1 DEF Taken, Alive
  <1>3. /\ received \in Seq(1..MaxIn) /\ up \in Seq(UpLink) /\ Taken \in Nat /\ in_seq \in Nat
        /\ InOrder(received, up, Taken) /\ \A i \in 1..Len(up) : up[i] # Partial
    BY <1>1, InType DEF InboundInv
  <1>4. /\ InOrder(received, up', Taken) /\ CutLast(up') /\ Cutoff(up') = 1 /\ Cutoff(up) = 0
        /\ Len(up') = Len(up) + 1
    BY <1>3, OrderCut
  <1>5. session' = "up" => in_seq' - 1 = Len(received') + Len(up') - Cutoff(up')
    <2>1. SUFFICES ASSUME session = "up" PROVE in_seq - 1 = Len(received) + Len(up') - Cutoff(up')
      BY <1>1
    <2>2. in_seq - 1 = Len(received) + Len(up) - Cutoff(up) /\ Len(received) \in Nat /\ Len(up) \in Nat
      BY <1>3, <2>1 DEF InboundInv
    <2>. QED  BY <1>3, <1>4, <2>2
  <1>6. lease' # "released" /\ 2 * message' <= Taken'
    BY <1>1, <1>2 DEF InboundInv
  <1>7. InOrder(received', up', Taken')
    BY <1>1, <1>2, <1>4
  <1>. QED  BY <1>1, <1>2, <1>4, <1>5, <1>6, <1>7
            DEF InboundInv, InOrder, Below, Numbers, CutLast, Cutoff

\* A forwarded message was read whole: it is the next one, and in hand.
LEMMA InTake ==
    ASSUME StreamType, InboundInv, ReadBody, Taken' = Taken + 1, StreamType'
    PROVE  InboundInv'
  <1>1. /\ proxy = "running" /\ reading # 0 /\ pipe # <<>>
        /\ UNCHANGED <<received, up, in_seq, session, lease, conn, typed, kind, torn>>
    BY DEF ReadBody, Leave, serverVars
  <1>2. Taken + 1 = 2 * reading /\ Taken \in Nat /\ reading \in 1..typed /\ typed \in Nat
    BY <1>1, PipeHead, InType
  <1>3. Forwarded' = IF kind[reading] = "forwarded" THEN Forwarded \cup {reading} ELSE Forwarded
    <2>1. \A n \in 1..typed : 2 * n <= Taken + 1 <=> 2 * n <= Taken \/ n = reading
      BY <1>2
    <2>2. Forwarded' = {n \in 1..typed : 2 * n <= Taken + 1 /\ kind[n] = "forwarded"}
      BY <1>1 DEF Forwarded
    <2>3. ~(2 * reading <= Taken)
      BY <1>2
    <2>. QED  BY <1>2, <2>1, <2>2, <2>3 DEF Forwarded
  <1>4. lease # "released" /\ Alive
    BY <1>1 DEF InboundInv, Alive
  <1>5. CASE kind[reading] # "forwarded"
    <2>1. message' = message
      BY <1>5 DEF ReadBody
    <2>. QED  BY <1>1, <1>3, <1>4, <1>5, <2>1, InFrame
  <1>6. CASE kind[reading] = "forwarded"
    <2>1. message' = reading /\ proxy' = "writing" /\ message = 0
      BY <1>1, <1>6 DEF ReadBody, StreamType, ChannelsOK
    <2>2. /\ received \in Seq(1..MaxIn) /\ up \in Seq(UpLink) /\ InOrder(received, up, Taken)
      BY InType DEF InboundInv
    <2>3. Below(received, up, reading)
      <3>1. ASSUME NEW i \in 1..Len(received) PROVE received[i] < reading
        <4>1. 2 * received[i] <= Taken
          BY <2>2 DEF InOrder
        <4>2. received[i] \in 1..MaxIn
          BY <2>2
        <4>. QED  BY <1>2, <4>1, <4>2
      <3>2. ASSUME NEW i \in 1..Len(up) PROVE up[i].n < reading
        <4>1. 2 * up[i].n <= Taken
          BY <2>2 DEF InOrder
        <4>2. up[i].n \in 0..MaxIn
          BY <2>2, UpNumber
        <4>. QED  BY <1>2, <4>1, <4>2
      <3>. QED  BY <3>1, <3>2 DEF Below
    <2>4. InOrder(received, up, Taken + 1)
      <3>1. Taken \in Int /\ Taken + 1 \in Int /\ Taken <= Taken + 1
        BY <1>2
      <3>. QED  BY <2>2, <3>1, OrderLater
    <2>5. InOrder(received', up', Taken') /\ 2 * message' <= Taken'
      BY <1>1, <1>2, <2>1, <2>4
    <2>6. session' = "up" /\ Alive' /\ ~torn' => (Numbers(received', up') \cup {message'}) \ {0} = Forwarded'
      <3>1. SUFFICES ASSUME session = "up", ~torn
                     PROVE  (Numbers(received, up) \cup {reading}) \ {0} = Forwarded \cup {reading}
        BY <1>1, <1>3, <1>6, <2>1
      <3>2. (Numbers(received, up) \cup {0}) \ {0} = Forwarded
        BY <1>4, <2>1, <3>1 DEF InboundInv
      <3>. QED  BY <1>2, <3>2
    <2>7. /\ session' = "up" => in_seq' - 1 = Len(received') + Len(up') - Cutoff(up')
          /\ CutLast(up') /\ \A i \in 1..Len(up') : up'[i] # Partial
      BY <1>1, <1>4 DEF InboundInv
    <2>8. Below(received', up', message')
      BY <1>1, <2>1, <2>3
    <2>. QED  BY <1>1, <1>4, <2>5, <2>6, <2>7, <2>8
              DEF InboundInv, InOrder, Below, Numbers, CutLast, Cutoff
  <1>. QED  BY <1>5, <1>6

\* Reading a header takes no message whole.
LEMMA InHeader ==
    ASSUME StreamType, InboundInv, ReadHeader \/ SkipBody, Taken' = Taken + 1, StreamType'
    PROVE  InboundInv'
  <1> USE DEF serverVars, outVars
  <1>1. /\ UNCHANGED <<received, up, in_seq, message, session, lease, conn, typed, kind, torn>>
        /\ proxy = "running"
    BY DEF ReadHeader, SkipBody, Leave
  <1>2. lease # "released"
    BY <1>1 DEF InboundInv
  <1>3. ASSUME ~torn', proxy' # "gone" PROVE ~torn /\ Forwarded' = Forwarded
    <2>1. ReadHeader /\ ~torn
      BY <1>1, <1>3 DEF SkipBody
    <2>2. pipe # <<>> /\ Head(pipe)[1] = "header"
      BY <2>1 DEF ReadHeader
    <2>3. Taken + 1 = 2 * Head(pipe)[2] - 1 /\ Head(pipe)[2] \in 1..typed /\ Taken \in Nat /\ typed \in Nat
      BY <2>2, PipeHead, InType
    <2>4. \A n \in 1..typed : 2 * n <= Taken + 1 <=> 2 * n <= Taken
      BY <2>3
    <2>5. Forwarded' = {n \in 1..typed : 2 * n <= Taken + 1 /\ kind[n] = "forwarded"}
      BY <1>1 DEF Forwarded
    <2>. QED  BY <2>1, <2>4, <2>5 DEF Forwarded
  <1>. QED  BY <1>1, <1>2, <1>3, InFrame

\* What the editor writes has not been read yet.
LEMMA InEditor ==
    ASSUME StreamType, InboundInv, Editor, StreamType'
    PROVE  InboundInv'
  <1> USE DEF serverVars, outVars
  <1>1. UNCHANGED <<received, up, in_seq, message, session, lease, conn, proxy, kind, torn>>
    BY DEF Editor, TypeHeader, TypeBody, CloseEditor
  <1>2. typed \in Nat /\ Taken \in Nat /\ Taken <= 2 * typed /\ pipe \in Seq(Pieces) /\ Len(pipe) \in Nat
        /\ typed' \in Nat
    <2>1. typed' \in 0..MaxIn /\ pipe \in Seq(Pieces)
      BY DEF StreamType, PipeOK, TypeOK
    <2>. QED  BY <2>1, InType
  <1>3. /\ typed' \in {typed, typed + 1}
        /\ Taken' = Taken
    <2>0. /\ Taken = 2 * typed - (IF editor = "header" THEN 1 ELSE 0) - Len(pipe)
          /\ Taken' = 2 * typed' - (IF editor' = "header" THEN 1 ELSE 0) - Len(pipe')
      BY DEF Taken
    <2>1. CASE TypeHeader
      <3>1. pipe' = Append(pipe, Header(typed + 1)) /\ typed' = typed + 1 /\ editor = "idle" /\ editor' = "header"
        BY <2>1 DEF TypeHeader
      <3>2. Len(pipe') = Len(pipe) + 1
        BY <1>2, <3>1
      <3>3. Taken' = 2 * (typed + 1) - 1 - (Len(pipe) + 1) /\ Taken = 2 * typed - 0 - Len(pipe)
        BY <2>0, <3>1, <3>2
      <3>. QED  BY ONLY <1>2, <3>1, <3>3
    <2>2. CASE TypeBody
      <3>1. pipe' = Append(pipe, Body(typed)) /\ typed' = typed /\ editor = "header" /\ editor' = "idle"
        BY <2>2 DEF TypeBody
      <3>2. Len(pipe') = Len(pipe) + 1
        BY <1>2, <3>1
      <3>3. Taken' = 2 * typed - 0 - (Len(pipe) + 1) /\ Taken = 2 * typed - 1 - Len(pipe)
        BY <2>0, <3>1, <3>2
      <3>. QED  BY ONLY <1>2, <3>1, <3>3
    <2>3. CASE CloseEditor
      <3>1. pipe' = pipe /\ typed' = typed /\ editor = "idle" /\ editor' = "closed"
        BY <2>3 DEF CloseEditor
      <3>. QED  BY <2>0, <3>1
    <2>. QED  BY <2>1, <2>2, <2>3 DEF Editor
  <1>4. Forwarded' = Forwarded
    <2>1. Forwarded' = {n \in 1..typed' : 2 * n <= Taken /\ kind[n] = "forwarded"}
      BY <1>1, <1>3 DEF Forwarded
    <2>2. \A n \in 1..typed' : 2 * n <= Taken => n \in 1..typed
      BY <1>2, <1>3
    <2>3. \A n \in 1..typed : n \in 1..typed'
      BY <1>2, <1>3
    <2>. QED  BY <2>1, <2>2, <2>3 DEF Forwarded
  <1>5. lease' = "released" => conn' = "closed" /\ proxy' = "gone" /\ up = <<>>
    BY <1>1 DEF InboundInv
  <1>. QED  BY <1>1, <1>3, <1>4, <1>5, InFrame

\* Everything else takes nothing from the editor and passes nothing on.
LEMMA StepInbound == StreamType /\ InboundInv /\ [Next]_vars => InboundInv'
  <1> SUFFICES ASSUME StreamType, InboundInv, [Next]_vars PROVE InboundInv'
    OBVIOUS
  <1>0. StreamType' /\ LagInv'
    BY StepType, StepLag DEF StreamType
  <1>1. CASE ReadFrame
    BY <1>1, InRead
  <1>2. CASE WriteMessage
    BY <1>2, InPass
  <1>3. CASE ReadHeader \/ SkipBody \/ ReadBody
    <2>1. Taken' = Taken + 1
      BY <1>0, <1>3, TypeRead
    <2>. QED  BY <1>0, <1>3, <2>1, InHeader, InTake
  <1>4. CASE Editor
    BY <1>0, <1>4, InEditor
  <1>5. CASE Kill
    <2>1. CASE up' = Append(up, Partial)
      BY <1>5, <2>1, InCut
    <2>2. CASE up' = up
      <3>1. /\ proxy' = "gone" /\ Alive
            /\ UNCHANGED <<received, message, in_seq, session, lease, conn, typed, editor, pipe, kind, torn>>
        BY <1>5 DEF Kill, Leave, serverVars, stdioVars
      <3>2. Taken' = Taken /\ lease # "released" /\ proxy # "gone"
        BY <3>1 DEF Taken, InboundInv, Alive
      <3>. QED  BY <1>0, <2>2, <3>1, <3>2, InFrame
    <2>. QED  BY <1>5, <2>1, <2>2 DEF Kill
  <1>6. CASE ShowFrame \/ End \/ Connect
    <2>1. /\ UNCHANGED <<received, up, message, in_seq, session, lease, typed, editor, pipe, kind>>
          /\ proxy \in {"attached", "running", "writing"}
      BY <1>6 DEF ShowFrame, End, Connect, Leave, serverVars, stdioVars
    <2>2. ~torn' => ~torn
      <3>1. CASE ShowFrame
        BY <3>1 DEF ShowFrame
      <3>2. CASE End \/ Connect
        BY <3>2 DEF End, Connect, stdioVars
      <3>. QED  BY <1>6, <3>1, <3>2
    <2>3. Taken' = Taken /\ Forwarded' = Forwarded /\ lease # "released" /\ proxy # "gone"
      BY <2>1 DEF Taken, Forwarded, InboundInv
    <2>. QED  BY <1>0, <2>1, <2>2, <2>3, InFrame
  <1>7. CASE Server \/ RemoveSession \/ Accept \/ ReceiveOut \/ QueueOut \/ QueueNotice \/ WriteFrame
             \/ FailReading \/ EndOfInput \/ CloseFailed \/ UNCHANGED vars
    <2>1. /\ UNCHANGED <<received, up, message, in_seq, typed, editor, pipe, kind, torn, proxy>>
          /\ session' = "up" => session = "up"
          /\ \/ lease' = "released" => lease = "released" /\ conn' = conn
             \/ conn = "open" /\ lease' = lease
             \/ conn = "failed" /\ lease' = lease
             \/ conn = "connecting" /\ lease' = lease
             \/ conn' = "closed" /\ proxy = "gone" /\ up = <<>>
      <3> USE DEF serverVars, outVars, stdioVars
      <3>1. CASE Server \/ RemoveSession
        BY <3>1 DEF Server, Publish, Fail, EvictForMemory, RemoveSession
      <3>2. CASE Accept \/ ReceiveOut \/ QueueOut
        BY <3>2 DEF Accept, ReceiveOut, QueueOut
      <3>3. CASE QueueNotice \/ WriteFrame \/ FailReading
        BY <3>3 DEF QueueNotice, WriteFrame, FailReading
      <3>4. CASE EndOfInput
        BY <3>4 DEF EndOfInput
      <3>5. CASE CloseFailed \/ UNCHANGED vars
        BY <3>5 DEF CloseFailed, vars
      <3>. QED  BY <1>7, <3>1, <3>2, <3>3, <3>4, <3>5
    <2>2. Taken' = Taken /\ Forwarded' = Forwarded
      BY <2>1 DEF Taken, Forwarded
    <2>3. lease' = "released" => conn' = "closed" /\ proxy' = "gone" /\ up = <<>>
      BY <2>1 DEF InboundInv
    <2>. QED  BY <1>0, <2>1, <2>2, <2>3, InFrame
  <1>. QED  BY <1>1, <1>2, <1>3, <1>4, <1>5, <1>6, <1>7 DEF Next, Bridge, Proxy

\* A message is unread exactly when its last piece was not taken yet.
LEMMA UnreadIs ==
    ASSUME StreamType, NEW n \in 1..typed
    PROVE  n \in Unread <=> 2 * n > Taken
  <1>1. pipe \in Seq(Pieces) /\ typed \in Nat /\ Len(pipe) \in Nat /\ Taken \in Nat /\ reading \in Nat
        /\ n \in Nat /\ DOMAIN pipe = 1..Len(pipe)
    BY InType DEF StreamType, PipeOK
  <1>2. ASSUME NEW i \in 1..Len(pipe)
        PROVE  /\ pipe[i][2] \in Nat
               /\ pipe[i][1] = "header" \/ pipe[i][1] = "body"
               /\ pipe[i][1] = "header" => Taken + i = 2 * pipe[i][2] - 1
               /\ pipe[i][1] = "body" => Taken + i = 2 * pipe[i][2]
    <2>1. pipe[i] \in Pieces
      BY <1>1
    <2>2. pipe[i][2] \in Nat /\ (pipe[i][1] = "header" \/ pipe[i][1] = "body")
      BY <2>1 DEF Pieces
    <2>. QED  BY <2>2 DEF StreamType, PipeOK
  <1>3. reading # 0 => Taken = 2 * reading - 1
    BY DEF StreamType, PipeOK
  <1>4. Taken + Len(pipe) = IF editor = "header" THEN 2 * typed - 1 ELSE 2 * typed
    <2>1. Taken = 2 * typed - (IF editor = "header" THEN 1 ELSE 0) - Len(pipe)
      BY DEF Taken
    <2>. QED  BY ONLY <1>1, <2>1
  <1>5. ASSUME n \in Unread PROVE 2 * n > Taken
    <2>1. CASE \E i \in 1..Len(pipe) : n = pipe[i][2]
      <3>1. PICK i \in 1..Len(pipe) : n = pipe[i][2]
        BY <2>1
      <3>2. Taken + i = 2 * n - 1 \/ Taken + i = 2 * n
        BY <1>2, <3>1
      <3>. QED  BY <1>1, <3>1, <3>2
    <2>2. CASE n = reading
      BY <1>1, <1>3, <2>2
    <2>3. CASE editor = "header" /\ n = typed
      BY <1>1, <1>4, <2>3
    <2>. QED  BY <1>1, <1>5, <2>1, <2>2, <2>3 DEF Unread
  <1>6. ASSUME 2 * n > Taken PROVE n \in Unread
    <2>1. CASE 2 * n <= Taken + Len(pipe)
      <3>1. 2 * n - Taken \in 1..Len(pipe) /\ Taken + (2 * n - Taken) = 2 * n
        BY <1>1, <1>6, <2>1
      <3>2. PICK i \in 1..Len(pipe) : Taken + i = 2 * n
        BY <3>1
      <3>3. pipe[i][2] = n
        <4>1. pipe[i][1] = "header" => 2 * n = 2 * pipe[i][2] - 1
          BY <1>2, <3>2
        <4>2. pipe[i][1] = "body" => 2 * n = 2 * pipe[i][2]
          BY <1>2, <3>2
        <4>. QED  BY <1>1, <1>2, <4>1, <4>2
      <3>. QED  BY <1>1, <3>3 DEF Unread
    <2>2. CASE ~(2 * n <= Taken + Len(pipe))
      <3>1. editor = "header" /\ n = typed
        BY <1>1, <1>4, <2>2
      <3>. QED  BY <3>1 DEF Unread
    <2>. QED  BY <2>1, <2>2
  <1>. QED  BY <1>5, <1>6

\* Whatever the capacities and however the proxy, the daemon and the session end: until a frame
\* of the daemon interrupts the reading of a message, the server gets each forwarded message of
\* the editor once and in order, and the lease comes back after the last one
\* (handle_editor_message, run_stream_connection).
THEOREM EditorMessagesExact == Spec => []InboundExact
  <1>1. ASSUME StreamType, InboundInv PROVE InboundExact
    <2>1. /\ received \in Seq(1..MaxIn) /\ up \in Seq(UpLink) /\ DOMAIN received = 1..Len(received)
          /\ DOMAIN up = 1..Len(up) /\ typed \in Nat /\ Taken \in Nat
          /\ Len(received) \in Nat /\ Len(up) \in Nat
      BY <1>1, InType
    <2>2. \A i, j \in DOMAIN received : i < j => received[i] < received[j]
      BY <1>1, <2>1 DEF InboundInv, InOrder
    <2>3. ASSUME session = "up", Alive, ~torn
          PROVE  /\ InHand \ {0} = {n \in 1..typed \ Unread : kind[n] = "forwarded"}
                 /\ in_seq - 1 = Len(received) + Len(up)
      <3>1. InHand = Numbers(received, up) \cup {message}
        BY <2>1 DEF InHand, Numbers
      <3>2. InHand \ {0} = Forwarded
        BY <1>1, <2>3, <3>1 DEF InboundInv
      <3>3. \A n \in 1..typed : n \in Unread <=> ~(2 * n <= Taken)
        <4>1. SUFFICES ASSUME NEW n \in 1..typed PROVE n \in Unread <=> ~(2 * n <= Taken)
          OBVIOUS
        <4>2. n \in Unread <=> 2 * n > Taken
          BY <1>1, UnreadIs
        <4>. QED  BY <2>1, <4>2
      <3>4. Forwarded = {n \in 1..typed \ Unread : kind[n] = "forwarded"}
        BY <3>3 DEF Forwarded
      <3>5. in_seq - 1 = Len(received) + Len(up) - Cutoff(up) /\ \A i \in 1..Len(up) : up[i] # Partial
        BY <1>1, <2>3 DEF InboundInv
      <3>6. Cutoff(up) = 0
        <4>1. up # <<>> => Len(up) \in 1..Len(up)
          BY <2>1
        <4>. QED  BY <3>5, <4>1 DEF Cutoff
      <3>. QED  BY <2>1, <3>2, <3>4, <3>5, <3>6
    <2>4. ASSUME lease = "released", session = "up" PROVE Len(received) = in_seq - 1
      <3>1. up = <<>> /\ in_seq - 1 = Len(received) + Len(up) - Cutoff(up)
        BY <1>1, <2>4 DEF InboundInv
      <3>2. Len(up) = 0 /\ Cutoff(up) = 0
        BY <3>1 DEF Cutoff
      <3>. QED  BY <2>1, <3>1, <3>2
    <2>. QED  BY <2>2, <2>3, <2>4 DEF InboundExact
  <1>. QED  BY <1>1, InitType, StepType, InitInbound, StepInbound, PTL DEF Spec

================================================================================
