------------------------- MODULE HttpSessionProofs -------------------------
(***************************************************************************)
(* Proofs about HttpSession for every queue limit and any number of        *)
(* requests.  The inductive invariant says how the read loop and the       *)
(* write loop share the response queue: a read is outstanding only while   *)
(* the queue has room, the write in progress is the front of the queue,    *)
(* and the queue holds consecutive requests that follow those answered.    *)
(* The last sections show which requests it takes for a stream to be       *)
(* handed over under a write and for a session to stop reading, and where  *)
(* each request that was read is until it has been answered.               *)
(***************************************************************************)
EXTENDS HttpSession, QueueFacts

\* The number of the last request that was queued.
LastQueued ==
  IF queue = <<>> THEN Len(answered) ELSE queue[1].req + Len(queue) - 1

WriteLoop ==
  /\ Len(writes) <= 1
  /\ writes # <<>> =>
       /\ queue # <<>>
       /\ writes[1].req = queue[1].req
       /\ queue[1].req = Len(answered) + 1
  /\ \A i \in 1..Len(queue) : queue[i].req = queue[1].req + i - 1
  /\ \A i \in 1..Len(answered) : answered[i] = i

ReadLoop ==
  /\ headerReads + Len(bodies) <= 1
  /\ headerReads + Len(bodies) = 1 => Len(queue) < QueueLimit
  /\ Len(queue) <= QueueLimit
  /\ headerReads = 1 \/ Len(queue) = QueueLimit => next = LastQueued
  /\ bodies # <<>> => bodies[1].req = LastQueued + 1 /\ next = LastQueued + 1

\* Before a session serves nothing is outstanding, and none of its reads
\* survive a hand-over.
Stages ==
  /\ stage \in {"accepted", "detect", "handshake"} =>
       /\ headerReads = 0
       /\ bodies = <<>>
       /\ queue = <<>>
       /\ writes = <<>>
       /\ next = 0
       /\ answered = <<>>
  /\ stage = "released" =>
       /\ headerReads = 0
       /\ bodies = <<>>
       /\ Len(queue) < QueueLimit

Inv == TypeOK /\ WriteLoop /\ ReadLoop /\ Stages

Write == [req : Nat, keep : BOOLEAN, late : BOOLEAN]

-----------------------------------------------------------------------------

\* The parts of the type invariant that the loops need.
LEMMA Typed ==
  ASSUME TypeOK
  PROVE  /\ headerReads \in Nat /\ next \in Nat
         /\ bodies \in Seq(Message) /\ queue \in Seq(Message)
         /\ writes \in Seq(Write) /\ answered \in Seq(Nat)
         /\ Len(bodies) \in Nat /\ Len(queue) \in Nat
         /\ Len(writes) \in Nat /\ Len(answered) \in Nat
<1>1. /\ headerReads \in Nat /\ next \in Nat
      /\ bodies \in Seq(Message) /\ queue \in Seq(Message)
      /\ writes \in Seq(Write) /\ answered \in Seq(Nat)
  BY DEF TypeOK, Write
<1> QED
  BY <1>1

\* A queue is empty exactly when its length is zero.
LEMMA EmptyLen ==
  ASSUME NEW S, NEW s \in Seq(S)
  PROVE  s = <<>> <=> Len(s) = 0
OBVIOUS

\* do_eof keeps its variables typed.
LEMMA EofTyped ==
  ASSUME TypeOK, do_eof
  PROVE  sendShut' \in BOOLEAN /\ shutdowns' \in Nat
<1>1. sendShut' \in BOOLEAN
  BY DEF do_eof, do_eof_plain, do_eof_ssl
<1>2. shutdowns \in Nat
  BY DEF TypeOK
<1>3. shutdowns' = shutdowns + 1 \/ shutdowns' = shutdowns
  BY DEF do_eof, do_eof_plain, do_eof_ssl
<1> QED
  BY <1>1, <1>2, <1>3

\* Starting to write the front of a queue of messages.
LEMMA DoWriteFacts ==
  ASSUME NEW q \in Seq(Message), NEW w \in Seq(Write), w = <<>>,
         sendShut \in BOOLEAN
  PROVE  /\ DoWrite(q, w) \in Seq(Write)
         /\ q = <<>> => DoWrite(q, w) = <<>>
         /\ q # <<>> => /\ Len(DoWrite(q, w)) = 1
                        /\ DoWrite(q, w)[1].req = q[1].req
<1>1. CASE q = <<>>
  BY <1>1 DEF DoWrite
<1>2. CASE q # <<>>
  <2> DEFINE l == sendShut \/ stage = "released"
             e == [req |-> Head(q).req, keep |-> Head(q).keep, late |-> l]
  <2>0. l \in BOOLEAN
    OBVIOUS
  <2>1. Head(q) \in Message /\ Head(q) = q[1]
    BY <1>2, TailTyped, TailAt
  <2>3. DoWrite(q, w) = Append(w, e)
    BY <1>2 DEF DoWrite
  <2> HIDE DEF l
  <2>2. e \in Write /\ e.req = q[1].req
    BY <2>0, <2>1 DEF Message, Write
  <2> HIDE DEF e
  <2>4. Len(w) = 0
    OBVIOUS
  <2>5. DoWrite(q, w) \in Seq(Write)
    BY <2>2, <2>3, AppendTyped
  <2>6. Len(DoWrite(q, w)) = 1 /\ DoWrite(q, w)[1] = e
    BY <2>2, <2>3, <2>4, AppendAt
  <2> QED
    BY <1>2, <2>2, <2>5, <2>6
<1> QED
  BY <1>1, <1>2

\* queue_write of the next request's response.
LEMMA PushFacts ==
  ASSUME TypeOK, WriteLoop,
         NEW r \in Message, r.req = LastQueued + 1,
         queue_write(r),
         UNCHANGED answered
  PROVE  /\ queue' \in Seq(Message) /\ writes' \in Seq(Write)
         /\ Len(queue') = Len(queue) + 1
         /\ LastQueued' = LastQueued + 1
         /\ WriteLoop'
<1>1. /\ queue \in Seq(Message) /\ writes \in Seq(Write)
      /\ Len(queue) \in Nat /\ Len(answered) \in Nat /\ sendShut \in BOOLEAN
  BY Typed DEF TypeOK
<1>2. queue' = Append(queue, r)
  BY DEF queue_write
<1>3. /\ queue' \in Seq(Message)
      /\ Len(queue') = Len(queue) + 1
      /\ \A i \in 1..Len(queue) : queue'[i] = queue[i]
      /\ queue'[Len(queue) + 1] = r
  BY <1>1, <1>2, AppendTyped, AppendAt
<1>4. queue' # <<>>
  BY <1>1, <1>3, EmptyLen
<1>q. \A i \in 1..Len(queue') : queue'[i] \in Message
  BY <1>3
<1>5. CASE queue = <<>>
  <2>1. Len(queue) = 0 /\ writes = <<>>
    BY <1>5 DEF WriteLoop
  <2>2. writes' = DoWrite(queue', writes)
    BY <2>1 DEF queue_write
  <2>3. queue'[1] = r /\ Len(queue') = 1 /\ r.req = Len(answered) + 1
    BY <1>3, <1>5, <2>1 DEF LastQueued
  <2>4. writes' \in Seq(Write) /\ Len(writes') = 1 /\ writes'[1].req = r.req
    <3>1. /\ DoWrite(queue', writes) \in Seq(Write)
          /\ Len(DoWrite(queue', writes)) = 1
          /\ DoWrite(queue', writes)[1].req = queue'[1].req
      <4> DEFINE q == queue'
      <4>1. q \in Seq(Message) /\ q # <<>>
        BY <1>3, <1>4
      <4> HIDE DEF q
      <4>2. /\ DoWrite(q, writes) \in Seq(Write)
            /\ Len(DoWrite(q, writes)) = 1
            /\ DoWrite(q, writes)[1].req = q[1].req
        BY <1>1, <2>1, <4>1, DoWriteFacts
      <4> QED
        BY <4>2 DEF q
    <3> QED
      BY <2>2, <2>3, <3>1
  <2>5. LastQueued' = LastQueued + 1
    BY <1>1, <1>4, <2>3 DEF LastQueued
  <2>6. WriteLoop'
    BY <1>1, <1>4, <2>3, <2>4 DEF WriteLoop
  <2> QED
    BY <1>3, <2>4, <2>5, <2>6
<1>6. CASE queue # <<>>
  <2>1. Len(queue) >= 1 /\ writes' = writes
    BY <1>1, <1>6, EmptyLen DEF queue_write
  <2>2. /\ queue'[1] = queue[1] /\ queue[1].req \in Nat
        /\ r.req = queue[1].req + Len(queue)
    BY <1>1, <1>3, <1>6, <1>q, <2>1 DEF LastQueued, Message
  <2>3. LastQueued' = LastQueued + 1
    BY <1>1, <1>3, <1>4, <1>6, <2>2 DEF LastQueued
  <2>4. \A i \in 1..Len(queue') : queue'[i].req = queue'[1].req + i - 1
    <3>1. \A i \in 1..Len(queue) : queue'[i].req = queue'[1].req + i - 1
      BY <1>3, <2>2 DEF WriteLoop
    <3>2. queue'[Len(queue) + 1].req = queue'[1].req + (Len(queue) + 1) - 1
      BY <1>1, <1>3, <2>2
    <3>3. \A i \in 1..Len(queue') : i \in 1..Len(queue) \/ i = Len(queue) + 1
      BY <1>1, <1>3
    <3> TAKE i \in 1..Len(queue')
    <3>4. CASE i \in 1..Len(queue)
      BY <3>1, <3>4
    <3>5. CASE i = Len(queue) + 1
      BY <3>2, <3>5
    <3> QED
      BY <3>3, <3>4, <3>5
  <2>5. WriteLoop'
    BY <1>4, <2>1, <2>2, <2>4 DEF WriteLoop
  <2> QED
    BY <1>1, <1>3, <2>1, <2>3, <2>5
<1> QED
  BY <1>5, <1>6

PopAndWrite ==
  /\ queue' = Tail(queue)
  /\ writes' = DoWrite(queue', Tail(writes))

\* on_write with keep-alive: pop the response just sent, write the next one.
LEMMA PopFacts ==
  ASSUME TypeOK, WriteLoop, WriteSent, PopAndWrite
  PROVE  /\ queue' \in Seq(Message) /\ writes' \in Seq(Write)
         /\ answered' \in Seq(Nat)
         /\ Len(queue) >= 1
         /\ Len(queue') = Len(queue) - 1
         /\ LastQueued' = LastQueued
         /\ WriteLoop'
<1>1. /\ queue \in Seq(Message) /\ writes \in Seq(Write) /\ answered \in Seq(Nat)
      /\ Len(queue) \in Nat /\ Len(answered) \in Nat /\ Len(writes) \in Nat
      /\ sendShut \in BOOLEAN
  BY Typed DEF TypeOK
<1>2. writes # <<>> /\ answered' = Append(answered, Head(writes).req)
  BY DEF WriteSent
<1>3. /\ Len(writes) = 1 /\ Head(writes) = writes[1]
      /\ Tail(writes) \in Seq(Write) /\ Len(Tail(writes)) = 0
  <2>1. Len(writes) <= 1
    BY DEF WriteLoop
  <2>2. Tail(writes) \in Seq(Write)
    BY <1>1, <1>2, TailTyped
  <2>3. /\ Len(writes) >= 1 /\ Len(Tail(writes)) = Len(writes) - 1
        /\ Head(writes) = writes[1]
    BY <1>1, <1>2, TailAt
  <2> QED
    BY <1>1, <2>1, <2>2, <2>3
<1>4. Tail(writes) = <<>>
  BY <1>3, EmptyLen
<1>5. /\ queue # <<>> /\ writes[1].req = queue[1].req
      /\ queue[1].req = Len(answered) + 1
  BY <1>2 DEF WriteLoop
<1>6. /\ answered' \in Seq(Nat)
      /\ Len(answered') = Len(answered) + 1
      /\ \A i \in 1..Len(answered) : answered'[i] = answered[i]
      /\ answered'[Len(answered) + 1] = Len(answered) + 1
  <2>1. Head(writes).req = Len(answered) + 1 /\ Len(answered) + 1 \in Nat
    BY <1>1, <1>3, <1>5
  <2> QED
    BY <1>1, <1>2, <2>1, AppendTyped, AppendAt
<1>7. \A i \in 1..Len(answered') : answered'[i] = i
  <2>1. \A i \in 1..Len(answered) : answered'[i] = i
    BY <1>6 DEF WriteLoop
  <2>2. \A i \in 1..Len(answered') :
          i \in 1..Len(answered) \/ i = Len(answered) + 1
    BY <1>1, <1>6
  <2> QED
    BY <1>6, <2>1, <2>2
<1>8. /\ queue' \in Seq(Message) /\ Len(queue) >= 1
      /\ Len(queue') = Len(queue) - 1
      /\ \A i \in 1..Len(queue') : queue'[i] = queue[i + 1]
  BY <1>1, <1>5, TailTyped, TailAt DEF PopAndWrite
<1>9. \A i \in 1..Len(queue') : queue'[i].req = Len(answered) + 1 + i
  <2>1. ASSUME NEW i \in 1..Len(queue')
        PROVE  queue'[i].req = Len(answered) + 1 + i
    <3>1. i + 1 \in 1..Len(queue) /\ i \in Int
      BY <1>1, <1>8
    <3>2. queue[i + 1].req = queue[1].req + (i + 1) - 1
      BY <3>1 DEF WriteLoop
    <3> QED
      BY <1>1, <1>5, <1>8, <3>1, <3>2
  <2> QED
    BY <2>1
<1>10. /\ DoWrite(queue', Tail(writes)) \in Seq(Write)
       /\ queue' = <<>> => DoWrite(queue', Tail(writes)) = <<>>
       /\ queue' # <<>> =>
            /\ Len(DoWrite(queue', Tail(writes))) = 1
            /\ DoWrite(queue', Tail(writes))[1].req = queue'[1].req
  <2> DEFINE q == queue'
             w == Tail(writes)
  <2>1. q \in Seq(Message) /\ w \in Seq(Write) /\ w = <<>>
    BY <1>3, <1>4, <1>8
  <2> HIDE DEF q, w
  <2>2. /\ DoWrite(q, w) \in Seq(Write)
        /\ q = <<>> => DoWrite(q, w) = <<>>
        /\ q # <<>> => Len(DoWrite(q, w)) = 1 /\ DoWrite(q, w)[1].req = q[1].req
    BY <1>1, <2>1, DoWriteFacts
  <2> QED
    BY <2>2 DEF q, w
<1>w. writes' = DoWrite(queue', Tail(writes))
  BY DEF PopAndWrite
<1>11. CASE queue' = <<>>
  <2>1. Len(queue') = 0 /\ Len(queue) = 1 /\ writes' = <<>>
    <3>1. Len(queue') = 0
      BY <1>8, <1>11, EmptyLen
    <3>2. writes' = <<>>
      BY <1>10, <1>11, <1>w
    <3> QED
      BY <1>1, <1>8, <3>1, <3>2
  <2>2. LastQueued' = LastQueued
    BY <1>1, <1>5, <1>6, <1>11, <2>1 DEF LastQueued
  <2>3. WriteLoop'
    BY <1>7, <1>11, <2>1 DEF WriteLoop
  <2> QED
    BY <1>6, <1>8, <1>10, <1>w, <2>2, <2>3
<1>12. CASE queue' # <<>>
  <2>1. Len(queue') >= 1
    BY <1>8, <1>12, EmptyLen
  <2>2. queue'[1].req = Len(answered) + 2
    <3>1. 1 \in 1..Len(queue')
      BY <1>1, <1>8, <2>1
    <3>2. queue'[1].req = Len(answered) + 1 + 1
      BY <1>9, <3>1
    <3> QED
      BY <1>1, <3>2
  <2>3. LastQueued' = LastQueued
    BY <1>1, <1>5, <1>8, <1>12, <2>2 DEF LastQueued
  <2>4. \A i \in 1..Len(queue') : queue'[i].req = queue'[1].req + i - 1
    BY <1>1, <1>9, <2>2
  <2>5. /\ Len(writes') = 1 /\ writes'[1].req = queue'[1].req
        /\ queue'[1].req = Len(answered') + 1
    <3>1. Len(writes') = 1 /\ writes'[1].req = queue'[1].req
      BY <1>10, <1>12, <1>w
    <3> QED
      BY <1>1, <1>6, <2>2, <3>1
  <2>6. WriteLoop'
    BY <1>7, <1>12, <2>4, <2>5 DEF WriteLoop
  <2> QED
    BY <1>6, <1>8, <1>10, <1>w, <2>3, <2>6
<1> QED
  BY <1>11, <1>12

-----------------------------------------------------------------------------
(* The invariant is inductive.                                             *)

\* A connection that was just accepted has nothing outstanding.
LEMMA InvInit == Init => Inv
<1> SUFFICES ASSUME Init PROVE Inv
  OBVIOUS
<1>1. /\ Len(bodies) = 0 /\ Len(queue) = 0 /\ Len(writes) = 0
      /\ Len(answered) = 0
  BY DEF Init
<1>2. TypeOK
  <2>1. /\ bodies \in Seq(Message) /\ queue \in Seq(Message)
        /\ writes \in Seq([req : Nat, keep : BOOLEAN, late : BOOLEAN])
        /\ answered \in Seq(Nat)
    BY DEF Init
  <2> QED
    BY <2>1 DEF Init, TypeOK
<1>3. WriteLoop /\ Stages
  BY <1>1 DEF Init, WriteLoop, Stages
<1>4. ReadLoop
  BY <1>1, QueueLimitPositive DEF Init, ReadLoop
<1> QED
  BY <1>2, <1>3, <1>4 DEF Inv

\* Steps that leave both loops alone.
LEMMA LoopsFrame ==
  ASSUME Inv, UNCHANGED <<headerReads, bodies, queue, writes, next, answered>>
  PROVE  WriteLoop' /\ ReadLoop'
BY DEF Inv, WriteLoop, ReadLoop, LastQueued

\* The start of a session, the end of an SSL shutdown, a lost connection and
\* the destructor.
LEMMA QuietStep ==
  ASSUME Inv,
         \/ OnRun \/ OnDetect \/ OnHandshake \/ StartFails \/ OnShutdown
         \/ OnMovedEngine \/ ConnectionLost \/ Destroy \/ Terminated \/ UNCHANGED vars
  PROVE  Inv'
<1>1. CASE OnDetect \/ OnHandshake
  <2>1. /\ headerReads = 0 /\ bodies = <<>> /\ queue = <<>> /\ writes = <<>>
        /\ next = 0 /\ answered = <<>>
    BY <1>1 DEF Inv, Stages, OnDetect, OnHandshake
  <2>2. /\ UNCHANGED <<bodies, queue, writes, next, answered>>
        /\ \/ headerReads' = 1 /\ stage' = "serving"
           \/ headerReads' = 0 /\ stage' = "handshake"
    BY <1>1, <2>1 DEF OnDetect, OnHandshake
  <2>3. TypeOK'
    <3>1. /\ secure' \in BOOLEAN
          /\ UNCHANGED <<shutdowns, sendShut, failed, dead>>
      BY <1>1 DEF Inv, TypeOK, OnDetect, OnHandshake
    <3>2. headerReads' \in Nat /\ stage' \in {"serving", "handshake"}
      BY <2>2
    <3> QED
      BY <2>2, <3>1, <3>2 DEF Inv, TypeOK
  <2>4. /\ Len(bodies') = 0 /\ Len(queue') = 0 /\ Len(writes') = 0
        /\ Len(answered') = 0
    BY <2>1, <2>2
  <2>5. WriteLoop' /\ Stages'
    BY <2>1, <2>2, <2>4 DEF WriteLoop, Stages
  <2>6. ReadLoop'
    BY <2>1, <2>2, <2>4, QueueLimitPositive DEF ReadLoop, LastQueued
  <2> QED
    BY <2>3, <2>5, <2>6 DEF Inv
<1>2. CASE ~(OnDetect \/ OnHandshake)
  <2>1. UNCHANGED <<headerReads, bodies, queue, writes, next, answered>>
    BY <1>2 DEF OnRun, StartFails, OnShutdown, OnMovedEngine, ConnectionLost,
       Destroy, Terminated, vars
  <2>2. WriteLoop' /\ ReadLoop'
    BY <2>1, LoopsFrame
  <2>3. TypeOK'
    <3>1. CASE OnRun \/ StartFails
      BY <3>1 DEF Inv, TypeOK, OnRun, StartFails
    <3>2. CASE OnShutdown \/ OnMovedEngine
      BY <3>2 DEF Inv, TypeOK, OnShutdown, OnMovedEngine
    <3>3. CASE ConnectionLost \/ Destroy
      BY <3>3 DEF Inv, TypeOK, ConnectionLost, Destroy
    <3>4. CASE Terminated \/ UNCHANGED vars
      BY <3>4 DEF Inv, TypeOK, Terminated, vars
    <3> QED
      BY <1>2, <3>1, <3>2, <3>3, <3>4
  <2>4. Stages'
    BY <1>2, <2>1 DEF Inv, Stages, OnRun, StartFails, OnShutdown,
       OnMovedEngine, ConnectionLost, Destroy, Terminated, vars
  <2> QED
    BY <2>2, <2>3, <2>4 DEF Inv
<1> QED
  BY <1>1, <1>2

\* A read ends without a request: end of stream or an error.
LEMMA ReadEndsStep ==
  ASSUME Inv, OnReadEof \/ OnReadError \/ OnBodyError
  PROVE  Inv'
<1>1. /\ headerReads \in Nat /\ Len(bodies) \in Nat /\ Len(queue) \in Nat
      /\ bodies \in Seq(Message)
  BY Typed DEF Inv
<1>2. /\ UNCHANGED <<stage, queue, writes, next, answered>>
      /\ stage \in {"serving", "released"}
  BY DEF OnReadEof, OnReadError, OnBodyError, Drives
<1>3. /\ headerReads' \in Nat /\ bodies' \in Seq(Message)
      /\ headerReads' + Len(bodies') = headerReads + Len(bodies) - 1
  <2>1. CASE OnReadEof \/ OnReadError
    BY <1>1, <2>1 DEF OnReadEof, OnReadError
  <2>2. CASE OnBodyError
    <3>1. /\ bodies # <<>> /\ bodies' = Tail(bodies) /\ headerReads' = headerReads
      BY <2>2 DEF OnBodyError
    <3> QED
      BY <1>1, <3>1, TailTyped, TailAt
  <2> QED
    BY <2>1, <2>2
<1>4. TypeOK'
  <2>1. sendShut' \in BOOLEAN /\ failed' \in BOOLEAN /\ shutdowns' \in Nat
    <3>1. CASE OnReadEof
      BY <3>1, EofTyped DEF Inv, TypeOK, OnReadEof
    <3>2. CASE OnReadError \/ OnBodyError
      BY <3>2 DEF Inv, TypeOK, OnReadError, OnBodyError
    <3> QED
      BY <3>1, <3>2
  <2>2. UNCHANGED <<secure, dead>>
    BY DEF OnReadEof, OnReadError, OnBodyError
  <2> QED
    BY <1>2, <1>3, <2>1, <2>2 DEF Inv, TypeOK
<1>5. WriteLoop' /\ LastQueued' = LastQueued
  BY <1>2 DEF Inv, WriteLoop, LastQueued
<1>6. headerReads' = 0 /\ Len(bodies') = 0
  <2>1. headerReads + Len(bodies) <= 1 /\ Len(bodies') \in Nat
    BY <1>3 DEF Inv, ReadLoop
  <2> QED
    BY <1>1, <1>3, <2>1
<1>7. bodies' = <<>>
  BY <1>3, <1>6, EmptyLen
<1>8. ReadLoop'
  BY <1>2, <1>5, <1>6, <1>7 DEF Inv, ReadLoop
<1>9. Stages'
  BY <1>2, <1>6, <1>7 DEF Inv, Stages
<1> QED
  BY <1>4, <1>5, <1>8, <1>9 DEF Inv

\* A request header has been read.
LEMMA RequestStep ==
  ASSUME Inv, NEW kind \in Kind, NEW keep \in BOOLEAN, OnRequest(kind, keep)
  PROVE  Inv'
<1>1. /\ headerReads \in Nat /\ Len(bodies) \in Nat /\ Len(queue) \in Nat
      /\ bodies \in Seq(Message) /\ queue \in Seq(Message) /\ next \in Nat
      /\ Len(answered) \in Nat
  BY Typed DEF Inv
<1>2. /\ stage = "serving" /\ headerReads > 0 /\ headerReads' = headerReads - 1
      /\ next' = next + 1 /\ UNCHANGED <<secure, failed, dead, answered>>
  BY DEF OnRequest
<1>3. headerReads = 1 /\ headerReads' = 0 /\ Len(bodies) = 0
  BY <1>1, <1>2 DEF Inv, ReadLoop
<1>4. bodies = <<>> /\ next = LastQueued /\ Len(queue) < QueueLimit
  BY <1>1, <1>3, EmptyLen DEF Inv, ReadLoop
<1> DEFINE m == [req |-> next', keep |-> keep]
<1>5. m \in Message /\ m.req = LastQueued + 1 /\ next' \in Nat
  BY <1>1, <1>2, <1>4 DEF Message
<1>6. CASE kind = "file" /\ HandleFile(keep)
  <2>1. queue_write(m) /\ UNCHANGED <<stage, bodies, shutdowns, sendShut>>
    BY <1>6 DEF HandleFile
  <2> HIDE DEF m
  <2>2. /\ queue' \in Seq(Message) /\ writes' \in Seq(Write)
        /\ Len(queue') = Len(queue) + 1
        /\ LastQueued' = LastQueued + 1
        /\ WriteLoop'
    BY <1>2, <1>5, <2>1, PushFacts DEF Inv
  <2>3. TypeOK'
    BY <1>2, <1>3, <1>5, <2>1, <2>2 DEF Inv, TypeOK, Write
  <2>4. Len(bodies') = 0 /\ bodies' = <<>>
    BY <1>3, <1>4, <2>1
  <2>5. ReadLoop'
    BY <1>1, <1>2, <1>3, <1>4, <2>2, <2>4, QueueLimitPositive DEF ReadLoop
  <2>6. Stages'
    BY <1>2, <2>1 DEF Stages
  <2> QED
    BY <2>2, <2>3, <2>5, <2>6 DEF Inv
<1>7. CASE \/ kind = "bad_target" /\ HandleBadTarget
           \/ kind \in {"upgrade", "connect", "absolute"} /\ HandOver
           \/ /\ do_eof
              /\ UNCHANGED <<stage, bodies, queue, writes>>
  <2>1. /\ UNCHANGED <<bodies, queue, writes>>
        /\ stage' \in {"serving", "released"}
    BY <1>2, <1>7 DEF HandleBadTarget, HandOver
  <2>2. TypeOK'
    <3>1. sendShut' \in BOOLEAN /\ shutdowns' \in Nat
      BY <1>7, EofTyped DEF Inv, TypeOK, HandleBadTarget, HandOver
    <3> QED
      BY <1>2, <1>3, <1>5, <2>1, <3>1 DEF Inv, TypeOK
  <2>3. WriteLoop'
    BY <1>2, <2>1 DEF Inv, WriteLoop
  <2>4. ReadLoop'
    BY <1>1, <1>3, <1>4, <2>1, QueueLimitPositive DEF ReadLoop
  <2>5. Stages'
    BY <1>3, <1>4, <2>1 DEF Stages
  <2> QED
    BY <2>2, <2>3, <2>4, <2>5 DEF Inv
<1>8. CASE /\ bodies' = Append(bodies, m)
           /\ UNCHANGED <<stage, queue, writes, shutdowns, sendShut>>
  <2> HIDE DEF m
  <2>1. bodies' \in Seq(Message) /\ Len(bodies') = 1 /\ bodies'[1] = m
    BY <1>1, <1>3, <1>5, <1>8, AppendTyped, AppendAt
  <2>2. TypeOK'
    BY <1>2, <1>3, <1>5, <1>8, <2>1 DEF Inv, TypeOK
  <2>3. WriteLoop' /\ LastQueued' = LastQueued
    BY <1>2, <1>8 DEF Inv, WriteLoop, LastQueued
  <2>4. ReadLoop'
    BY <1>1, <1>2, <1>3, <1>4, <1>5, <1>8, <2>1, <2>3, QueueLimitPositive
    DEF ReadLoop
  <2>5. Stages'
    BY <1>2, <1>8 DEF Stages
  <2> QED
    BY <2>2, <2>3, <2>4, <2>5 DEF Inv
<1> QED
  BY <1>6, <1>7, <1>8 DEF OnRequest, HandleUpload

\* An upload's body has been read: the response is queued and the read loop
\* goes on if there is room.
LEMMA BodyStep ==
  ASSUME Inv, OnBody
  PROVE  Inv'
<1>1. /\ headerReads \in Nat /\ Len(bodies) \in Nat /\ Len(queue) \in Nat
      /\ bodies \in Seq(Message) /\ queue \in Seq(Message) /\ next \in Nat
      /\ Len(answered) \in Nat
  BY Typed DEF Inv
<1>2. /\ stage = "serving" /\ bodies # <<>> /\ bodies' = Tail(bodies)
      /\ queue_write(Head(bodies)) /\ continue_read_if_needed
      /\ UNCHANGED <<stage, secure, shutdowns, sendShut, failed, dead, next,
                     answered>>
  BY DEF OnBody
<1>3. /\ Len(bodies) >= 1 /\ Head(bodies) = bodies[1]
      /\ Len(bodies') = Len(bodies) - 1
      /\ Head(bodies) \in Message /\ bodies' \in Seq(Message)
  BY <1>1, <1>2, TailTyped, TailAt
<1>4. /\ headerReads = 0 /\ Len(bodies) = 1 /\ Len(queue) < QueueLimit
  BY <1>1, <1>3 DEF Inv, ReadLoop
<1>5. Head(bodies).req = LastQueued + 1 /\ next = LastQueued + 1
  BY <1>2, <1>3 DEF Inv, ReadLoop
<1>6. /\ queue' \in Seq(Message) /\ writes' \in Seq(Write)
      /\ Len(queue') = Len(queue) + 1
      /\ LastQueued' = LastQueued + 1
      /\ WriteLoop'
  BY <1>2, <1>3, <1>5, PushFacts DEF Inv
<1>7. \/ headerReads' = 1 /\ Len(queue') < QueueLimit
      \/ headerReads' = 0 /\ ~(Len(queue') < QueueLimit)
  BY <1>2, <1>4 DEF continue_read_if_needed, do_read
<1>8. Len(bodies') = 0 /\ bodies' = <<>>
  BY <1>1, <1>3, <1>4, EmptyLen
<1>9. TypeOK'
  <2>1. headerReads' \in Nat
    BY <1>7
  <2> QED
    BY <1>2, <1>3, <1>6, <2>1 DEF Inv, TypeOK, Write
<1>10. ReadLoop'
  <2>1. next' = LastQueued'
    BY <1>2, <1>5, <1>6
  <2> QED
    BY <1>1, <1>4, <1>6, <1>7, <1>8, <2>1, QueueLimitPositive DEF ReadLoop
<1>11. Stages'
  BY <1>2 DEF Stages
<1> QED
  BY <1>6, <1>9, <1>10, <1>11 DEF Inv

\* A response was sent and the connection kept: the read loop resumes if it
\* was paused.
LEMMA KeepStep ==
  ASSUME Inv, OnWriteKeep
  PROVE  Inv'
<1>1. /\ headerReads \in Nat /\ Len(bodies) \in Nat /\ Len(queue) \in Nat
      /\ bodies \in Seq(Message) /\ next \in Nat
  BY Typed DEF Inv
<1>2. /\ WriteSent /\ PopAndWrite
      /\ UNCHANGED <<stage, secure, bodies, shutdowns, sendShut, failed, dead,
                     next>>
      /\ \/ Len(queue) >= QueueLimit /\ headerReads' = headerReads + 1
         \/ ~(Len(queue) >= QueueLimit) /\ headerReads' = headerReads
  BY DEF OnWriteKeep, PopAndWrite, do_read
<1>3. /\ queue' \in Seq(Message) /\ writes' \in Seq(Write)
      /\ answered' \in Seq(Nat)
      /\ Len(queue) >= 1
      /\ Len(queue') = Len(queue) - 1
      /\ LastQueued' = LastQueued
      /\ WriteLoop'
  BY <1>2, PopFacts DEF Inv
<1>4. TypeOK'
  <2>1. headerReads' \in Nat
    BY <1>1, <1>2
  <2> QED
    BY <1>2, <1>3, <2>1 DEF Inv, TypeOK, Write
<1>5. ReadLoop'
  <2>1. CASE Len(queue) >= QueueLimit
    <3>1. Len(queue) = QueueLimit /\ headerReads = 0 /\ Len(bodies) = 0
          /\ next = LastQueued
      BY <1>1, <2>1, QueueLimitPositive DEF Inv, ReadLoop
    <3>2. bodies = <<>>
      BY <1>1, <3>1, EmptyLen
    <3>3. headerReads' = 1 /\ bodies' = <<>> /\ Len(bodies') = 0 /\ next' = next
      BY <1>2, <2>1, <3>1, <3>2
    <3> QED
      BY <1>1, <1>3, <3>1, <3>3, QueueLimitPositive DEF ReadLoop
  <2>2. CASE ~(Len(queue) >= QueueLimit)
    <3>1. UNCHANGED <<headerReads, bodies, next>>
      BY <1>2, <2>2
    <3> QED
      BY <1>1, <1>3, <2>2, <3>1, QueueLimitPositive DEF Inv, ReadLoop
  <2> QED
    BY <2>1, <2>2
<1>6. Stages'
  <2>1. stage \in {"serving", "released"}
    BY <1>2 DEF WriteSent, Drives
  <2>2. CASE stage = "serving"
    BY <1>2, <2>2 DEF Stages
  <2>3. CASE stage = "released"
    <3>1. headerReads = 0 /\ bodies = <<>> /\ Len(queue) < QueueLimit
      BY <2>3 DEF Inv, Stages
    <3>2. headerReads' = 0 /\ bodies' = <<>> /\ Len(queue') < QueueLimit
      BY <1>1, <1>2, <1>3, <3>1, QueueLimitPositive
    <3> QED
      BY <1>2, <2>3, <3>2 DEF Stages
  <2> QED
    BY <2>1, <2>2, <2>3
<1> QED
  BY <1>3, <1>4, <1>5, <1>6 DEF Inv

\* A response was sent and the connection is to be closed, or the write
\* failed: the queue stays as it is and the write loop ends.
LEMMA WriteEndsStep ==
  ASSUME Inv, OnWriteClose \/ OnWriteError
  PROVE  Inv'
<1>1. /\ Len(queue) \in Nat /\ Len(writes) \in Nat /\ writes \in Seq(Write)
      /\ answered \in Seq(Nat) /\ Len(answered) \in Nat
  BY Typed DEF Inv
<1>2. /\ writes # <<>> /\ writes' = Tail(writes)
      /\ UNCHANGED <<stage, secure, headerReads, bodies, queue, dead, next>>
      /\ \/ answered' = answered
         \/ answered' = Append(answered, Head(writes).req)
  BY DEF OnWriteClose, OnWriteError, WriteSent
<1>3. /\ queue # <<>> /\ writes[1].req = Len(answered) + 1
      /\ Len(writes) <= 1
  BY <1>2 DEF Inv, WriteLoop
<1>4. writes' \in Seq(Write) /\ Len(writes') = 0 /\ Head(writes) = writes[1]
  <2>1. writes' \in Seq(Write)
    BY <1>1, <1>2, TailTyped
  <2>2. /\ Len(writes) >= 1 /\ Head(writes) = writes[1]
        /\ Len(writes') = Len(writes) - 1
    BY <1>1, <1>2, TailAt
  <2> QED
    BY <1>1, <1>3, <2>1, <2>2
<1>5. writes' = <<>>
  BY <1>4, EmptyLen
<1>6. /\ answered' \in Seq(Nat)
      /\ \A i \in 1..Len(answered') : answered'[i] = i
  <2>1. \A i \in 1..Len(answered) : answered[i] = i
    BY DEF Inv, WriteLoop
  <2>2. CASE answered' = answered
    BY <1>1, <2>1, <2>2
  <2>3. CASE answered' = Append(answered, Head(writes).req)
    <3> DEFINE n == Len(answered) + 1
    <3>1. answered' = Append(answered, n) /\ n \in Nat /\ n = Len(answered) + 1
      BY <1>1, <1>3, <1>4, <2>3
    <3> HIDE DEF n
    <3>2. /\ answered' \in Seq(Nat) /\ Len(answered') = n
          /\ \A i \in 1..Len(answered) : answered'[i] = answered[i]
          /\ answered'[n] = n
      BY <1>1, <3>1, AppendTyped, AppendAt
    <3>3. \A i \in 1..Len(answered') : i \in 1..Len(answered) \/ i = n
      BY <1>1, <3>1, <3>2
    <3> QED
      BY <2>1, <3>2, <3>3
  <2> QED
    BY <1>2, <2>2, <2>3
<1>7. WriteLoop' /\ LastQueued' = LastQueued
  <2>1. LastQueued' = LastQueued
    BY <1>2, <1>3 DEF LastQueued
  <2>2. \A i \in 1..Len(queue') : queue'[i].req = queue'[1].req + i - 1
    BY <1>2 DEF Inv, WriteLoop
  <2> QED
    BY <1>4, <1>5, <1>6, <2>1, <2>2 DEF WriteLoop
<1>8. ReadLoop'
  BY <1>2, <1>7 DEF Inv, ReadLoop
<1>9. TypeOK'
  <2>1. sendShut' \in BOOLEAN /\ shutdowns' \in Nat /\ failed' \in BOOLEAN
    <3>1. CASE OnWriteClose
      BY <3>1, EofTyped DEF Inv, TypeOK, OnWriteClose
    <3>2. CASE OnWriteError
      BY <3>2 DEF Inv, TypeOK, OnWriteError
    <3> QED
      BY <3>1, <3>2
  <2> QED
    BY <1>2, <1>4, <1>6, <2>1 DEF Inv, TypeOK, Write
<1>10. Stages'
  <2>1. stage \in {"serving", "released"}
    BY DEF OnWriteClose, OnWriteError, WriteSent, Drives
  <2> QED
    BY <1>2, <2>1 DEF Inv, Stages
<1> QED
  BY <1>7, <1>8, <1>9, <1>10 DEF Inv

\* The invariant holds in every reachable state.
LEMMA Invariance == Spec => []Inv
<1>1. Inv /\ [Next]_vars => Inv'
  BY QuietStep, ReadEndsStep, RequestStep, BodyStep, KeepStep, WriteEndsStep
  DEF Next, OnReadStep, OnBodyStep, OnWriteStep
<1> QED
  BY <1>1, InvInit, PTL DEF Spec

\* Every variable of a session keeps its type; in particular no operation
\* completes more often than it was started.
THEOREM SessionTypeCorrect == Spec => []TypeOK
<1>1. Inv => TypeOK
  BY DEF Inv
<1> QED
  BY <1>1, Invariance, PTL

\* The read loop never has two reads outstanding on the connection and its
\* buffer, whatever the limit and however requests and responses interleave.
THEOREM SingleReader == Spec => []OneReader
<1>1. Inv => OneReader
  BY DEF Inv, ReadLoop, OneReader
<1> QED
  BY <1>1, Invariance, PTL

\* The write loop never has two writes outstanding, and writes the front of
\* the queue.
THEOREM SingleWriter == Spec => []OneWriter
<1>1. Inv => OneWriter
  <2> SUFFICES ASSUME Inv PROVE OneWriter
    OBVIOUS
  <2>1. writes \in Seq(Write) /\ queue \in Seq(Message)
    BY Typed DEF Inv
  <2>2. /\ Len(writes) <= 1
        /\ writes # <<>> => queue # <<>> /\ writes[1].req = queue[1].req
    BY DEF Inv, WriteLoop
  <2>3. /\ writes # <<>> => Head(writes) = writes[1]
        /\ queue # <<>> => Head(queue) = queue[1]
    BY <2>1, TailAt
  <2> QED
    BY <2>2, <2>3 DEF OneWriter
<1> QED
  BY <1>1, Invariance, PTL

\* The response queue stays within queue_limit.
THEOREM QueueWithinLimit == Spec => []QueueBounded
<1>1. Inv => QueueBounded
  BY DEF Inv, ReadLoop, QueueBounded
<1> QED
  BY <1>1, Invariance, PTL

\* The responses that were sent answer requests 1, 2, 3... in that order.
THEOREM ResponsesInOrder == Spec => []AnsweredInOrder
<1>1. Inv => AnsweredInOrder
  BY DEF Inv, WriteLoop, AnsweredInOrder
<1> QED
  BY <1>1, Invariance, PTL

\* A stream that is handed over has no reader left.
THEOREM NoReaderAfterHandOver == Spec => []HandOverLeavesNoReader
<1>1. Inv => HandOverLeavesNoReader
  BY DEF Inv, Stages, HandOverLeavesNoReader
<1> QED
  BY <1>1, Invariance, PTL

-----------------------------------------------------------------------------
(* After do_eof either no request will be read any more, or the response   *)
(* that closed the session stays at the front of the queue.                *)

Drained == headerReads = 0 /\ bodies = <<>> /\ Len(queue) < QueueLimit

Stuck == queue # <<>> /\ writes = <<>>

Shut ==
  /\ stage \in {"accepted", "detect", "handshake"} => ~sendShut
  /\ sendShut => Drained \/ Stuck

LEMMA ShutInit == Init => Shut
BY DEF Init, Shut

\* What the loops do to a queue that no write takes from.
LEMMA StuckPush ==
  ASSUME TypeOK, Stuck, NEW r \in Message, queue_write(r)
  PROVE  Stuck'
<1>1. queue \in Seq(Message) /\ Len(queue) # 0 /\ Len(queue) \in Nat
  BY Typed, EmptyLen DEF Stuck
<1>2. queue' = Append(queue, r) /\ writes' = writes
  BY <1>1 DEF queue_write
<1>3. queue' # <<>>
  BY <1>1, <1>2
<1> QED
  BY <1>2, <1>3 DEF Stuck

\* The steps that take no response from the queue and add none.
LEMMA ShutKept ==
  ASSUME Inv, Inv', Shut, UNCHANGED <<queue, bodies>>,
         headerReads' = headerReads \/ headerReads' = 0,
         writes' = writes \/ (writes # <<>> /\ writes' = Tail(writes)),
         stage' = stage \/ stage' \notin {"accepted", "detect", "handshake"},
         sendShut' = sendShut \/ (headerReads = 1 /\ headerReads' = 0)
  PROVE  Shut'
<1>1. CASE sendShut
  <2>1. CASE Drained
    BY <1>1, <2>1 DEF Shut, Drained
  <2>2. CASE Stuck
    BY <1>1, <2>2 DEF Shut, Stuck
  <2> QED
    BY <1>1, <2>1, <2>2 DEF Shut
<1>2. CASE ~sendShut /\ sendShut' = sendShut
  BY <1>2 DEF Shut
<1>3. CASE ~sendShut /\ headerReads = 1 /\ headerReads' = 0
  <2>1. bodies = <<>> /\ Len(queue) < QueueLimit
    <3>1. headerReads \in Nat /\ Len(bodies) \in Nat /\ bodies \in Seq(Message)
      BY Typed DEF Inv
    <3>2. headerReads + Len(bodies) <= 1
          /\ (headerReads + Len(bodies) = 1 => Len(queue) < QueueLimit)
      BY DEF Inv, ReadLoop
    <3>3. Len(bodies) = 0
      BY <1>3, <3>1, <3>2
    <3> QED
      BY <1>3, <3>1, <3>2, <3>3, EmptyLen
  <2>2. stage \notin {"accepted", "detect", "handshake"}
    BY <1>3 DEF Inv, Stages
  <2> QED
    BY <1>3, <2>1, <2>2 DEF Shut, Drained
<1> QED
  BY <1>1, <1>2, <1>3

LEMMA ShutPreserved == Inv /\ Inv' /\ Shut /\ [Next]_vars => Shut'
<1> SUFFICES ASSUME Inv, Inv', Shut, [Next]_vars PROVE Shut'
  OBVIOUS
<1>0. /\ headerReads \in Nat /\ Len(bodies) \in Nat /\ Len(queue) \in Nat
      /\ bodies \in Seq(Message) /\ queue \in Seq(Message)
      /\ writes \in Seq(Write) /\ Len(writes) \in Nat /\ TypeOK /\ next \in Nat
      /\ QueueLimit \in Nat
  BY Typed, QueueLimitPositive DEF Inv
<1>1. CASE OnRun \/ OnDetect \/ OnHandshake
  <2>1. ~sendShut /\ sendShut' = sendShut
    BY <1>1 DEF OnRun, OnDetect, OnHandshake, Shut
  <2> QED
    BY <2>1 DEF Shut
<1>2. CASE StartFails \/ OnShutdown \/ OnMovedEngine \/ ConnectionLost
           \/ Destroy \/ Terminated \/ OnWriteError \/ UNCHANGED vars
  <2>1. /\ UNCHANGED <<queue, bodies, headerReads, sendShut>>
        /\ writes' = writes \/ (writes # <<>> /\ writes' = Tail(writes))
        /\ stage' = stage \/ stage' \notin {"accepted", "detect", "handshake"}
    BY <1>2 DEF StartFails, OnShutdown, OnMovedEngine, ConnectionLost, Destroy,
       Terminated, OnWriteError, vars
  <2> QED
    BY <2>1, ShutKept
<1>3. CASE OnReadEof \/ OnReadError
  <2>1. headerReads = 1 /\ headerReads' = 0
    <3>1. headerReads > 0 /\ headerReads' = headerReads - 1
      BY <1>3 DEF OnReadEof, OnReadError
    <3>2. headerReads + Len(bodies) <= 1
      BY DEF Inv, ReadLoop
    <3> QED
      BY <1>0, <3>1, <3>2
  <2>2. UNCHANGED <<queue, bodies, writes, stage>>
    BY <1>3 DEF OnReadEof, OnReadError
  <2> QED
    BY <2>1, <2>2, ShutKept
<1>4. ASSUME NEW kind \in Kind, NEW keep \in BOOLEAN, OnRequest(kind, keep)
      PROVE  Shut'
  <2>1. headerReads = 1 /\ headerReads' = 0 /\ stage = "serving"
        /\ next' \in Nat
    <3>1. headerReads > 0 /\ headerReads' = headerReads - 1 /\ stage = "serving"
          /\ next' = next + 1
      BY <1>4 DEF OnRequest
    <3>2. headerReads + Len(bodies) <= 1
      BY DEF Inv, ReadLoop
    <3> QED
      BY <1>0, <3>1, <3>2
  <2>2. ~Drained
    BY <2>1 DEF Drained
  <2>3. CASE HandleFile(keep)
    <3>1. sendShut' = sendShut /\ stage' = stage
      BY <2>3 DEF HandleFile
    <3>2. CASE sendShut
      <4>1. Stuck
        BY <2>2, <3>2 DEF Shut
      <4>2. [req |-> next', keep |-> keep] \in Message
        BY <2>1 DEF Message
      <4>3. Stuck'
        BY <1>0, <2>3, <4>1, <4>2, StuckPush DEF HandleFile
      <4> QED
        BY <2>1, <3>1, <4>3 DEF Shut
    <3> QED
      BY <3>1, <3>2 DEF Shut
  <2>4. CASE HandleBadTarget \/ HandOver
    <3>1. UNCHANGED <<queue, bodies, writes>> /\ stage' \in {stage, "released"}
      BY <2>4 DEF HandleBadTarget, HandOver
    <3> QED
      BY <2>1, <3>1, ShutKept
  <2>5. CASE HandleUpload(keep)
    <3>1. CASE UNCHANGED bodies
      <4>1. UNCHANGED <<queue, bodies, writes, stage>>
        BY <2>5, <3>1 DEF HandleUpload
      <4> QED
        BY <2>1, <4>1, ShutKept
    <3>2. CASE ~UNCHANGED bodies
      <4>1. UNCHANGED <<queue, writes, stage, sendShut>>
        BY <2>5, <3>2 DEF HandleUpload
      <4> QED
        BY <2>1, <2>2, <4>1 DEF Shut, Stuck
    <3> QED
      BY <3>1, <3>2
  <2> QED
    BY <1>4, <2>3, <2>4, <2>5 DEF OnRequest
<1>5. CASE OnBody
  <2>1. bodies # <<>> /\ stage = "serving" /\ stage' = stage
        /\ sendShut' = sendShut /\ queue_write(Head(bodies))
    BY <1>5 DEF OnBody
  <2>2. Head(bodies) \in Message
    BY <1>0, <2>1, TailTyped
  <2>3. sendShut => Stuck'
    BY <1>0, <2>1, <2>2, StuckPush DEF Shut, Drained
  <2> QED
    BY <2>1, <2>3 DEF Shut
<1>6. CASE OnBodyError
  <2>1. bodies # <<>> /\ UNCHANGED <<queue, writes, stage, sendShut>>
    BY <1>6 DEF OnBodyError
  <2> QED
    BY <2>1 DEF Shut, Drained, Stuck
<1>7. CASE OnWriteClose
  <2>1. /\ writes # <<>> /\ writes' = Tail(writes) /\ sendShut'
        /\ UNCHANGED <<queue, stage>> /\ stage \in {"serving", "released"}
    BY <1>7
    DEF OnWriteClose, WriteSent, Drives, do_eof, do_eof_plain, do_eof_ssl
  <2>2. queue # <<>> /\ Len(writes) <= 1
    BY <2>1 DEF Inv, WriteLoop
  <2>3. writes' = <<>>
    <3>1. Tail(writes) \in Seq(Write) /\ Len(Tail(writes)) = Len(writes) - 1
      BY <1>0, <2>1, TailTyped, TailAt
    <3>2. Len(Tail(writes)) = 0
      BY <1>0, <2>2, <3>1
    <3> QED
      BY <2>1, <3>1, <3>2, EmptyLen
  <2> QED
    BY <2>1, <2>2, <2>3 DEF Shut, Stuck
<1>8. CASE OnWriteKeep
  <2>1. /\ writes # <<>> /\ queue' = Tail(queue)
        /\ UNCHANGED <<stage, bodies, sendShut>>
        /\ Len(queue) < QueueLimit => headerReads' = headerReads
    BY <1>0, <1>8 DEF OnWriteKeep, WriteSent
  <2>2. queue # <<>>
    BY <2>1 DEF Inv, WriteLoop
  <2>3. Len(queue') = Len(queue) - 1
    BY <1>0, <2>1, <2>2, TailAt
  <2>4. sendShut => Drained
    BY <2>1 DEF Shut, Stuck
  <2>5. sendShut => Drained'
    BY <1>0, <2>1, <2>3, <2>4 DEF Drained
  <2> QED
    BY <2>1, <2>5 DEF Shut
<1> QED
  BY <1>1, <1>2, <1>3, <1>4, <1>5, <1>6, <1>7, <1>8
  DEF Next, OnReadStep, OnBodyStep, OnWriteStep

\* A step starts a write only for a response it queues, or after one.
LEMMA NoWriteStarts ==
  ASSUME Inv, Shut, [Next]_vars, sendShut, writes = <<>>
  PROVE  writes' = <<>>
<1>1. CASE \/ OnBody
           \/ \E kind \in Kind, keep \in BOOLEAN : OnRequest(kind, keep)
  <2>1. Stuck
    <3>1. bodies # <<>> \/ headerReads > 0
      BY <1>1 DEF OnBody, OnRequest
    <3>2. headerReads \in Nat
      BY Typed DEF Inv
    <3> QED
      BY <3>1, <3>2 DEF Shut, Drained
  <2>2. Len(queue) # 0 /\ Len(queue) \in Nat
    BY <2>1, Typed, EmptyLen DEF Inv, Stuck
  <2>3. ASSUME NEW r, queue_write(r) PROVE writes' = writes
    BY <2>2, <2>3 DEF queue_write
  <2> QED
    BY <1>1, <2>3
    DEF OnBody, OnRequest, HandleFile, HandleBadTarget, HandleUpload, HandOver
<1> QED
  BY <1>1
  DEF Next, OnRun, OnDetect, OnHandshake, StartFails, OnReadStep, OnReadEof,
      OnReadError, OnBodyStep, OnBodyError, OnWriteStep, OnWriteClose,
      OnWriteKeep, OnWriteError, WriteSent, OnMovedEngine, OnShutdown,
      ConnectionLost, Destroy, Terminated, vars

\* Once the session has shut its side, a finished write starts no other, and
\* nothing that is still read does.
THEOREM NothingAfterClose == Spec => NothingWrittenAfterClose
<1>1. Inv /\ [Next]_vars => Inv'
  BY QuietStep, ReadEndsStep, RequestStep, BodyStep, KeepStep, WriteEndsStep
  DEF Next, OnReadStep, OnBodyStep, OnWriteStep
<1>2. Inv /\ Shut /\ [Next]_vars
        => [sendShut /\ writes = <<>> => writes' = <<>>]_vars
  BY NoWriteStarts
<1> QED
  BY <1>1, <1>2, InvInit, ShutInit, ShutPreserved, PTL
  DEF Spec, NothingWrittenAfterClose

-----------------------------------------------------------------------------
(* What the sessions whose stream is handed over under a write, and those  *)
(* that end in the middle of a keep-alive connection, have in common: the  *)
(* first have read an upload, the second have served a file.               *)

\* Only an upload's response is written while the next request is read.  A
\* session without uploads that has shut its side reads and writes no more.
Alone ==
  /\ Len(queue) <= 1
  /\ headerReads > 0 => queue = <<>>
  /\ sendShut =>
       /\ headerReads = 0
       /\ writes = <<>>
       /\ stage \notin {"accepted", "detect", "handshake", "released"}
  /\ shutdowns > 0 => sendShut
  /\ stage # "undefined"
  /\ OwnershipTransferred

\* Without an upload a request is read only when no response is queued.
LEMMA AloneKept ==
  ASSUME Inv, Inv', Alone, bodies = <<>>, bodies' = <<>>, [Next]_vars
  PROVE  Alone'
<1>0. /\ headerReads \in Nat /\ headerReads' \in Nat /\ QueueLimit \in Nat
      /\ queue \in Seq(Message) /\ writes \in Seq(Write)
      /\ Len(queue) \in Nat /\ Len(writes) \in Nat /\ QueueLimit > 0
      /\ shutdowns \in Nat
  BY Typed, QueueLimitPositive DEF Inv, TypeOK
<1>1. /\ Len(writes) <= 1
      /\ writes # <<>> => queue # <<>>
      /\ stage \in {"accepted", "detect", "handshake"} => queue = <<>>
      /\ stage = "released" => headerReads = 0
  BY DEF Inv, WriteLoop, Stages
<1>2. CASE OnRun \/ OnDetect \/ OnHandshake \/ StartFails
  <2>1. /\ UNCHANGED <<queue, writes, sendShut, shutdowns>> /\ ~sendShut
        /\ stage' \notin {"released", "undefined"} /\ queue = <<>>
    BY <1>1, <1>2 DEF OnRun, OnDetect, OnHandshake, StartFails, Alone
  <2> QED
    BY <2>1 DEF Alone, OwnershipTransferred
<1>3. CASE \/ OnShutdown \/ OnMovedEngine \/ ConnectionLost \/ Destroy
           \/ Terminated \/ OnReadError \/ UNCHANGED vars
  <2>1. ~OnMovedEngine
    BY <1>0 DEF OnMovedEngine, Alone, OwnershipTransferred
  <2>2. /\ UNCHANGED <<queue, writes, sendShut>>
        /\ headerReads' = headerReads \/ headerReads' = headerReads - 1
        /\ shutdowns' = shutdowns \/ shutdowns' = shutdowns - 1
        /\ stage' = stage \/ stage' = "ended"
    BY <1>0, <1>3, <2>1 DEF OnShutdown, ConnectionLost, Destroy, Terminated,
       OnReadError, vars
  <2>3. /\ headerReads' > 0 => headerReads > 0
        /\ headerReads = 0 => headerReads' = 0
        /\ shutdowns' > 0 => shutdowns > 0
    BY <1>0, <2>2
  <2> QED
    BY <2>2, <2>3 DEF Alone, OwnershipTransferred
<1>4. CASE OnWriteError
  <2>1. /\ UNCHANGED <<queue, headerReads, stage, sendShut, shutdowns>>
        /\ writes # <<>>
    BY <1>4 DEF OnWriteError
  <2> QED
    BY <2>1 DEF Alone, OwnershipTransferred
<1>8. CASE OnWriteClose \/ OnReadEof
  <2>1. /\ do_eof /\ UNCHANGED <<queue, stage>>
        /\ \/ writes # <<>> /\ writes' = Tail(writes) /\ UNCHANGED headerReads
           \/ /\ headerReads > 0 /\ headerReads' = headerReads - 1
              /\ writes' = writes
        /\ stage \in {"serving", "released"}
    BY <1>8 DEF OnWriteClose, OnReadEof, WriteSent, Drives
  <2>2. headerReads' = 0 /\ writes' = <<>> /\ stage = "serving"
    <3>1. CASE writes # <<>> /\ writes' = Tail(writes) /\ UNCHANGED headerReads
      <4>1. Len(writes) = 1 /\ Len(Tail(writes)) = 0 /\ Tail(writes) \in Seq(Write)
        <5>1. Len(writes) >= 1 /\ Len(Tail(writes)) = Len(writes) - 1
          BY <1>0, <3>1, TailAt
        <5>2. Tail(writes) \in Seq(Write)
          BY <1>0, <3>1, TailTyped
        <5>3. Len(writes) <= 1 /\ Len(writes) \in Nat
          BY <1>0, <1>1
        <5>5. Len(writes) >= 1
          BY <5>1
        <5>4. Len(writes) = 1
          <6> DEFINE n == Len(writes)
          <6>1. n \in Nat /\ n <= 1 /\ n >= 1
            BY <5>3, <5>5
          <6> HIDE DEF n
          <6>2. n = 1
            BY <6>1
          <6> QED
            BY <6>2 DEF n
        <5> QED
          BY <5>1, <5>2, <5>4
      <4>2. writes' = <<>>
        BY <3>1, <4>1, EmptyLen
      <4>3. ~(headerReads > 0)
        BY <1>1, <3>1 DEF Alone
      <4> QED
        BY <1>0, <2>1, <3>1, <4>2, <4>3 DEF Alone, OwnershipTransferred
    <3>2. CASE headerReads > 0 /\ headerReads' = headerReads - 1
               /\ writes' = writes
      <4>1. headerReads = 1
        BY <1>0, <3>2 DEF Inv, ReadLoop
      <4>2. writes = <<>>
        BY <1>1, <3>2 DEF Alone
      <4> QED
        BY <1>1, <2>1, <3>2, <4>1, <4>2
    <3> QED
      BY <2>1, <3>1, <3>2
  <2>3. sendShut'
    BY <2>1 DEF do_eof, do_eof_plain, do_eof_ssl
  <2> QED
    BY <2>1, <2>2, <2>3 DEF Alone, OwnershipTransferred
<1>5. CASE OnWriteKeep
  <2>1. /\ queue' = Tail(queue) /\ writes # <<>>
        /\ UNCHANGED <<stage, sendShut, shutdowns>>
    BY <1>5 DEF OnWriteKeep, WriteSent
  <2>2. Len(queue) = 1 /\ Len(queue') = 0 /\ queue' \in Seq(Message)
    <3>1. queue # <<>>
      BY <1>1, <2>1
    <3>2. Len(queue) >= 1 /\ Len(queue') = Len(queue) - 1
      BY <1>0, <2>1, <3>1, TailAt
    <3>3. queue' \in Seq(Message)
      BY <1>0, <2>1, <3>1, TailTyped
    <3> QED
      BY <1>0, <3>2, <3>3 DEF Alone
  <2>3. queue' = <<>>
    BY <2>2, EmptyLen
  <2>4. stage # "released" /\ stage # "undefined" /\ ~sendShut
        /\ ~(shutdowns > 0)
    BY <2>1 DEF Alone, OwnershipTransferred
  <2>5. Len(queue') <= 1
    BY <2>2
  <2> QED
    BY <2>1, <2>3, <2>4, <2>5 DEF Alone, OwnershipTransferred
<1>6. ASSUME NEW kind \in Kind, NEW keep \in BOOLEAN, OnRequest(kind, keep)
      PROVE  Alone'
  <2>1. /\ headerReads = 1 /\ headerReads' = 0 /\ queue = <<>>
        /\ stage = "serving" /\ ~sendShut /\ ~(shutdowns > 0)
    <3>1. headerReads > 0 /\ headerReads' = headerReads - 1 /\ stage = "serving"
      BY <1>6 DEF OnRequest
    <3>2. headerReads + Len(bodies) <= 1 /\ Len(bodies) = 0
      BY DEF Inv, ReadLoop
    <3> QED
      BY <1>0, <3>1, <3>2 DEF Alone
  <2>2. writes = <<>>
    BY <1>1, <2>1
  <2>3. CASE HandleFile(keep)
    <3> DEFINE m == [req |-> next', keep |-> keep]
    <3>1. /\ queue' = Append(queue, m)
          /\ UNCHANGED <<stage, sendShut, shutdowns>>
      BY <2>3 DEF HandleFile, queue_write
    <3>2. Len(queue) = 0
      BY <2>1
    <3>3. Len(Append(queue, m)) = Len(queue) + 1
      BY <1>0, <2>1
    <3>4. Len(queue') = 1
      BY <3>1, <3>2, <3>3
    <3> QED
      BY <2>1, <3>1, <3>4 DEF Alone, OwnershipTransferred
  <2>4. CASE HandleBadTarget \/ HandleUpload(keep) \/ HandOver
    <3>1. /\ UNCHANGED <<queue, writes>>
          /\ \/ stage' = stage /\ do_eof
             \/ stage' = stage /\ UNCHANGED <<sendShut, shutdowns>>
             \/ stage' = "released" /\ UNCHANGED <<sendShut, shutdowns>>
      BY <2>4 DEF HandleBadTarget, HandleUpload, HandOver
    <3> QED
      BY <2>1, <2>2, <3>1
      DEF Alone, OwnershipTransferred, do_eof, do_eof_plain, do_eof_ssl
  <2> QED
    BY <1>6, <2>3, <2>4 DEF OnRequest
<1>7. ~OnBody /\ ~OnBodyError
  BY DEF OnBody, OnBodyError
<1> QED
  BY <1>2, <1>3, <1>4, <1>5, <1>6, <1>7, <1>8
  DEF Next, OnReadStep, OnBodyStep, OnWriteStep

\* A connection that never reads the body of an upload.
NoUpload == bodies = <<>>

LEMMA AloneWithoutUploads == Spec /\ []NoUpload => []Alone
<1>1. Init => Alone
  <2>1. Init => /\ Len(queue) = 0 /\ headerReads = 0 /\ stage = "accepted"
                /\ ~sendShut /\ ~(shutdowns > 0)
    BY DEF Init
  <2> QED
    BY <2>1 DEF Alone, OwnershipTransferred
<1>2. Inv /\ Inv' /\ Alone /\ NoUpload /\ NoUpload' /\ [Next]_vars => Alone'
  BY AloneKept DEF NoUpload
<1>3. Spec => Init /\ [][Next]_vars
  BY DEF Spec
<1> QED
  BY <1>1, <1>2, <1>3, Invariance, PTL

\* A connection that uploads nothing gives its stream away only when none of
\* its responses is being written: HttpSessionOwner.cfg needs an upload.
THEOREM OwnershipWithoutUploads ==
  Spec /\ []NoUpload => []OwnershipTransferred
<1>1. Alone => OwnershipTransferred
  BY DEF Alone
<1> QED
  BY <1>1, AloneWithoutUploads, PTL

\* Nor does an operation of its own ever work on the engine of the SSL stream
\* it has moved away.
THEOREM EngineWithoutUploads ==
  Spec /\ []NoUpload => [](stage # "undefined")
<1>1. Alone => stage # "undefined"
  BY DEF Alone
<1> QED
  BY <1>1, AloneWithoutUploads, PTL

-----------------------------------------------------------------------------

\* A serving session that nothing has ended reads, or will read when it has
\* sent the response it is writing.
ReadsOn ==
  /\ KeepAliveGoesOn
  /\ stage = "serving" /\ ~sendShut /\ ~failed
       => /\ queue # <<>> => writes # <<>>
          /\ headerReads + Len(bodies) = 1 \/ Len(queue) = QueueLimit

\* The step does not read the request of a file.
NoFile == \A keep \in BOOLEAN : ~OnRequest("file", keep)

\* DoWrite starts a write when there is something to write.
LEMMA DoWriteWrites ==
  ASSUME NEW q \in Seq(Message), NEW w \in Seq(Write), q # <<>>
  PROVE  DoWrite(q, w) # <<>>
<1> DEFINE late == sendShut \/ stage = "released"
           x == [req |-> Head(q).req, keep |-> Head(q).keep, late |-> late]
<1>1. DoWrite(q, w) = Append(w, x)
  BY DEF DoWrite
<1> HIDE DEF x
<1>2. Append(w, x) # <<>>
  OBVIOUS
<1> QED
  BY <1>1, <1>2

\* As long as no file is served the read loop goes on.
LEMMA ReadsOnKept ==
  ASSUME Inv, Inv', ReadsOn, [Next]_vars, [NoFile]_vars
  PROVE  ReadsOn'
<1>0. /\ headerReads \in Nat /\ QueueLimit \in Nat /\ QueueLimit > 0
      /\ queue \in Seq(Message) /\ writes \in Seq(Write)
      /\ bodies \in Seq(Message) /\ Len(bodies) \in Nat
      /\ Len(queue) \in Nat /\ Len(queue') \in Nat /\ Len(bodies') \in Nat
      /\ headerReads' \in Nat /\ queue' \in Seq(Message) /\ next \in Nat
  BY Typed, QueueLimitPositive DEF Inv, TypeOK
<1>1. /\ headerReads + Len(bodies) <= 1
      /\ headerReads + Len(bodies) = 1 => Len(queue) < QueueLimit
      /\ Len(queue) <= QueueLimit
      /\ writes # <<>> => queue # <<>>
  BY DEF Inv, ReadLoop, WriteLoop
<1>2. CASE OnDetect \/ OnHandshake
  <2>1. /\ stage' \in {"handshake", "serving"}
        /\ stage' = "serving" => headerReads' = headerReads + 1
        /\ bodies' = bodies /\ queue' = queue
    BY <1>2 DEF OnDetect, OnHandshake
  <2>2. headerReads = 0 /\ bodies = <<>> /\ queue = <<>>
    BY <1>2 DEF OnDetect, OnHandshake, Inv, Stages
  <2>3. Len(bodies') = 0
    BY <2>1, <2>2
  <2>4. stage' = "serving" => headerReads' + Len(bodies') = 1
    BY <2>1, <2>2, <2>3
  <2> QED
    BY <2>1, <2>2, <2>4 DEF ReadsOn, KeepAliveGoesOn
<1>3. CASE StartFails \/ OnReadError \/ OnBodyError \/ OnWriteError
           \/ ConnectionLost
  <2>1. failed'
    BY <1>3 DEF StartFails, OnReadError, OnBodyError, OnWriteError,
       ConnectionLost
  <2> QED
    BY <2>1 DEF ReadsOn, KeepAliveGoesOn
<1>4. CASE OnReadEof \/ OnWriteClose
  <2>1. sendShut'
    BY <1>4 DEF OnReadEof, OnWriteClose, do_eof, do_eof_plain, do_eof_ssl
  <2> QED
    BY <2>1 DEF ReadsOn, KeepAliveGoesOn
<1>5. CASE OnRun \/ OnShutdown \/ OnMovedEngine \/ Terminated \/ UNCHANGED vars
  <2>1. /\ UNCHANGED <<headerReads, bodies, queue, writes, sendShut, failed>>
        /\ stage' = stage \/ stage' \in {"detect", "undefined"}
    BY <1>5 DEF OnRun, OnShutdown, OnMovedEngine, Terminated, vars
  <2> QED
    BY <2>1 DEF ReadsOn, KeepAliveGoesOn
<1>6. CASE Destroy
  <2>1. /\ stage = "serving" /\ stage' = "ended" /\ ~(headerReads > 0)
        /\ bodies = <<>> /\ writes = <<>> /\ UNCHANGED <<sendShut, failed>>
    BY <1>6 DEF Destroy, Outstanding
  <2>2. headerReads = 0 /\ Len(bodies) = 0
    BY <1>0, <2>1
  <2>3. headerReads + Len(bodies) # 1
    BY <2>2
  <2>4. sendShut \/ failed
    <3>1. queue = <<>> => Len(queue) # QueueLimit
      BY <1>0
    <3> QED
      BY <2>1, <2>3, <3>1 DEF ReadsOn
  <2> QED
    BY <2>1, <2>4 DEF ReadsOn, KeepAliveGoesOn
<1>7. ASSUME NEW kind \in Kind, NEW keep \in BOOLEAN, OnRequest(kind, keep)
      PROVE  ReadsOn'
  <2>1. /\ stage = "serving" /\ headerReads = 1 /\ headerReads' = 0
        /\ Len(bodies) = 0 /\ next' = next + 1
    <3>1. /\ headerReads > 0 /\ headerReads' = headerReads - 1
          /\ stage = "serving" /\ next' = next + 1
      BY <1>7 DEF OnRequest
    <3> QED
      BY <1>0, <1>1, <3>1
  <2>2. kind # "file"
    <3>1. vars' # vars
      BY <1>0, <2>1 DEF vars
    <3> QED
      BY <1>7, <3>1 DEF NoFile
  <2>3. CASE HandleBadTarget \/ (HandleUpload(keep) /\ UNCHANGED bodies)
             \/ HandOver
    <3>1. sendShut' \/ stage' = "released"
      <4> DEFINE m == [req |-> next', keep |-> keep]
      <4>1. m \in Message
        BY <1>0, <2>1 DEF Message
      <4> HIDE DEF m
      <4>2. Append(bodies, m) # bodies
        <5>1. Len(Append(bodies, m)) = Len(bodies) + 1
          BY <1>0, <4>1
        <5> QED
          BY <2>1, <5>1
      <4> USE DEF m
      <4> QED
        BY <2>3, <4>2
        DEF HandleBadTarget, HandleUpload, HandOver, do_eof, do_eof_plain,
            do_eof_ssl
    <3>2. stage' # "ended"
      BY <2>1, <2>3 DEF HandleBadTarget, HandleUpload, HandOver
    <3> QED
      BY <3>1, <3>2 DEF ReadsOn, KeepAliveGoesOn
  <2>4. CASE HandleUpload(keep) /\ ~UNCHANGED bodies
    <3> DEFINE m == [req |-> next', keep |-> keep]
    <3>1. m \in Message
      BY <1>0, <2>1 DEF Message
    <3>2. /\ bodies' = Append(bodies, m) /\ stage' = stage
          /\ UNCHANGED <<queue, writes, sendShut, failed>>
      BY <1>7, <2>4 DEF HandleUpload, OnRequest
    <3> HIDE DEF m
    <3>3. Len(bodies') = 1
      BY <1>0, <2>1, <3>1, <3>2
    <3>4. headerReads' + Len(bodies') = 1
      BY <2>1, <3>3
    <3> QED
      BY <2>1, <3>2, <3>4 DEF ReadsOn, KeepAliveGoesOn
  <2> QED
    BY <1>7, <2>2, <2>3, <2>4 DEF OnRequest, Kind
<1>8. CASE OnBody
  <2>1. /\ bodies # <<>> /\ bodies' = Tail(bodies) /\ stage' = stage
        /\ stage = "serving" /\ UNCHANGED <<sendShut, failed>>
        /\ queue_write(Head(bodies)) /\ continue_read_if_needed
    BY <1>8 DEF OnBody
  <2>2. /\ Len(bodies) = 1 /\ headerReads = 0 /\ Len(bodies') = 0
        /\ Len(queue) < QueueLimit
    <3>1. Len(bodies) >= 1 /\ Len(bodies') = Len(bodies) - 1
      BY <1>0, <2>1, TailAt
    <3> QED
      BY <1>0, <1>1, <3>1
  <2>3. headerReads' + Len(bodies') = 1 \/ Len(queue') = QueueLimit
    <3>1. CASE Len(queue') < QueueLimit
      <4>1. headerReads' = 1
        BY <2>1, <2>2, <3>1 DEF continue_read_if_needed, do_read
      <4> QED
        BY <2>2, <4>1
    <3>2. CASE ~(Len(queue') < QueueLimit)
      BY <1>0, <3>2 DEF Inv, ReadLoop
    <3> QED
      BY <3>1, <3>2
  <2>4. sendShut \/ failed \/ writes' # <<>>
    <3>1. queue' = Append(queue, Head(bodies)) /\ Head(bodies) \in Message
      BY <1>0, <2>1, TailTyped DEF queue_write
    <3>2. queue' # <<>>
      BY <1>0, <3>1
    <3>3. CASE Len(queue) = 0
      <4>1. writes' = DoWrite(queue', writes)
        BY <2>1, <3>3 DEF queue_write
      <4>2. queue' \in Seq(Message)
        BY <1>0, <3>1
      <4> QED
        BY <1>0, <3>2, <4>1, <4>2, DoWriteWrites
    <3>4. CASE Len(queue) # 0
      <4>1. writes' = writes /\ queue # <<>>
        BY <1>0, <2>1, <3>4 DEF queue_write
      <4> QED
        BY <2>1, <4>1 DEF ReadsOn
    <3> QED
      BY <3>3, <3>4
  <2> QED
    BY <2>1, <2>3, <2>4 DEF ReadsOn, KeepAliveGoesOn
<1>9. CASE OnWriteKeep
  <2>1. /\ writes # <<>> /\ queue' = Tail(queue)
        /\ UNCHANGED <<stage, bodies, sendShut, failed>>
        /\ writes' = DoWrite(queue', Tail(writes))
        /\ Len(queue) >= QueueLimit => headerReads' = headerReads + 1
        /\ ~(Len(queue) >= QueueLimit) => headerReads' = headerReads
    BY <1>9 DEF OnWriteKeep, WriteSent, do_read
  <2>2. queue' # <<>> => writes' # <<>>
    <3>1. Tail(writes) \in Seq(Write)
      BY <1>0, <2>1, TailTyped
    <3>2. queue # <<>>
      BY <2>1 DEF Inv, WriteLoop
    <3>3. queue' \in Seq(Message)
      BY <1>0, <2>1, <3>2, TailTyped
    <3> QED
      BY <2>1, <3>1, <3>3, DoWriteWrites
  <2>3. stage = "serving" /\ ~sendShut /\ ~failed
          => headerReads' + Len(bodies') = 1
    <3> SUFFICES ASSUME stage = "serving", ~sendShut, ~failed
                 PROVE  headerReads' + Len(bodies') = 1
      OBVIOUS
    <3>1. headerReads + Len(bodies) = 1 \/ Len(queue) = QueueLimit
      BY DEF ReadsOn
    <3>2. CASE Len(queue) = QueueLimit
      <4>1. headerReads + Len(bodies) = 0
        BY <1>0, <1>1, <3>2
      <4>2. headerReads' = headerReads + 1
        BY <1>0, <2>1, <3>2
      <4> QED
        BY <1>0, <2>1, <4>1, <4>2
    <3>3. CASE Len(queue) # QueueLimit
      <4>1. headerReads' = headerReads
        BY <1>0, <1>1, <2>1, <3>3
      <4> QED
        BY <2>1, <3>1, <3>3, <4>1
    <3> QED
      BY <3>2, <3>3
  <2> QED
    BY <2>1, <2>2, <2>3 DEF ReadsOn, KeepAliveGoesOn
<1> QED
  BY <1>2, <1>3, <1>4, <1>5, <1>6, <1>7, <1>8, <1>9
  DEF Next, OnReadStep, OnBodyStep, OnWriteStep

\* A connection that serves no file ends only when a side closed it, something
\* failed or it was handed over: HttpSessionKeepAlive.cfg needs a file.
THEOREM KeepAliveWithoutFiles ==
  Spec /\ [][NoFile]_vars => []KeepAliveGoesOn
<1>1. Init => ReadsOn
  BY DEF Init, ReadsOn, KeepAliveGoesOn
<1>2. ReadsOn => KeepAliveGoesOn
  BY DEF ReadsOn
<1>3. Inv /\ Inv' /\ ReadsOn /\ [Next]_vars /\ [NoFile]_vars => ReadsOn'
  BY ReadsOnKept
<1>4. Spec => Init /\ [][Next]_vars
  BY DEF Spec
<1> QED
  BY <1>1, <1>2, <1>3, <1>4, Invariance, PTL

-----------------------------------------------------------------------------
(* What has become of the requests of a session that nothing has cut off.  *)

\* Nothing has failed and neither side has closed.
Healthy == stage \in {"serving", "ended"} /\ ~failed /\ ~sendShut

Accounts ==
  Healthy => /\ queue # <<>> => writes # <<>>
             /\ next = LastQueued + Len(bodies)

\* A response that is queued is being written, or waits for the one that is.
LEMMA PushWrites ==
  ASSUME Inv, NEW r \in Message, queue_write(r), queue # <<>> => writes # <<>>
  PROVE  writes' # <<>>
<1>1. /\ queue \in Seq(Message) /\ writes \in Seq(Write) /\ Len(queue) \in Nat
  BY Typed DEF Inv
<1>2. queue' = Append(queue, r)
  BY DEF queue_write
<1>3. queue' \in Seq(Message) /\ queue' # <<>>
  BY <1>1, <1>2
<1>4. CASE Len(queue) = 0
  <2>1. writes' = DoWrite(queue', writes)
    BY <1>4 DEF queue_write
  <2> QED
    BY <1>1, <1>3, <2>1, DoWriteWrites
<1>5. CASE Len(queue) # 0
  <2>1. writes' = writes /\ queue # <<>>
    BY <1>1, <1>5, EmptyLen DEF queue_write
  <2> QED
    BY <2>1
<1> QED
  BY <1>4, <1>5

LEMMA AccountsKept ==
  ASSUME Inv, Inv', Accounts, [Next]_vars
  PROVE  Accounts'
<1>0. /\ headerReads \in Nat /\ queue \in Seq(Message) /\ writes \in Seq(Write)
      /\ bodies \in Seq(Message) /\ Len(bodies) \in Nat /\ Len(bodies') \in Nat
      /\ Len(queue) \in Nat /\ next \in Nat /\ Len(answered) \in Nat
  BY Typed DEF Inv
<1>1. headerReads + Len(bodies) <= 1
  BY DEF Inv, ReadLoop
<1>2. CASE OnDetect \/ OnHandshake
  <2>1. UNCHANGED <<queue, bodies, answered, next>>
    BY <1>2 DEF OnDetect, OnHandshake
  <2>2. bodies = <<>> /\ queue = <<>> /\ answered = <<>> /\ next = 0
    BY <1>2 DEF OnDetect, OnHandshake, Inv, Stages
  <2>3. Len(bodies') = 0 /\ Len(answered') = 0 /\ queue' = <<>> /\ next' = 0
    BY <2>1, <2>2
  <2>4. LastQueued' = 0
    BY <2>3 DEF LastQueued
  <2> QED
    BY <2>3, <2>4 DEF Accounts
<1>3. CASE StartFails \/ OnReadError \/ OnBodyError \/ OnWriteError
           \/ ConnectionLost
  <2>1. failed'
    BY <1>3 DEF StartFails, OnReadError, OnBodyError, OnWriteError,
       ConnectionLost
  <2> QED
    BY <2>1 DEF Accounts, Healthy
<1>4. CASE OnReadEof \/ OnWriteClose
  <2>1. sendShut'
    BY <1>4 DEF OnReadEof, OnWriteClose, do_eof, do_eof_plain, do_eof_ssl
  <2> QED
    BY <2>1 DEF Accounts, Healthy
<1>5. CASE \/ OnRun \/ OnShutdown \/ OnMovedEngine \/ Destroy \/ Terminated
           \/ UNCHANGED vars
  <2>1. /\ UNCHANGED <<bodies, queue, writes, next, answered, sendShut, failed>>
        /\ \/ stage' = stage \/ stage' \in {"detect", "undefined"}
           \/ stage = "serving" /\ stage' = "ended"
    BY <1>5 DEF OnRun, OnShutdown, OnMovedEngine, Destroy, Terminated, vars
  <2>2. LastQueued' = LastQueued
    BY <2>1 DEF LastQueued
  <2>3. Healthy' => Healthy
    BY <2>1 DEF Healthy
  <2> QED
    BY <2>1, <2>2, <2>3 DEF Accounts
<1>6. ASSUME NEW kind \in Kind, NEW keep \in BOOLEAN, OnRequest(kind, keep)
      PROVE  Accounts'
  <2>1. /\ stage = "serving" /\ next' = next + 1 /\ next' \in Nat
        /\ Len(bodies) = 0 /\ bodies = <<>>
        /\ UNCHANGED <<failed, answered>>
        /\ next = LastQueued
    <3>1. /\ headerReads > 0 /\ stage = "serving" /\ next' = next + 1
          /\ UNCHANGED <<failed, answered>>
      BY <1>6 DEF OnRequest
    <3>2. headerReads = 1 /\ Len(bodies) = 0
      BY <1>0, <1>1, <3>1
    <3>3. next = LastQueued
      BY <3>2 DEF Inv, ReadLoop
    <3> QED
      BY <1>0, <3>1, <3>2, <3>3, EmptyLen
  <2> DEFINE m == [req |-> next', keep |-> keep]
  <2>2. m \in Message
    BY <2>1 DEF Message
  <2>3. CASE HandleFile(keep)
    <3> SUFFICES ASSUME Healthy' PROVE Accounts'
      BY DEF Accounts
    <3>1. queue_write(m) /\ UNCHANGED <<stage, bodies, sendShut>>
      BY <2>3 DEF HandleFile
    <3>2. Healthy
      BY <2>1, <3>1 DEF Healthy
    <3>3. next = LastQueued /\ (queue # <<>> => writes # <<>>)
      BY <2>1, <3>2 DEF Accounts
    <3>4. m.req = LastQueued + 1
      BY <2>1, <3>3
    <3> HIDE DEF m
    <3>5. LastQueued' = LastQueued + 1
      BY <2>1, <2>2, <3>1, <3>4, PushFacts DEF Inv
    <3>6. writes' # <<>>
      BY <2>2, <3>1, <3>3, PushWrites
    <3>7. Len(bodies') = 0
      BY <2>1, <3>1
    <3>8. next' = LastQueued' + Len(bodies')
      BY <1>0, <2>1, <3>3, <3>5, <3>7
    <3> QED
      BY <3>6, <3>8 DEF Accounts
  <2>4. CASE HandleBadTarget \/ HandOver
             \/ (do_eof /\ UNCHANGED <<stage, bodies, queue, writes>>)
    BY <2>4
    DEF HandleBadTarget, HandOver, do_eof, do_eof_plain, do_eof_ssl, Accounts,
        Healthy
  <2>5. CASE /\ bodies' = Append(bodies, m)
             /\ UNCHANGED <<stage, queue, writes, shutdowns, sendShut>>
    <3> SUFFICES ASSUME Healthy' PROVE Accounts'
      BY DEF Accounts
    <3>1. Healthy /\ LastQueued' = LastQueued
      BY <2>1, <2>5 DEF Healthy, LastQueued
    <3> HIDE DEF m
    <3>2. Len(bodies') = 1
      BY <1>0, <2>1, <2>2, <2>5
    <3>3. queue # <<>> => writes # <<>>
      BY <3>1 DEF Accounts
    <3>4. next' = LastQueued' + Len(bodies')
      BY <2>1, <3>1, <3>2
    <3> QED
      BY <2>5, <3>3, <3>4 DEF Accounts
  <2> QED
    BY <1>6, <2>3, <2>4, <2>5 DEF OnRequest, HandleUpload
<1>7. CASE OnBody
  <2> SUFFICES ASSUME Healthy' PROVE Accounts'
    BY DEF Accounts
  <2>1. /\ bodies # <<>> /\ bodies' = Tail(bodies)
        /\ UNCHANGED <<stage, sendShut, failed, next, answered>>
        /\ queue_write(Head(bodies))
    BY <1>7 DEF OnBody
  <2>2. Healthy
    BY <2>1 DEF Healthy
  <2>3. /\ Len(bodies) = 1 /\ Len(bodies') = 0 /\ Head(bodies) = bodies[1]
        /\ Head(bodies) \in Message
    <3>1. /\ Len(bodies) >= 1 /\ Len(bodies') = Len(bodies) - 1
          /\ Head(bodies) = bodies[1] /\ Head(bodies) \in Message
      BY <1>0, <2>1, TailAt, TailTyped
    <3> QED
      BY <1>0, <1>1, <3>1
  <2>4. Head(bodies).req = LastQueued + 1 /\ next = LastQueued + 1
    BY <2>1, <2>3 DEF Inv, ReadLoop
  <2>5. LastQueued' = LastQueued + 1
    BY <2>1, <2>3, <2>4, PushFacts DEF Inv
  <2>6. writes' # <<>>
    BY <2>1, <2>2, <2>3, PushWrites DEF Accounts
  <2>7. next' = LastQueued' + Len(bodies')
    BY <1>0, <2>1, <2>3, <2>4, <2>5
  <2> QED
    BY <2>6, <2>7 DEF Accounts
<1>8. CASE OnWriteKeep
  <2> SUFFICES ASSUME Healthy' PROVE Accounts'
    BY DEF Accounts
  <2>1. /\ WriteSent /\ PopAndWrite
        /\ UNCHANGED <<stage, bodies, sendShut, failed, next>>
    BY <1>8 DEF OnWriteKeep, PopAndWrite
  <2>2. Healthy /\ LastQueued' = LastQueued
    BY <2>1, PopFacts DEF Healthy, Inv
  <2>3. queue' # <<>> => writes' # <<>>
    <3>1. Tail(writes) \in Seq(Write)
      BY <1>0, <2>1, TailTyped DEF WriteSent
    <3>2. queue' \in Seq(Message)
      BY <2>1, PopFacts DEF Inv
    <3> QED
      BY <2>1, <3>1, <3>2, DoWriteWrites DEF PopAndWrite
  <2> QED
    BY <2>1, <2>2, <2>3 DEF Accounts
<1> QED
  BY <1>2, <1>3, <1>4, <1>5, <1>6, <1>7, <1>8
  DEF Next, OnReadStep, OnBodyStep, OnWriteStep

\* A session that nothing has cut off owes an answer to no request it has read
\* but those in its queue, whose first is being written, and the upload it is
\* reading; and one that ends uncut, as after a file it ends, owes none.
THEOREM EveryRequestIsAccountedFor ==
  Spec => [](Healthy =>
               /\ next = Len(answered) + Len(queue) + Len(bodies)
               /\ \A i \in 1..Len(queue) : queue[i].req = Len(answered) + i
               /\ queue # <<>> => writes # <<>>
               /\ bodies # <<>> => bodies[1].req = next)
<1>1. Init => Accounts
  BY DEF Init, Accounts, Healthy
<1>2. Inv /\ Accounts =>
        (Healthy => /\ next = Len(answered) + Len(queue) + Len(bodies)
                    /\ \A i \in 1..Len(queue) : queue[i].req = Len(answered) + i
                    /\ queue # <<>> => writes # <<>>
                    /\ bodies # <<>> => bodies[1].req = next)
  <2> SUFFICES ASSUME Inv, Accounts, Healthy
               PROVE  /\ next = Len(answered) + Len(queue) + Len(bodies)
                      /\ \A i \in 1..Len(queue) :
                           queue[i].req = Len(answered) + i
                      /\ queue # <<>> => writes # <<>>
                      /\ bodies # <<>> => bodies[1].req = next
    OBVIOUS
  <2>1. /\ Len(queue) \in Nat /\ Len(answered) \in Nat /\ Len(bodies) \in Nat
        /\ queue \in Seq(Message)
    BY Typed DEF Inv
  <2>2. /\ queue # <<>> => writes # <<>>
        /\ next = LastQueued + Len(bodies)
    BY DEF Accounts
  <2>3. queue # <<>> => queue[1].req = Len(answered) + 1
    BY <2>2 DEF Inv, WriteLoop
  <2>4. LastQueued = Len(answered) + Len(queue)
    <3>1. CASE queue = <<>>
      BY <2>1, <3>1 DEF LastQueued
    <3>2. CASE queue # <<>>
      BY <2>1, <2>3, <3>2 DEF LastQueued
    <3> QED
      BY <3>1, <3>2
  <2>5. \A i \in 1..Len(queue) : queue[i].req = Len(answered) + i
    <3> SUFFICES ASSUME NEW i \in 1..Len(queue)
                 PROVE  queue[i].req = Len(answered) + i
      OBVIOUS
    <3>1. queue # <<>>
      BY <2>1, EmptyLen
    <3>2. queue[i].req = queue[1].req + i - 1
      BY DEF Inv, WriteLoop
    <3> QED
      BY <2>1, <2>3, <3>1, <3>2
  <2>6. bodies # <<>> => bodies[1].req = next
    BY DEF Inv, ReadLoop
  <2> QED
    BY <2>1, <2>2, <2>4, <2>5, <2>6
<1>3. Inv /\ Inv' /\ Accounts /\ [Next]_vars => Accounts'
  BY AccountsKept
<1> QED
  BY <1>1, <1>2, <1>3, Invariance, PTL DEF Spec
=============================================================================
