---------------------------- MODULE TunnelProofs ----------------------------
(***************************************************************************)
(* Proofs about Tunnel for any number of chunks: types, the order of both  *)
(* streams, the greeting, the end of the remote's stream, that a tunnel    *)
(* implements Relay, and which tunnels pass on all that the client sent.   *)
(* The inductive invariant says what the last chunk written to a peer is:  *)
(* the last one read, or the one before it while that one is being         *)
(* written.  The last sections are about liveness: what ends a tunnel that *)
(* has lost its remote, and what keeps one that has lost its client.       *)
(***************************************************************************)
EXTENDS Tunnel, QueueFacts

Active == {"reading", "writing", "doomed"}

\* Until both directions read nothing has been written or shut, and buffer_
\* is what the client sent early, or nothing.
BeforeRelay ==
  stage \in {"created", "resolving", "connecting", "greeting", "unconsumed"} =>
    /\ \A d \in Direction : op[d] = "idle" /\ got[Dest(d)] = <<>>
    /\ taken["remote"] = 0
    /\ unconsumed = (IF mode = "absolute" THEN taken["client"] ELSE 0)
    /\ ~sendShut
    /\ shutdowns = 0

DuringRelay ==
  /\ \A d \in Direction : op[d] \in Active => stage = "relaying"
  /\ stage \in {"unconsumed", "relaying"} => greeted # "no"
  /\ sendShut => \E d \in Direction : op[d] = "ended"
  /\ op["down"] = "doomed" => sendShut
  /\ op["up"] # "doomed"

\* The number of the last chunk that has been written in direction d.
Through(d) == IF op[d] = "reading" THEN taken[Source(d)] ELSE taken[Source(d)] - 1

\* In a direction that has not ended.
Streaming ==
  \A d \in Direction :
    /\ taken[Source(d)] <= sent[Source(d)]
    /\ op[d] \in Active =>
         /\ op[d] # "reading" => taken[Source(d)] >= 1
         /\ got[Dest(d)] # <<>> => got[Dest(d)][Len(got[Dest(d)])] = Through(d)
         /\ d = "down" \/ mode = "absolute" => Len(got[Dest(d)]) = Through(d)

\* A direction that has ended has done so for a reason, and shut the client.
Ends ==
  \A d \in Direction :
    op[d] = "ended" =>
      /\ sendShut
      /\ \/ fin[Source(d)] /\ taken[Source(d)] = sent[Source(d)]
            /\ (d = "down" => Len(got["client"]) = sent["remote"])
         \/ \E e \in Direction : e # d /\ op[e] = "ended"
         \/ lost["client"] \/ lost["remote"]

Inv ==
  /\ TypeOK
  /\ BeforeRelay
  /\ DuringRelay
  /\ Streaming
  /\ Ends
  /\ InOrder
  /\ GreetingComesFirst

-----------------------------------------------------------------------------

\* Directions and peers.
LEMMA Ways ==
  /\ \A d \in Direction : Source(d) \in Peer /\ Dest(d) \in Peer
  /\ Source("up") = "client" /\ Dest("up") = "remote"
  /\ Source("down") = "remote" /\ Dest("down") = "client"
  /\ \A d \in Direction, e \in Direction : d # e => Dest(d) # Dest(e)
  /\ \A d \in Direction, e \in Direction : d # e => Source(d) # Source(e)
  /\ \A p \in Peer : \E d \in Direction : Dest(d) = p
  /\ Direction = {"up", "down"} /\ Peer = {"client", "remote"}
BY DEF Direction, Peer, Source, Dest

LEMMA InvInit == Init => Inv
<1> SUFFICES ASSUME Init PROVE Inv
  OBVIOUS
<1>1. PICK early \in 0..MaxEarly :
        /\ sent = [p \in Peer |-> IF p = "client" THEN early ELSE 0]
        /\ unconsumed = MemberBuffer(early)
  BY DEF Init
<1>2. /\ early \in 0..MaxChunks /\ MaxChunks \in Nat /\ MaxEarly \in Nat
      /\ unconsumed \in 0..MaxEarly
  BY <1>1, BoundsAreNatural DEF MemberBuffer
<1>3. /\ sent \in [Peer -> 0..MaxChunks] /\ taken = sent
      /\ taken["client"] = early /\ taken["remote"] = 0
  BY <1>1, <1>2 DEF Init, Peer
<1>4. /\ fin \in [Peer -> BOOLEAN] /\ lost \in [Peer -> BOOLEAN]
      /\ op \in [Direction -> {"idle", "reading", "writing", "doomed", "ended"}]
      /\ got \in [Peer -> Seq(1..MaxChunks)]
      /\ \A p \in Peer : got[p] = <<>>
      /\ \A d \in Direction : op[d] = "idle"
  BY DEF Init
<1>5. TypeOK
  BY <1>2, <1>3, <1>4 DEF Init, TypeOK
<1>6. BeforeRelay
  BY <1>1, <1>3, <1>4, Ways DEF Init, BeforeRelay, MemberBuffer
<1>7. DuringRelay
  BY <1>4 DEF Init, DuringRelay, Active, Direction
<1>8. Streaming
  BY <1>2, <1>3, <1>4, Ways DEF Streaming, Active
<1>9. Ends
  BY <1>4 DEF Ends
<1>10. InOrder /\ GreetingComesFirst
  BY <1>4 DEF InOrder, GreetingComesFirst
<1> QED
  BY <1>5, <1>6, <1>7, <1>8, <1>9, <1>10 DEF Inv

\* Before the relay: only the stage and the greeting change.
LEMMA SetUpStep ==
  ASSUME Inv, Start \/ OnResolve \/ OnConnect \/ OnGreeted \/ OnGreetError
              \/ OnUnconsumedError
  PROVE  Inv'
<1>1. /\ UNCHANGED <<mode, secure, unconsumed, op, sent, taken, fin, lost, got,
                     sendShut, shutdowns>>
      /\ stage \in {"created", "resolving", "connecting", "greeting",
                    "unconsumed"}
      /\ stage' \in {"resolving", "connecting", "greeting", "unconsumed",
                     "ended", "thrown"}
      /\ greeted' = greeted \/ greeted' \in {"yes", "garbled"}
      /\ stage' = "unconsumed" => greeted' # "no"
  BY DEF Start, StartConnect, StartAbsolute, OnResolve, OnConnect, OnGreeted,
     OnGreetError, OnUnconsumedError, Goes, Write200, SendRequest, fixed,
     peers, closing
<1>2. TypeOK'
  BY <1>1 DEF Inv, TypeOK
<1>3. BeforeRelay'
  BY <1>1 DEF Inv, BeforeRelay, Direction, Dest
<1>4. DuringRelay'
  <2>1. \A d \in Direction : op[d] = "idle"
    BY <1>1 DEF Inv, BeforeRelay
  <2> QED
    BY <1>1, <2>1 DEF Inv, BeforeRelay, DuringRelay, Active, Direction
<1>5. Streaming' /\ Ends'
  BY <1>1 DEF Inv, Streaming, Ends, Through, Source, Dest
<1>6. InOrder' /\ GreetingComesFirst'
  BY <1>1 DEF Inv, InOrder, GreetingComesFirst
<1> QED
  BY <1>2, <1>3, <1>4, <1>5, <1>6 DEF Inv

\* buffer_ has been written: the relay begins where it ends.
LEMMA OnUnconsumedStep ==
  ASSUME Inv, OnUnconsumed
  PROVE  Inv'
<1> DEFINE head == [i \in 1..unconsumed |-> i]
<1>1. /\ stage = "unconsumed" /\ stage' = "relaying"
      /\ got' = [got EXCEPT !["remote"] = @ \o head]
      /\ op' = [d \in Direction |-> "reading"]
      /\ UNCHANGED <<mode, secure, unconsumed, greeted, sent, taken, fin, lost,
                     sendShut, shutdowns>>
  BY DEF OnUnconsumed, Goes, fixed, closing
<1>2. /\ \A d \in Direction : got[Dest(d)] = <<>>
      /\ taken["remote"] = 0
      /\ unconsumed = (IF mode = "absolute" THEN taken["client"] ELSE 0)
      /\ ~sendShut /\ shutdowns = 0 /\ greeted # "no"
  BY <1>1 DEF Inv, BeforeRelay, DuringRelay
<1>3. /\ got["remote"] = <<>> /\ got["client"] = <<>>
      /\ got \in [Peer -> Seq(1..MaxChunks)]
      /\ unconsumed \in 0..MaxEarly
      /\ taken \in [Peer -> 0..MaxChunks] /\ MaxChunks \in Nat
      /\ MaxEarly \in 0..MaxChunks
  BY <1>2, Ways, BoundsAreNatural DEF Inv, TypeOK
<1>4. /\ head \in Seq(1..MaxChunks) /\ Len(head) = unconsumed
      /\ \A i \in 1..unconsumed : head[i] = i
  BY <1>3
<1>5. <<>> \o head = head
  BY <1>4
<1> HIDE DEF head
<1>6. /\ got' \in [Peer -> Seq(1..MaxChunks)]
      /\ got'["remote"] = head /\ got'["client"] = <<>>
  BY <1>1, <1>3, <1>4, <1>5, Ways
<1>7. \A d \in Direction : op'[d] = "reading"
  BY <1>1
<1>8. TypeOK'
  BY <1>1, <1>6 DEF Inv, TypeOK
<1>9. BeforeRelay' /\ DuringRelay'
  BY <1>1, <1>2, <1>7, Ways DEF BeforeRelay, DuringRelay, Active
<1>10. Streaming'
  <2>1. \A d \in Direction : Through(d)' = taken[Source(d)]
    BY <1>1, <1>7 DEF Through, Source
  <2>2. unconsumed \in Nat /\ (head # <<>> => unconsumed # 0)
    BY <1>3, <1>4 DEF head
  <2>3. head # <<>> => head[Len(head)] = taken["client"]
    BY <1>2, <1>3, <1>4, <2>2
  <2>4. mode = "absolute" => Len(head) = taken["client"]
    BY <1>2, <1>4
  <2>5. \A d \in Direction : taken[Source(d)] <= sent[Source(d)]
    BY DEF Inv, Streaming
  <2> SUFFICES ASSUME NEW d \in Direction
               PROVE  /\ got'[Dest(d)] # <<>> =>
                           got'[Dest(d)][Len(got'[Dest(d)])] = taken[Source(d)]
                      /\ d = "down" \/ mode = "absolute" =>
                           Len(got'[Dest(d)]) = taken[Source(d)]
    BY <1>1, <1>7, <2>1, <2>5 DEF Streaming, Source, Dest
  <2>6. CASE d = "up"
    BY <1>6, <2>3, <2>4, <2>6, Ways
  <2>7. CASE d = "down"
    BY <1>2, <1>6, <2>7, Ways
  <2> QED
    BY <2>6, <2>7, Ways
<1>11. Ends'
  BY <1>7 DEF Ends
<1>12. InOrder'
  BY <1>3, <1>4, <1>6, Ways DEF InOrder
<1>13. GreetingComesFirst'
  BY <1>1, <1>2 DEF GreetingComesFirst
<1> QED
  BY <1>8, <1>9, <1>10, <1>11, <1>12, <1>13 DEF Inv

\* What is typed when a direction takes a step.
LEMMA DirectionTyped ==
  ASSUME Inv, NEW d \in Direction
  PROVE  /\ op \in [Direction -> {"idle", "reading", "writing", "doomed", "ended"}]
         /\ sent \in [Peer -> 0..MaxChunks] /\ taken \in [Peer -> 0..MaxChunks]
         /\ got \in [Peer -> Seq(1..MaxChunks)]
         /\ taken[Source(d)] \in 0..MaxChunks /\ sent[Source(d)] \in 0..MaxChunks
         /\ taken[Source(d)] <= sent[Source(d)]
         /\ Source(d) \in Peer /\ Dest(d) \in Peer
         /\ got[Dest(d)] \in Seq(1..MaxChunks) /\ Len(got[Dest(d)]) \in Nat
         /\ MaxChunks \in Nat
BY Ways, BoundsAreNatural DEF Inv, TypeOK, Streaming

\* No step of a direction that is active happens before the relay.
LEMMA ActiveRelays ==
  ASSUME Inv, NEW d \in Direction, op[d] \in Active
  PROVE  stage = "relaying" /\ greeted # "no"
BY DEF Inv, DuringRelay

\* A chunk is read: one more is on its way.
LEMMA OnRelayReadStep ==
  ASSUME Inv, NEW d \in Direction, OnRelayRead(d)
  PROVE  Inv'
<1> DEFINE o == IF d = "down" /\ sendShut THEN "doomed" ELSE "writing"
<1>1. /\ op[d] = "reading" /\ taken[Source(d)] < sent[Source(d)]
      /\ taken' = [taken EXCEPT ![Source(d)] = @ + 1]
      /\ op' = [op EXCEPT ![d] = o]
      /\ UNCHANGED <<mode, secure, unconsumed, stage, greeted, sent, fin, lost,
                     got, sendShut, shutdowns>>
  BY DEF OnRelayRead, fixed, closing
<1>2. stage = "relaying" /\ greeted # "no"
  BY <1>1, ActiveRelays DEF Active
<1>3. /\ taken[Source(d)] + 1 \in 1..MaxChunks
      /\ taken' \in [Peer -> 0..MaxChunks]
      /\ taken'[Source(d)] = taken[Source(d)] + 1
      /\ \A p \in Peer : p # Source(d) => taken'[p] = taken[p]
  BY <1>1, DirectionTyped
<1>4. /\ o \in {"writing", "doomed"} /\ (o = "doomed" => sendShut /\ d = "down")
      /\ op' \in [Direction -> {"idle", "reading", "writing", "doomed", "ended"}]
      /\ op'[d] = o /\ \A e \in Direction : e # d => op'[e] = op[e]
  BY <1>1, DirectionTyped
<1> HIDE DEF o
<1>5. TypeOK'
  BY <1>1, <1>3, <1>4 DEF Inv, TypeOK
<1>6. BeforeRelay'
  BY <1>1, <1>2 DEF BeforeRelay
<1>7. DuringRelay'
  <2>1. sendShut => \E e \in Direction : op'[e] = "ended"
    BY <1>1, <1>4 DEF Inv, DuringRelay
  <2>2. op'["down"] = "doomed" => sendShut
    BY <1>4 DEF Inv, DuringRelay, Direction
  <2>3. op'["up"] # "doomed"
    BY <1>4 DEF Inv, DuringRelay, Direction
  <2> QED
    BY <1>1, <1>2, <2>1, <2>2, <2>3 DEF DuringRelay, Active
<1>8. Streaming'
  <2> SUFFICES ASSUME NEW e \in Direction
               PROVE  /\ taken'[Source(e)] <= sent[Source(e)]
                      /\ op'[e] \in Active =>
                           /\ op'[e] # "reading" => taken'[Source(e)] >= 1
                           /\ got[Dest(e)] # <<>> =>
                                got[Dest(e)][Len(got[Dest(e)])] = Through(e)'
                           /\ e = "down" \/ mode = "absolute" =>
                                Len(got[Dest(e)]) = Through(e)'
    BY <1>1 DEF Streaming, Source, Dest
  <2>1. CASE e = d
    <3>1. Through(e)' = taken[Source(d)] /\ Through(e) = taken[Source(d)]
      BY <1>1, <1>3, <1>4, <2>1, DirectionTyped DEF Through, Source
    <3> QED
      BY <1>1, <1>3, <2>1, <3>1, DirectionTyped DEF Inv, Streaming, Active
  <2>2. CASE e # d
    <3>1. /\ Source(e) # Source(d) /\ Source(e) \in Peer
      BY <2>2, Ways
    <3>2. taken'[Source(e)] = taken[Source(e)] /\ op'[e] = op[e]
      BY <1>3, <1>4, <2>2, <3>1
    <3>3. Through(e)' = Through(e)
      BY <3>2 DEF Through, Source
    <3> QED
      BY <3>2, <3>3 DEF Inv, Streaming
  <2> QED
    BY <2>1, <2>2
<1>9. Ends'
  <2> SUFFICES ASSUME NEW e \in Direction, op'[e] = "ended"
               PROVE  /\ sendShut
                      /\ \/ fin[Source(e)] /\ taken'[Source(e)] = sent[Source(e)]
                            /\ (e = "down" => Len(got["client"]) = sent["remote"])
                         \/ \E f \in Direction : f # e /\ op'[f] = "ended"
                         \/ lost["client"] \/ lost["remote"]
    BY <1>1 DEF Ends, Source
  <2>1. e # d /\ op[e] = "ended"
    BY <1>4
  <2>2. taken'[Source(e)] = taken[Source(e)]
    BY <1>3, <2>1, Ways
  <2>3. \A f \in Direction : op[f] = "ended" => op'[f] = "ended"
    BY <1>1, <1>4
  <2> QED
    BY <2>1, <2>2, <2>3 DEF Inv, Ends
<1>10. InOrder' /\ GreetingComesFirst'
  BY <1>1 DEF Inv, InOrder, GreetingComesFirst
<1> QED
  BY <1>5, <1>6, <1>7, <1>8, <1>9, <1>10 DEF Inv

\* A chunk is written: it follows what was written before.
LEMMA OnRelayWrittenStep ==
  ASSUME Inv, NEW d \in Direction, OnRelayWritten(d)
  PROVE  Inv'
<1> DEFINE n == taken[Source(d)]
           g == got[Dest(d)]
<1>1. /\ op[d] = "writing"
      /\ got' = [got EXCEPT ![Dest(d)] = Append(g, n)]
      /\ op' = [op EXCEPT ![d] = "reading"]
      /\ UNCHANGED <<mode, secure, unconsumed, stage, greeted, sent, taken, fin,
                     lost, sendShut, shutdowns>>
  BY DEF OnRelayWritten, fixed, closing
<1>2. stage = "relaying" /\ greeted # "no"
  BY <1>1, ActiveRelays DEF Active
<1>3. /\ n \in 1..MaxChunks /\ g \in Seq(1..MaxChunks) /\ Len(g) \in Nat
      /\ g # <<>> => g[Len(g)] = n - 1
      /\ d = "down" \/ mode = "absolute" => Len(g) = n - 1
  BY <1>1, DirectionTyped DEF Inv, Streaming, Active, Through
<1>4. /\ Append(g, n) \in Seq(1..MaxChunks)
      /\ Len(Append(g, n)) = Len(g) + 1
      /\ \A i \in 1..Len(g) : Append(g, n)[i] = g[i]
      /\ Append(g, n)[Len(g) + 1] = n
  BY <1>3, AppendTyped, AppendAt
<1>5. /\ got' \in [Peer -> Seq(1..MaxChunks)]
      /\ got'[Dest(d)] = Append(g, n)
      /\ \A p \in Peer : p # Dest(d) => got'[p] = got[p]
  BY <1>1, <1>4, DirectionTyped
<1>6. /\ op' \in [Direction -> {"idle", "reading", "writing", "doomed", "ended"}]
      /\ op'[d] = "reading" /\ \A e \in Direction : e # d => op'[e] = op[e]
  BY <1>1, DirectionTyped
<1>7. TypeOK'
  BY <1>1, <1>5, <1>6 DEF Inv, TypeOK
<1>8. BeforeRelay'
  BY <1>1, <1>2 DEF BeforeRelay
<1>9. DuringRelay'
  <2>1. sendShut => \E e \in Direction : op'[e] = "ended"
    BY <1>1, <1>6 DEF Inv, DuringRelay
  <2>2. op'["down"] = "doomed" => sendShut
    BY <1>6 DEF Inv, DuringRelay, Direction
  <2>3. op'["up"] # "doomed"
    BY <1>6 DEF Inv, DuringRelay, Direction
  <2> QED
    BY <1>1, <1>2, <2>1, <2>2, <2>3 DEF DuringRelay, Active
<1>10. Streaming'
  <2> SUFFICES ASSUME NEW e \in Direction
               PROVE  /\ taken[Source(e)] <= sent[Source(e)]
                      /\ op'[e] \in Active =>
                           /\ op'[e] # "reading" => taken[Source(e)] >= 1
                           /\ got'[Dest(e)] # <<>> =>
                                got'[Dest(e)][Len(got'[Dest(e)])] = Through(e)'
                           /\ e = "down" \/ mode = "absolute" =>
                                Len(got'[Dest(e)]) = Through(e)'
    BY <1>1 DEF Streaming, Source, Dest
  <2>1. CASE e = d
    <3>1. Through(e)' = n
      BY <1>1, <1>6, <2>1 DEF Through, Source
    <3> QED
      BY <1>3, <1>4, <1>5, <1>6, <2>1, <3>1, DirectionTyped
  <2>2. CASE e # d
    <3>1. Dest(e) # Dest(d) /\ Dest(e) \in Peer
      BY <2>2, Ways
    <3>2. got'[Dest(e)] = got[Dest(e)] /\ op'[e] = op[e]
      BY <1>5, <1>6, <2>2, <3>1
    <3>3. Through(e)' = Through(e)
      BY <1>1, <3>2 DEF Through, Source
    <3> QED
      BY <3>2, <3>3 DEF Inv, Streaming
  <2> QED
    BY <2>1, <2>2
<1>11. Ends'
  <2> SUFFICES ASSUME NEW e \in Direction, op'[e] = "ended"
               PROVE  /\ sendShut
                      /\ \/ fin[Source(e)] /\ taken[Source(e)] = sent[Source(e)]
                            /\ (e = "down" => Len(got'["client"]) = sent["remote"])
                         \/ \E f \in Direction : f # e /\ op'[f] = "ended"
                         \/ lost["client"] \/ lost["remote"]
    BY <1>1 DEF Ends, Source
  <2>1. e # d /\ op[e] = "ended"
    BY <1>6
  <2>2. e = "down" => got'["client"] = got["client"]
    BY <1>5, <2>1, Ways
  <2>3. \A f \in Direction : op[f] = "ended" => op'[f] = "ended"
    BY <1>1, <1>6
  <2> QED
    BY <2>1, <2>2, <2>3 DEF Inv, Ends
<1>12. InOrder'
  <2> SUFFICES ASSUME NEW p \in Peer, NEW i \in 1..Len(got'[p]) - 1
               PROVE  got'[p][i + 1] = got'[p][i] + 1
    BY DEF InOrder
  <2>1. CASE p = Dest(d)
    <3>1. i \in 1..Len(g)
      BY <1>3, <1>4, <1>5, <2>1
    <3>2. CASE i = Len(g)
      <4>1. g # <<>>
        BY <1>3, <3>1
      <4>2. g[Len(g)] = n - 1
        BY <1>3, <4>1
      <4>3. got'[p][i] = g[Len(g)] /\ got'[p][i + 1] = n
        BY <1>4, <1>5, <2>1, <3>1, <3>2
      <4> QED
        BY <1>3, <4>2, <4>3
    <3>3. CASE i # Len(g)
      <4>1. i \in 1..Len(g) - 1 /\ i + 1 \in 1..Len(g)
        BY <1>3, <3>1, <3>3
      <4>2. g[i + 1] = g[i] + 1
        BY <2>1, <4>1 DEF Inv, InOrder
      <4> QED
        BY <1>4, <1>5, <2>1, <3>1, <4>1, <4>2
    <3> QED
      BY <3>2, <3>3
  <2>2. CASE p # Dest(d)
    BY <1>5, <2>2 DEF Inv, InOrder
  <2> QED
    BY <2>1, <2>2
<1>13. GreetingComesFirst'
  BY <1>1, <1>2 DEF GreetingComesFirst
<1> QED
  BY <1>7, <1>8, <1>9, <1>10, <1>11, <1>12, <1>13 DEF Inv

\* A direction ends: its source was exhausted or its write failed.
LEMMA DirectionEnds ==
  ASSUME Inv, NEW d \in Direction, OnRelayReadEnd(d) \/ OnRelayWriteError(d)
  PROVE  Inv'
<1>1. /\ op[d] \in Active
      /\ op' = [op EXCEPT ![d] = "ended"]
      /\ sendShut'
      /\ shutdowns' \in {shutdowns, shutdowns + 1}
      /\ UNCHANGED <<mode, secure, unconsumed, stage, greeted, sent, taken, fin,
                     lost, got>>
  BY DEF OnRelayReadEnd, OnRelayWriteError, do_eof, do_eof_plain, do_eof_ssl,
     fixed, peers, Active
<1>2. stage = "relaying" /\ greeted # "no"
  BY <1>1, ActiveRelays
<1>3. /\ op' \in [Direction -> {"idle", "reading", "writing", "doomed", "ended"}]
      /\ op'[d] = "ended" /\ \A e \in Direction : e # d => op'[e] = op[e]
  BY <1>1, DirectionTyped
<1>4. sendShut' \in BOOLEAN /\ shutdowns' \in Nat
  <2>1. sendShut' = TRUE
    BY DEF OnRelayReadEnd, OnRelayWriteError, do_eof, do_eof_plain, do_eof_ssl
  <2> QED
    BY <1>1, <2>1 DEF Inv, TypeOK
<1>5. \/ fin[Source(d)] /\ taken[Source(d)] = sent[Source(d)]
         /\ op[d] = "reading"
      \/ \E e \in Direction : e # d /\ op[e] = "ended"
      \/ lost["client"] \/ lost["remote"]
  <2>1. CASE OnRelayReadEnd(d)
    BY <2>1 DEF OnRelayReadEnd, Exhausted, Source, Direction
  <2>2. CASE OnRelayWriteError(d)
    <3>1. CASE sendShut
      BY <1>1, <3>1 DEF Inv, DuringRelay, Active
    <3>2. CASE ~sendShut
      <4>1. op[d] # "doomed"
        BY <3>2, Ways DEF Inv, DuringRelay
      <4> QED
        BY <2>2, <3>2, <4>1 DEF OnRelayWriteError, Dest, Direction
    <3> QED
      BY <3>1, <3>2
  <2> QED
    BY <2>1, <2>2
<1>6. TypeOK'
  BY <1>1, <1>3, <1>4 DEF Inv, TypeOK
<1>7. BeforeRelay'
  BY <1>1, <1>2 DEF BeforeRelay
<1>8. DuringRelay'
  BY <1>1, <1>2, <1>3, Ways DEF Inv, DuringRelay, Active
<1>9. Streaming'
  <2> SUFFICES ASSUME NEW e \in Direction
               PROVE  /\ taken[Source(e)] <= sent[Source(e)]
                      /\ op'[e] \in Active =>
                           /\ op'[e] # "reading" => taken[Source(e)] >= 1
                           /\ got[Dest(e)] # <<>> =>
                                got[Dest(e)][Len(got[Dest(e)])] = Through(e)'
                           /\ e = "down" \/ mode = "absolute" =>
                                Len(got[Dest(e)]) = Through(e)'
    BY <1>1 DEF Streaming, Source, Dest
  <2>1. op'[e] \in Active => op'[e] = op[e]
    BY <1>3 DEF Active
  <2>2. op'[e] = op[e] => Through(e)' = Through(e)
    BY <1>1 DEF Through, Source
  <2> QED
    BY <2>1, <2>2 DEF Inv, Streaming
<1>10. Ends'
  <2> SUFFICES ASSUME NEW e \in Direction, op'[e] = "ended"
               PROVE  \/ fin[Source(e)] /\ taken[Source(e)] = sent[Source(e)]
                         /\ (e = "down" => Len(got["client"]) = sent["remote"])
                      \/ \E f \in Direction : f # e /\ op'[f] = "ended"
                      \/ lost["client"] \/ lost["remote"]
    BY <1>1 DEF Ends, Source
  <2>1. \A f \in Direction : op[f] = "ended" => op'[f] = "ended"
    BY <1>3
  <2>2. CASE e = d
    <3>1. CASE fin[Source(d)] /\ taken[Source(d)] = sent[Source(d)]
               /\ op[d] = "reading"
      <4>1. d = "down" => Len(got["client"]) = sent["remote"]
        BY <3>1, Ways DEF Inv, Streaming, Through, Active
      <4> QED
        BY <2>2, <3>1, <4>1
    <3> QED
      BY <1>5, <2>1, <2>2, <3>1
  <2>3. CASE e # d
    BY <1>3, <2>1, <2>3 DEF Inv, Ends
  <2> QED
    BY <2>2, <2>3
<1>11. InOrder' /\ GreetingComesFirst'
  BY <1>1 DEF Inv, InOrder, GreetingComesFirst
<1> QED
  BY <1>6, <1>7, <1>8, <1>9, <1>10, <1>11 DEF Inv

\* The last operations: nothing the streams depend on changes.
LEMMA OnShutdownStep ==
  ASSUME Inv, OnShutdown
  PROVE  Inv'
<1>1. /\ stage = "relaying" /\ shutdowns > 0 /\ shutdowns' = shutdowns - 1
      /\ UNCHANGED <<mode, secure, unconsumed, stage, greeted, op, sent, taken,
                     fin, lost, got, sendShut>>
  BY DEF OnShutdown, fixed, peers
<1>2. TypeOK'
  BY <1>1 DEF Inv, TypeOK
<1> QED
  BY <1>1, <1>2
  DEF Inv, BeforeRelay, DuringRelay, Streaming, Through, Source, Dest, Ends,
      InOrder, GreetingComesFirst

LEMMA DestroyStep ==
  ASSUME Inv, Destroy
  PROVE  Inv'
<1>1. /\ stage = "relaying" /\ stage' = "ended"
      /\ \A d \in Direction : op[d] = "ended"
      /\ UNCHANGED <<mode, secure, unconsumed, greeted, op, sent, taken, fin,
                     lost, got, sendShut, shutdowns>>
  BY DEF Destroy, fixed, peers, closing
<1>2. TypeOK'
  BY <1>1 DEF Inv, TypeOK
<1>3. BeforeRelay' /\ DuringRelay'
  BY <1>1 DEF Inv, BeforeRelay, DuringRelay, Active
<1> QED
  BY <1>1, <1>2, <1>3
  DEF Inv, Streaming, Through, Source, Dest, Ends, InOrder, GreetingComesFirst

\* A peer that has finished sends no more.
LEMMA PeerSendsStep ==
  ASSUME Inv, NEW p \in Peer, PeerSends(p)
  PROVE  Inv'
<1>1. /\ ~fin[p] /\ sent[p] < MaxChunks
      /\ sent' = [sent EXCEPT ![p] = @ + 1]
      /\ UNCHANGED <<mode, secure, unconsumed, stage, greeted, op, taken, fin,
                     lost, got, sendShut, shutdowns>>
  BY DEF PeerSends, fixed, closing
<1>2. sent \in [Peer -> 0..MaxChunks] /\ taken \in [Peer -> 0..MaxChunks]
      /\ MaxChunks \in Nat
  BY BoundsAreNatural DEF Inv, TypeOK
<1>3. /\ sent' \in [Peer -> 0..MaxChunks]
      /\ \A q \in Peer : sent[q] <= sent'[q] /\ (fin[q] => sent'[q] = sent[q])
  BY <1>1, <1>2
<1>4. TypeOK'
  BY <1>1, <1>3 DEF Inv, TypeOK
<1>5. BeforeRelay' /\ DuringRelay'
  BY <1>1 DEF Inv, BeforeRelay, DuringRelay, Dest
<1>6. Streaming'
  <2>1. \A d \in Direction : Through(d)' = Through(d)
    BY <1>1 DEF Through, Source
  <2>2. \A d \in Direction : taken[Source(d)] <= sent'[Source(d)]
    BY <1>2, <1>3, Ways DEF Inv, Streaming
  <2> QED
    BY <1>1, <2>1, <2>2 DEF Inv, Streaming, Source, Dest
<1>7. Ends'
  BY <1>1, <1>3, Ways DEF Inv, Ends
<1> QED
  BY <1>1, <1>4, <1>5, <1>6, <1>7 DEF Inv, InOrder, GreetingComesFirst

\* What only adds reasons to end.
LEMMA PeerEndsStep ==
  ASSUME Inv, NEW p \in Peer, PeerFin(p) \/ Lose(p)
  PROVE  Inv'
<1>1. /\ \/ fin' = [fin EXCEPT ![p] = TRUE] /\ lost' = lost
         \/ lost' = [lost EXCEPT ![p] = TRUE] /\ fin' = fin
      /\ UNCHANGED <<mode, secure, unconsumed, stage, greeted, op, sent, taken,
                     got, sendShut, shutdowns>>
  BY DEF PeerFin, Lose, fixed, closing
<1>2. /\ fin' \in [Peer -> BOOLEAN] /\ lost' \in [Peer -> BOOLEAN]
      /\ \A q \in Peer : (fin[q] => fin'[q]) /\ (lost[q] => lost'[q])
  BY <1>1 DEF Inv, TypeOK
<1>3. TypeOK'
  BY <1>1, <1>2 DEF Inv, TypeOK
<1>4. BeforeRelay' /\ DuringRelay'
  BY <1>1 DEF Inv, BeforeRelay, DuringRelay, Dest
<1>5. Streaming'
  BY <1>1 DEF Inv, Streaming, Through, Source, Dest
<1>6. Ends'
  BY <1>1, <1>2, Ways DEF Inv, Ends
<1> QED
  BY <1>1, <1>3, <1>4, <1>5, <1>6 DEF Inv, InOrder, GreetingComesFirst

LEMMA InvPreserved == Inv /\ [Next]_vars => Inv'
<1> SUFFICES ASSUME Inv, [Next]_vars PROVE Inv'
  OBVIOUS
<1>1. CASE UNCHANGED vars
  BY <1>1
  DEF vars, fixed, peers, closing, Inv, TypeOK, BeforeRelay, DuringRelay,
      Streaming, Through, Source, Dest, Ends, InOrder, GreetingComesFirst
<1>2. CASE SetUp
  BY <1>2, SetUpStep, OnUnconsumedStep DEF SetUp
<1>3. ASSUME NEW d \in Direction, RelayStep(d) PROVE Inv'
  BY <1>3, OnRelayReadStep, OnRelayWrittenStep, DirectionEnds DEF RelayStep
<1>4. ASSUME NEW p \in Peer, PeerSends(p) \/ PeerFin(p) \/ PeerReset(p)
      PROVE  Inv'
  BY <1>4, PeerSendsStep, PeerEndsStep DEF PeerReset
<1>5. CASE ClientTimeout
  BY <1>5, PeerEndsStep DEF ClientTimeout, Peer
<1> QED
  BY <1>1, <1>2, <1>3, <1>4, <1>5, OnShutdownStep, DestroyStep
  DEF Next, Terminated

LEMMA Invariance == Spec => []Inv
BY InvInit, InvPreserved, PTL DEF Spec

\* Every variable of a tunnel keeps its type, for any number of chunks.
THEOREM TunnelTypeCorrect == Spec => []TypeOK
<1>1. Inv => TypeOK
  BY DEF Inv
<1> QED
  BY <1>1, Invariance, PTL

\* Chunks are relayed in order, without a gap or a repetition.
THEOREM StreamsInOrder == Spec => []InOrder
<1>1. Inv => InOrder
  BY DEF Inv
<1> QED
  BY <1>1, Invariance, PTL

\* The 200, or the request, comes before everything that is relayed.
THEOREM GreetingIsFirst == Spec => []GreetingComesFirst
<1>1. Inv => GreetingComesFirst
  BY DEF Inv
<1> QED
  BY <1>1, Invariance, PTL

\* The end of the remote's stream reaches the client after all of it.
THEOREM EndsArePassedOn == Spec => []EndIsPassedOn
<1>1. Inv => EndIsPassedOn
  BY Ways DEF Inv, Ends, EndIsPassedOn
<1> QED
  BY <1>1, Invariance, PTL

-----------------------------------------------------------------------------
(* The refinement of Relay.                                                *)

\* The relay's variables that are not the tunnel's own.
Headless == mode = "connect"

Broken == lost["client"] \/ lost["remote"]

Passed == [p \in Peer |-> got[IF p = "client" THEN "remote" ELSE "client"]]

Ended == [p \in Peer |-> op[IF p = "client" THEN "up" ELSE "down"] = "ended"]

\* Relay's state, in terms of the tunnel's.
LEMMA RelayState ==
  /\ Streams!vars = <<Headless, Broken, sent, fin, Passed, Ended>>
  /\ \A d \in Direction : /\ Passed[Source(d)] = got[Dest(d)]
                          /\ Ended[Source(d)] = (op[d] = "ended")
                          /\ Ended[Streams!Other(Source(d))]
                               = (\E e \in Direction : e # d /\ op[e] = "ended")
  /\ Streams!Peer = Peer
<1>1. Streams!vars = <<Headless, Broken, sent, fin, Passed, Ended>>
  BY DEF Streams!vars, Headless, Broken, Passed, Ended
<1>2. ASSUME NEW d \in Direction
      PROVE  /\ Passed[Source(d)] = got[Dest(d)]
             /\ Ended[Source(d)] = (op[d] = "ended")
             /\ Ended[Streams!Other(Source(d))]
                  = (\E e \in Direction : e # d /\ op[e] = "ended")
  <2>1. CASE d = "up"
    BY <2>1 DEF Passed, Ended, Source, Dest, Peer, Direction, Streams!Other
  <2>2. CASE d = "down"
    BY <2>2 DEF Passed, Ended, Source, Dest, Peer, Direction, Streams!Other
  <2> QED
    BY <2>1, <2>2, Ways
<1>3. Streams!Peer = Peer
  BY DEF Streams!Peer, Peer
<1> QED
  BY <1>1, <1>2, <1>3

LEMMA RelayInit == Init => Streams!Init
<1> SUFFICES ASSUME Init PROVE Streams!Init
  OBVIOUS
<1>1. TypeOK
  BY InvInit DEF Inv
<1>2. /\ Headless \in BOOLEAN /\ Broken \in BOOLEAN
      /\ sent \in [Peer -> Nat]
      /\ fin = [p \in Peer |-> FALSE]
  BY <1>1, BoundsAreNatural DEF TypeOK, Headless, Broken, Init, Peer
<1>3. /\ Passed = [p \in Peer |-> <<>>]
      /\ Ended = [p \in Peer |-> FALSE]
  BY DEF Passed, Ended, Init, Peer, Direction
<1> QED
  BY <1>2, <1>3
  DEF Streams!Init, Streams!Peer, Peer, Headless, Broken, Passed, Ended

\* A step of the tunnel that no stream takes part in.
LEMMA RelayStutters ==
  ASSUME UNCHANGED <<mode, lost, sent, fin, got>>,
         \A d \in Direction : (op'[d] = "ended") = (op[d] = "ended")
  PROVE  UNCHANGED Streams!vars
<1>1. UNCHANGED <<Headless, Broken, Passed>>
  BY DEF Headless, Broken, Passed
<1>2. Ended' = Ended
  BY DEF Ended, Direction
<1> QED
  BY <1>1, <1>2 DEF Streams!vars, Headless, Broken, Passed, Ended

\* One chunk as Relay's Pass writes it.
LEMMA OneChunk ==
  ASSUME NEW S, NEW g \in Seq(S), NEW n \in S, S \subseteq Nat
  PROVE  g \o [i \in 1..n - n + 1 |-> n + i - 1] = Append(g, n)
<1>1. [i \in 1..n - n + 1 |-> n + i - 1] = <<n>>
  OBVIOUS
<1>2. g \o <<n>> = Append(g, n)
  OBVIOUS
<1> QED
  BY <1>1, <1>2

LEMMA WrittenPasses ==
  ASSUME Inv, NEW d \in Direction, OnRelayWritten(d)
  PROVE  Streams!Pass(Source(d))
<1> DEFINE n == taken[Source(d)]
           g == got[Dest(d)]
<1>1. /\ op[d] = "writing"
      /\ got' = [got EXCEPT ![Dest(d)] = Append(g, n)]
      /\ op' = [op EXCEPT ![d] = "reading"]
      /\ UNCHANGED <<mode, sent, fin, lost>>
  BY DEF OnRelayWritten, fixed
<1>2. /\ n \in 1..MaxChunks /\ n \in 1..sent[Source(d)] /\ n \in n..sent[Source(d)]
      /\ g \in Seq(1..MaxChunks) /\ MaxChunks \in Nat /\ Len(g) \in Nat
      /\ g # <<>> => g[Len(g)] = n - 1
      /\ d = "down" \/ mode = "absolute" => Len(g) = n - 1
  BY <1>1, DirectionTyped DEF Inv, Streaming, Active, Through
<1>3. IF g # <<>> THEN n = g[Len(g)] + 1
      ELSE n = 1 \/ (Source(d) = "client" /\ Headless)
  <2>1. CASE g # <<>>
    BY <1>2, <2>1
  <2>2. CASE g = <<>>
    <3>1. Len(g) = 0
      BY <2>2
    <3>2. d = "down" \/ mode = "absolute" => n = 1
      BY <1>2, <3>1
    <3>3. mode # "absolute" => Headless
      BY DEF Inv, TypeOK, Headless
    <3> QED
      BY <2>2, <3>2, <3>3, Ways
  <2> QED
    BY <2>1, <2>2
<1>4. Streams!MayFollow(Source(d), n)
  BY <1>3, RelayState DEF Streams!MayFollow, Headless, Passed
<1>5. Append(g, n) = g \o [i \in 1..n - n + 1 |-> n + i - 1]
  <2>1. 1..MaxChunks \subseteq Nat
    BY <1>2
  <2> QED
    BY <1>2, <2>1, OneChunk
<1>6. Passed' = [Passed EXCEPT ![Source(d)] =
                   @ \o [i \in 1..n - n + 1 |-> n + i - 1]]
  <2>1. /\ got'[Dest(d)] = Append(g, n)
        /\ \A p \in Peer : p # Dest(d) => got'[p] = got[p]
    BY <1>1, DirectionTyped
  <2>2. /\ Passed'[Source(d)] = got'[Dest(d)]
        /\ \A p \in Peer : p # Source(d) => Passed'[p] = Passed[p]
    BY <2>1, Ways DEF Passed, Source, Dest, Direction, Peer
  <2>3. Passed[Source(d)] = g /\ Source(d) \in Peer
    BY RelayState, Ways
  <2> HIDE DEF n, g
  <2>4. /\ Passed' = [p \in Peer |-> Passed'[p]]
        /\ Passed = [p \in Peer |-> Passed[p]]
    BY DEF Passed
  <2> DEFINE h == [i \in 1..n - n + 1 |-> n + i - 1]
  <2>5. Passed'[Source(d)] = Passed[Source(d)] \o h
    BY <1>5, <2>1, <2>2, <2>3
  <2> HIDE DEF h
  <2>6. Passed' = [Passed EXCEPT ![Source(d)] = @ \o h]
    BY <2>2, <2>3, <2>4, <2>5
  <2> QED
    BY <2>6 DEF h
<1>7. ~Ended[Source(d)] /\ Ended' = Ended
  <2>1. \A e \in Direction : (op'[e] = "ended") = (op[e] = "ended")
    BY <1>1, DirectionTyped
  <2>2. Ended' = Ended
    BY <2>1 DEF Ended, Direction
  <2> QED
    BY <1>1, <2>2, RelayState
<1>8. Headless' = Headless /\ Broken' = Broken
  BY <1>1 DEF Headless, Broken
<1> QED
  BY <1>1, <1>2, <1>4, <1>6, <1>7, <1>8
  DEF Streams!Pass, Headless, Broken, Passed, Ended

\* buffer_ is passed on as one run of chunks, if it holds any.
LEMMA UnconsumedPasses ==
  ASSUME Inv, OnUnconsumed
  PROVE  [Streams!Next]_Streams!vars
<1> DEFINE u == unconsumed
           h == [i \in 1..u |-> i]
<1>1. /\ stage = "unconsumed"
      /\ got' = [got EXCEPT !["remote"] = @ \o h]
      /\ op' = [d \in Direction |-> "reading"]
      /\ UNCHANGED <<mode, sent, fin, lost>>
  BY DEF OnUnconsumed, Goes, fixed
<1>2. /\ \A d \in Direction : op[d] = "idle" /\ got[Dest(d)] = <<>>
      /\ u = (IF mode = "absolute" THEN taken["client"] ELSE 0)
  BY <1>1 DEF Inv, BeforeRelay
<1>3. /\ u \in Nat /\ taken["client"] <= sent["client"]
      /\ sent["client"] \in Nat /\ got["remote"] = <<>>
      /\ got \in [Peer -> Seq(1..MaxChunks)]
  BY <1>2, Ways, DirectionTyped, BoundsAreNatural
  DEF Inv, TypeOK, Streaming
<1>4. \A d \in Direction : (op'[d] = "ended") = (op[d] = "ended")
  BY <1>1, <1>2
<1>5. Ended' = Ended /\ ~Ended["client"]
  BY <1>2, <1>4 DEF Ended, Direction, Peer
<1>6. Headless' = Headless /\ Broken' = Broken
  BY <1>1 DEF Headless, Broken
<1>7. <<>> \o h = h
  BY <1>3
<1>8. got'["remote"] = h /\ got'["client"] = got["client"]
  BY <1>1, <1>3, <1>7 DEF Peer
<1>9. CASE u = 0
  <2>1. h = <<>>
    BY <1>9
  <2>2. Passed' = Passed
    BY <1>3, <1>8, <2>1 DEF Passed, Peer
  <2> QED
    BY <1>1, <1>5, <1>6, <2>2 DEF Streams!vars, Headless, Broken, Passed, Ended
<1>10. CASE u # 0
  <2>1. 1 \in 1..sent["client"] /\ u \in 1..sent["client"]
    BY <1>2, <1>3, <1>10
  <2>2. Passed["client"] = <<>>
    BY <1>3 DEF Passed, Peer
  <2>3. Streams!MayFollow("client", 1)
    BY <2>2 DEF Streams!MayFollow, Passed
  <2>4. [i \in 1..u - 1 + 1 |-> 1 + i - 1] = h
    BY <1>3
  <2>5. /\ Passed'["client"] = h /\ Passed'["remote"] = Passed["remote"]
        /\ Passed' = [p \in Peer |-> Passed'[p]]
        /\ Passed = [p \in Peer |-> Passed[p]]
    BY <1>8 DEF Passed, Peer
  <2> DEFINE k == [i \in 1..u - 1 + 1 |-> 1 + i - 1]
  <2>6. Passed["client"] \o k = h
    BY <1>7, <2>2, <2>4
  <2> HIDE DEF h, k
  <2>7. Passed' = [Passed EXCEPT !["client"] = @ \o k]
    BY <2>5, <2>6 DEF Peer
  <2>8. Streams!Pass("client")
    BY <1>1, <1>5, <1>6, <2>1, <2>3, <2>7
    DEF Streams!Pass, Headless, Broken, Passed, Ended, k
  <2> QED
    BY <2>8 DEF Streams!Next, Streams!Peer
<1> QED
  BY <1>9, <1>10

\* A direction ends when its source has, after all of it, or for a reason
\* Relay knows.
LEMMA EndEnds ==
  ASSUME Inv, NEW d \in Direction, OnRelayReadEnd(d) \/ OnRelayWriteError(d)
  PROVE  Streams!End(Source(d))
<1>1. /\ op[d] \in Active
      /\ op' = [op EXCEPT ![d] = "ended"]
      /\ UNCHANGED <<mode, sent, fin, lost, got>>
  BY DEF OnRelayReadEnd, OnRelayWriteError, fixed, peers, Active
<1>2. \/ fin[Source(d)] /\ taken[Source(d)] = sent[Source(d)] /\ op[d] = "reading"
      \/ \E e \in Direction : e # d /\ op[e] = "ended"
      \/ Broken
  <2>1. CASE OnRelayReadEnd(d)
    BY <2>1 DEF OnRelayReadEnd, Exhausted, Source, Direction, Broken
  <2>2. CASE OnRelayWriteError(d)
    <3>1. CASE sendShut
      BY <1>1, <3>1 DEF Inv, DuringRelay, Active
    <3>2. CASE ~sendShut
      <4>1. op[d] # "doomed"
        BY <3>2, Ways DEF Inv, DuringRelay
      <4> QED
        BY <2>2, <3>2, <4>1 DEF OnRelayWriteError, Dest, Direction, Broken
    <3> QED
      BY <3>1, <3>2
  <2> QED
    BY <2>1, <2>2
<1>3. fin[Source(d)] /\ taken[Source(d)] = sent[Source(d)] /\ op[d] = "reading"
        => fin[Source(d)] /\ Streams!AllPassed(Source(d))
  <2> SUFFICES ASSUME taken[Source(d)] = sent[Source(d)], op[d] = "reading"
               PROVE  Streams!AllPassed(Source(d))
    OBVIOUS
  <2>1. /\ got[Dest(d)] # <<>> => got[Dest(d)][Len(got[Dest(d)])] = sent[Source(d)]
        /\ d = "down" \/ mode = "absolute" => Len(got[Dest(d)]) = sent[Source(d)]
    BY DEF Inv, Streaming, Active, Through
  <2>2. mode # "absolute" => Headless
    BY DEF Inv, TypeOK, Headless
  <2>3. CASE got[Dest(d)] # <<>>
    BY <2>1, <2>3, RelayState DEF Streams!AllPassed, Passed
  <2>4. CASE got[Dest(d)] = <<>>
    <3>1. Passed[Source(d)] = <<>>
      BY <2>4, RelayState
    <3>2. d = "down" \/ mode = "absolute" => sent[Source(d)] = 0
      BY <2>1, <2>4
    <3>3. sent[Source(d)] = 0 \/ (Source(d) = "client" /\ Headless)
      BY <2>2, <3>2, Ways
    <3> QED
      BY <3>1, <3>3 DEF Streams!AllPassed, Passed, Headless
  <2> QED
    BY <2>3, <2>4
<1>4. ~Ended[Source(d)]
  BY <1>1, RelayState DEF Active
<1>5. Ended' = [Ended EXCEPT ![Source(d)] = TRUE]
  <2>1. op'[d] = "ended" /\ \A e \in Direction : e # d => op'[e] = op[e]
    BY <1>1, DirectionTyped
  <2>2. /\ Ended'[Source(d)] = TRUE
        /\ \A p \in Peer : p # Source(d) => Ended'[p] = Ended[p]
    BY <2>1, Ways DEF Ended, Source, Direction, Peer
  <2>3. /\ Ended' = [p \in Peer |-> Ended'[p]]
        /\ Ended = [p \in Peer |-> Ended[p]]
    BY DEF Ended
  <2> QED
    BY <2>2, <2>3, Ways
<1>6. UNCHANGED <<Headless, Broken, Passed>>
  BY <1>1 DEF Headless, Broken, Passed
<1>7. \/ fin[Source(d)] /\ Streams!AllPassed(Source(d))
      \/ Broken
      \/ Ended[Streams!Other(Source(d))]
  BY <1>2, <1>3, RelayState
<1> QED
  BY <1>1, <1>4, <1>5, <1>6, <1>7
  DEF Streams!End, Headless, Broken, Passed, Ended

LEMMA PeerStepsRelay ==
  ASSUME Inv, NEW p \in Peer, PeerSends(p) \/ PeerFin(p) \/ Lose(p)
  PROVE  [Streams!Next]_Streams!vars
<1>1. UNCHANGED <<Headless, Passed, Ended>>
  BY DEF PeerSends, PeerFin, Lose, fixed, Headless, Passed, Ended
<1>2. CASE PeerSends(p)
  <2>1. Streams!Send(p)
    BY <1>1, <1>2
    DEF PeerSends, Streams!Send, Headless, Passed, Ended
  <2> QED
    BY <2>1, RelayState DEF Streams!Next
<1>3. CASE PeerFin(p)
  <2>1. Streams!Finish(p)
    BY <1>1, <1>3
    DEF PeerFin, Streams!Finish, Headless, Passed, Ended
  <2> QED
    BY <2>1, RelayState DEF Streams!Next
<1>4. CASE Lose(p)
  <2>1. Broken' = TRUE
    BY <1>4 DEF Lose, Broken, Peer, Inv, TypeOK
  <2>2. Streams!Break
    BY <1>1, <1>4, <2>1
    DEF Lose, Streams!Break, Headless, Broken, Passed, Ended
  <2> QED
    BY <2>2 DEF Streams!Next
<1> QED
  BY <1>2, <1>3, <1>4

LEMMA TunnelStepsRelay ==
  Inv /\ [Next]_vars => [Streams!Next]_Streams!vars
<1> SUFFICES ASSUME Inv, [Next]_vars PROVE [Streams!Next]_Streams!vars
  OBVIOUS
<1>1. CASE UNCHANGED vars
  BY <1>1, RelayStutters DEF vars, fixed, peers
<1>2. CASE SetUp
  <2>1. CASE OnUnconsumed
    BY <2>1, UnconsumedPasses
  <2>2. CASE ~OnUnconsumed
    BY <1>2, <2>2, RelayStutters
    DEF SetUp, Start, OnResolve, OnConnect, OnGreeted, OnGreetError,
        OnUnconsumedError, fixed, peers
  <2> QED
    BY <2>1, <2>2
<1>3. ASSUME NEW d \in Direction, RelayStep(d)
      PROVE  [Streams!Next]_Streams!vars
  <2>1. CASE OnRelayRead(d)
    <3>1. /\ op[d] = "reading"
          /\ op' = [op EXCEPT ![d] = IF d = "down" /\ sendShut THEN "doomed"
                                     ELSE "writing"]
          /\ UNCHANGED <<mode, lost, sent, fin, got>>
      BY <2>1 DEF OnRelayRead, fixed
    <3>2. \A e \in Direction : (op'[e] = "ended") = (op[e] = "ended")
      BY <3>1, DirectionTyped
    <3> QED
      BY <3>1, <3>2, RelayStutters
  <2>2. CASE OnRelayWritten(d)
    BY <2>2, WrittenPasses, Ways, RelayState DEF Streams!Next
  <2>3. CASE OnRelayReadEnd(d) \/ OnRelayWriteError(d)
    BY <2>3, EndEnds, Ways, RelayState DEF Streams!Next
  <2> QED
    BY <1>3, <2>1, <2>2, <2>3 DEF RelayStep
<1>4. ASSUME NEW p \in Peer, PeerSends(p) \/ PeerFin(p) \/ PeerReset(p)
      PROVE  [Streams!Next]_Streams!vars
  BY <1>4, PeerStepsRelay DEF PeerReset
<1>5. CASE ClientTimeout
  BY <1>5, PeerStepsRelay DEF ClientTimeout, Peer
<1>6. CASE OnShutdown \/ Destroy \/ Terminated
  BY <1>6, RelayStutters
  DEF OnShutdown, Destroy, Terminated, vars, fixed, peers
<1> QED
  BY <1>1, <1>2, <1>3, <1>4, <1>5, <1>6 DEF Next

\* Both copiers implement the relay, for any number of chunks: in order,
\* without a gap, and with no end before everything that came before it.
THEOREM TunnelImplementsRelay == Spec => ImplementsRelay
BY RelayInit, TunnelStepsRelay, Invariance, PTL DEF Spec, ImplementsRelay, Streams!Spec

-----------------------------------------------------------------------------
(* Where the remote's stream starts.                                       *)

\* http_copier passes on what came with the request's header, socket_copier
\* does not; nothing came with it when the client waits for its answer.
NothingForgotten == mode = "absolute" \/ taken["client"] = 0

\* The first chunk of the client is the first that is written to the remote.
FirstIsFirst ==
  /\ stage \in {"created", "resolving", "connecting", "greeting", "unconsumed"}
       => NothingForgotten
  /\ StartsAtTheStart
  /\ op["up"] \in Active /\ got["remote"] = <<>> => Through("up") = 0

\* A step of the direction from the client to the remote.
LEMMA UpStep ==
  ASSUME Inv, FirstIsFirst, OnRelayRead("up") \/ OnRelayWritten("up")
  PROVE  FirstIsFirst'
<1>1. /\ taken["client"] \in 0..MaxChunks /\ MaxChunks \in Nat
      /\ taken \in [Peer -> 0..MaxChunks]
      /\ got \in [Peer -> Seq(1..MaxChunks)]
      /\ got["remote"] \in Seq(1..MaxChunks)
      /\ "client" \in Peer /\ "remote" \in Peer
      /\ op \in [Direction -> {"idle", "reading", "writing", "doomed", "ended"}]
      /\ "up" \in Direction
      /\ op["up"] # "reading" /\ op["up"] \in Active => taken["client"] >= 1
  BY Ways, BoundsAreNatural DEF Inv, TypeOK, Streaming
<1>2. op["up"] \in {"reading", "writing"} /\ stage' = stage
  BY DEF OnRelayRead, OnRelayWritten
<1>3. stage = "relaying"
  BY <1>2, ActiveRelays, Ways DEF Active
<1>4. CASE OnRelayRead("up")
  <2>1. /\ op["up"] = "reading" /\ op'["up"] = "writing" /\ got' = got
        /\ taken'["client"] = taken["client"] + 1
    BY <1>1, <1>4, Ways DEF OnRelayRead
  <2>2. Through("up")' = taken'["client"] - 1 /\ Through("up") = taken["client"]
    BY <2>1 DEF Through, Source
  <2>3. Through("up")' = Through("up")
    BY <1>1, <2>1, <2>2
  <2> QED
    BY <1>2, <1>3, <2>1, <2>3 DEF FirstIsFirst, StartsAtTheStart, Active
<1>5. CASE OnRelayWritten("up")
  <2> DEFINE n == taken["client"]
  <2>1. /\ op["up"] = "writing" /\ op'["up"] = "reading"
        /\ got'["remote"] = Append(got["remote"], n)
        /\ taken' = taken
    BY <1>1, <1>5, Ways DEF OnRelayWritten
  <2>2. n \in 1..MaxChunks
    BY <1>1, <2>1 DEF Active
  <2> HIDE DEF n
  <2>3. /\ Len(Append(got["remote"], n)) = Len(got["remote"]) + 1
        /\ \A i \in 1..Len(got["remote"]) :
             Append(got["remote"], n)[i] = got["remote"][i]
        /\ Append(got["remote"], n)[Len(got["remote"]) + 1] = n
        /\ Len(got["remote"]) \in Nat
    BY <1>1, <2>2, AppendAt
  <2>4. got'["remote"] # <<>>
    <3>1. Len(got'["remote"]) # 0
      BY <2>1, <2>3
    <3> QED
      BY <3>1
  <2>5. got'["remote"][1] = 1
    <3>1. CASE Len(got["remote"]) = 0
      <4>1. got["remote"] = <<>>
        BY <1>1, <3>1
      <4>2. Through("up") = 0 /\ Through("up") = n - 1
        BY <2>1, <4>1 DEF FirstIsFirst, Active, Through, Source, n
      <4> QED
        BY <2>1, <2>2, <2>3, <3>1, <4>2
    <3>2. CASE Len(got["remote"]) # 0
      <4>1. got["remote"] # <<>> /\ 1 \in 1..Len(got["remote"])
        BY <2>3, <3>2
      <4> QED
        BY <2>1, <2>3, <4>1 DEF FirstIsFirst, StartsAtTheStart
    <3> QED
      BY <3>1, <3>2
  <2> QED
    BY <1>2, <1>3, <2>4, <2>5 DEF FirstIsFirst, StartsAtTheStart
<1> QED
  BY <1>4, <1>5

\* No step lets the remote's stream start later.
LEMMA FirstKept == Inv /\ FirstIsFirst /\ [Next]_vars => FirstIsFirst'
<1> SUFFICES ASSUME Inv, FirstIsFirst, [Next]_vars PROVE FirstIsFirst'
  OBVIOUS
<1>0. /\ got \in [Peer -> Seq(1..MaxChunks)]
      /\ op \in [Direction -> {"idle", "reading", "writing", "doomed", "ended"}]
      /\ taken \in [Peer -> 0..MaxChunks]
      /\ "client" \in Peer /\ "remote" \in Peer /\ "up" \in Direction
      /\ "down" \in Direction /\ Direction = {"up", "down"}
  BY Ways DEF Inv, TypeOK
<1>1. CASE \/ UNCHANGED vars \/ Start \/ OnResolve \/ OnConnect \/ OnGreeted
           \/ OnGreetError \/ OnUnconsumedError \/ OnShutdown \/ Destroy
           \/ ClientTimeout \/ Terminated
           \/ \E p \in Peer : PeerSends(p) \/ PeerFin(p) \/ PeerReset(p)
  <2>1. /\ UNCHANGED <<mode, op, taken, got>>
        /\ \/ stage' = stage
           \/ stage' \in {"ended", "thrown"}
           \/ stage \in {"created", "resolving", "connecting", "greeting"}
    BY <1>1
    DEF vars, fixed, peers, closing, Start, StartConnect, StartAbsolute,
        OnResolve, OnConnect, OnGreeted, OnGreetError, OnUnconsumedError, Goes,
        OnShutdown, Destroy, ClientTimeout, Terminated, Lose, PeerSends,
        PeerFin, PeerReset
  <2> QED
    BY <2>1
    DEF FirstIsFirst, NothingForgotten, StartsAtTheStart, Through, Source
<1>2. CASE OnUnconsumed
  <2> DEFINE head == [i \in 1..unconsumed |-> i]
  <2>1. /\ stage = "unconsumed" /\ stage' = "relaying" /\ op'["up"] = "reading"
        /\ got'["remote"] = got["remote"] \o head /\ taken' = taken
    BY <1>0, <1>2 DEF OnUnconsumed, Goes
  <2>2. /\ got["remote"] = <<>> /\ NothingForgotten
        /\ unconsumed = (IF mode = "absolute" THEN taken["client"] ELSE 0)
        /\ unconsumed \in Nat
    BY <2>1, Ways, BoundsAreNatural
    DEF Inv, BeforeRelay, FirstIsFirst, TypeOK
  <2>3. got'["remote"] = head /\ unconsumed = taken["client"]
    BY <2>1, <2>2 DEF NothingForgotten
  <2>4. head # <<>> => head[1] = 1
    BY <2>2
  <2>5. head = <<>> => unconsumed = 0
    BY <2>2
  <2> HIDE DEF head
  <2>6. Through("up")' = taken["client"]
    BY <2>1 DEF Through, Source
  <2> QED
    BY <2>1, <2>3, <2>4, <2>5, <2>6 DEF FirstIsFirst, StartsAtTheStart
<1>3. CASE \E d \in Direction : OnRelayReadEnd(d) \/ OnRelayWriteError(d)
  <2>1. /\ UNCHANGED <<mode, stage, taken, got>>
        /\ op'["up"] \in {op["up"], "ended"}
    BY <1>0, <1>3 DEF OnRelayReadEnd, OnRelayWriteError, fixed, peers
  <2> QED
    BY <2>1
    DEF FirstIsFirst, NothingForgotten, StartsAtTheStart, Through, Source, Active
<1>4. CASE OnRelayRead("down") \/ OnRelayWritten("down")
  <2>1. /\ mode' = mode /\ stage' = stage /\ op'["up"] = op["up"]
        /\ taken'["client"] = taken["client"] /\ got'["remote"] = got["remote"]
    BY <1>0, <1>4, Ways DEF OnRelayRead, OnRelayWritten, fixed
  <2> QED
    BY <2>1
    DEF FirstIsFirst, NothingForgotten, StartsAtTheStart, Through, Source
<1> QED
  BY <1>0, <1>1, <1>2, <1>3, <1>4, UpStep DEF Next, SetUp, RelayStep

\* The remote's stream starts at the client's first chunk in a request with an
\* absolute target, and in a CONNECT tunnel whose client sends nothing before
\* it is answered: what TunnelBuffer.cfg finds needs CONNECT and early bytes.
THEOREM NothingEarlyNothingLost ==
  Spec /\ NothingForgotten => []StartsAtTheStart
<1>1. Init /\ NothingForgotten => FirstIsFirst
  <2>1. Init => got["remote"] = <<>> /\ op["up"] = "idle"
    BY Ways DEF Init
  <2> QED
    BY <2>1 DEF FirstIsFirst, StartsAtTheStart, Active
<1>2. FirstIsFirst => StartsAtTheStart
  BY DEF FirstIsFirst
<1>3. Spec => Init /\ [][Next]_vars
  BY DEF Spec
<1> QED
  BY <1>1, <1>2, <1>3, FirstKept, Invariance, PTL

-----------------------------------------------------------------------------
(* How a tunnel that has lost a peer ends.                                 *)

\* Every direction of a relay has been started; each has called do_eof at most
\* once; the remote is there to be lost once the copier is connected.
Shape ==
  /\ stage = "relaying" => \A d \in Direction : op[d] # "idle"
  /\ shutdowns <= (IF op["up"] = "ended" THEN 1 ELSE 0)
                  + (IF op["down"] = "ended" THEN 1 ELSE 0)
  /\ lost["remote"] => stage \notin {"created", "resolving", "connecting"}

\* The ways of a direction.
Moves(d) ==
  \/ op'[d] = op[d] /\ taken'[Source(d)] = taken[Source(d)]
  \/ op[d] = "reading" /\ op'[d] = "ended"
  \/ op[d] = "reading" /\ op'[d] \in {"writing", "doomed"} /\ ~lost[Source(d)]
  \/ op[d] = "writing" /\ op'[d] = "reading" /\ ~lost[Dest(d)]
  \/ op[d] \in {"writing", "doomed"} /\ op'[d] = "ended"

\* What a step may do to a relay and to its peers.
RelayMoves ==
  /\ \/ stage' = "relaying"
     \/ stage' = "ended" /\ UNCHANGED <<op, shutdowns>>
  /\ \A d \in Direction : Moves(d)
  /\ \A q \in Peer : /\ lost[q] => lost'[q]
                     /\ sent'[q] >= sent[q]
                     /\ fin[q] => fin'[q] /\ sent'[q] = sent[q]
  /\ \/ shutdowns' = shutdowns
     \/ shutdowns' = shutdowns - 1 /\ shutdowns > 0
     \/ /\ shutdowns' = shutdowns + 1
        /\ \E d \in Direction : op[d] # "ended" /\ op'[d] = "ended"

LEMMA CountsGrow ==
  ASSUME NEW old \in [Peer -> Nat], NEW new,
         new = old \/ \E r \in Peer : new = [old EXCEPT ![r] = @ + 1]
  PROVE  \A q \in Peer : new[q] >= old[q]
<1>1. CASE new = old
  BY <1>1
<1>2. ASSUME NEW r \in Peer, new = [old EXCEPT ![r] = @ + 1]
      PROVE  \A q \in Peer : new[q] >= old[q]
  BY <1>2
<1> QED
  BY <1>1, <1>2

LEMMA RelayingStep ==
  ASSUME Inv, stage = "relaying", [Next]_vars
  PROVE  RelayMoves
<1> USE DEF Inv, TypeOK
<1>1. ~SetUp
  BY DEF SetUp, Start, StartConnect, StartAbsolute, Goes, OnResolve, OnConnect,
     OnGreeted, OnGreetError, OnUnconsumed, OnUnconsumedError
<1>2. ASSUME NEW d \in Direction, RelayStep(d)
      PROVE  /\ stage' = stage /\ UNCHANGED <<sent, fin, lost>>
             /\ op' = [op EXCEPT ![d] = op'[d]]
             /\ \/ /\ op[d] = "reading" /\ op'[d] \in {"writing", "doomed"}
                   /\ ~lost[Source(d)]
                   /\ \A q \in Peer \ {Source(d)} : taken'[q] = taken[q]
                   /\ UNCHANGED shutdowns
                \/ /\ op[d] = "reading" /\ op'[d] = "ended" /\ UNCHANGED taken
                   /\ do_eof
                \/ /\ op[d] = "writing" /\ op'[d] = "reading" /\ ~lost[Dest(d)]
                   /\ UNCHANGED <<taken, shutdowns>>
                \/ /\ op[d] \in {"writing", "doomed"} /\ op'[d] = "ended"
                   /\ UNCHANGED taken
                   /\ do_eof
  <2>1. Source(d) \in Peer /\ Dest(d) \in Peer
    BY Ways
  <2>2. CASE OnRelayRead(d)
    BY <2>1, <2>2 DEF OnRelayRead, closing
  <2>3. CASE OnRelayReadEnd(d)
    BY <2>3 DEF OnRelayReadEnd, peers
  <2>4. CASE OnRelayWritten(d)
    BY <2>4 DEF OnRelayWritten, closing
  <2>5. CASE OnRelayWriteError(d)
    BY <2>5 DEF OnRelayWriteError, peers
  <2> QED
    BY <1>2, <2>2, <2>3, <2>4, <2>5 DEF RelayStep
<1>3. CASE \E d \in Direction : RelayStep(d)
  <2>1. PICK d \in Direction : RelayStep(d)
    BY <1>3
  <2>2. op' = [op EXCEPT ![d] = op'[d]] /\ stage' = stage
        /\ UNCHANGED <<sent, fin, lost>>
    BY <1>2, <2>1
  <2>3. \A e \in Direction : e # d => op'[e] = op[e] /\ Source(e) # Source(d)
    BY <2>2, Ways
  <2>4. \A e \in Direction : e # d => taken'[Source(e)] = taken[Source(e)]
    BY <1>2, <2>1, <2>3, Ways
  <2>5. \/ shutdowns' = shutdowns
        \/ /\ shutdowns' = shutdowns + 1
           /\ op[d] # "ended" /\ op'[d] = "ended"
    BY <1>2, <2>1 DEF do_eof, do_eof_plain, do_eof_ssl
  <2>6. \A q \in Peer : sent'[q] >= sent[q]
    BY <2>2
  <2>7. Moves(d)
    BY <1>2, <2>1 DEF Moves
  <2>8. \A e \in Direction : Moves(e)
    BY <2>3, <2>4, <2>7 DEF Moves
  <2> QED
    BY <2>2, <2>5, <2>6, <2>8 DEF RelayMoves
<1>4. CASE OnShutdown
  BY <1>4 DEF OnShutdown, peers, RelayMoves, Moves
<1>5. CASE Destroy \/ Terminated \/ UNCHANGED vars
  BY <1>5 DEF Destroy, Terminated, vars, peers, closing, RelayMoves, Moves
<1>6. CASE \/ \E q \in Peer : PeerSends(q) \/ PeerFin(q) \/ PeerReset(q)
           \/ ClientTimeout
  <2>1. UNCHANGED <<stage, op, taken, shutdowns>>
    BY <1>6
    DEF PeerSends, PeerFin, PeerReset, ClientTimeout, Lose, closing
  <2>2. \A q \in Peer : /\ lost[q] => lost'[q]
                        /\ fin[q] => fin'[q] /\ sent'[q] = sent[q]
    BY <1>6 DEF PeerSends, PeerFin, PeerReset, ClientTimeout, Lose
  <2>3. \A q \in Peer : sent'[q] >= sent[q]
    <3>1. sent \in [Peer -> Nat]
      BY BoundsAreNatural
    <3>2. \/ sent' = sent
          \/ \E r \in Peer : sent' = [sent EXCEPT ![r] = @ + 1]
      BY <1>6 DEF PeerSends, PeerFin, PeerReset, ClientTimeout, Lose
    <3> QED
      BY <3>1, <3>2, CountsGrow
  <2> QED
    BY <2>1, <2>2, <2>3 DEF RelayMoves, Moves
<1> QED
  BY <1>1, <1>3, <1>4, <1>5, <1>6 DEF Next

\* What a step does before the relay, or after it.
LEMMA OtherStep ==
  ASSUME Inv, stage # "relaying", [Next]_vars
  PROVE  /\ shutdowns' = shutdowns
         /\ \/ op' = op /\ stage' # "relaying"
            \/ op' = [d \in Direction |-> "reading"] /\ shutdowns = 0
         /\ stage' \in {"created", "resolving", "connecting"} =>
              /\ stage \in {"created", "resolving", "connecting"}
              /\ lost'["remote"] = lost["remote"]
<1> USE DEF Inv, TypeOK
<1>1. CASE OnUnconsumed
  BY <1>1 DEF OnUnconsumed, Goes, closing, BeforeRelay
<1>2. CASE SetUp /\ ~OnUnconsumed
  BY <1>2
  DEF SetUp, Start, StartConnect, StartAbsolute, Goes, OnResolve, OnConnect,
      OnGreeted, OnGreetError, OnUnconsumedError, peers, closing
<1>3. ~\E d \in Direction : RelayStep(d)
  BY DEF RelayStep, OnRelayRead, OnRelayReadEnd, OnRelayWritten,
     OnRelayWriteError, DuringRelay, Active
<1>4. ~OnShutdown /\ ~Destroy
  BY DEF OnShutdown, Destroy
<1>5. CASE \/ \E q \in Peer : PeerSends(q) \/ PeerFin(q)
           \/ Terminated \/ UNCHANGED vars
  BY <1>5 DEF PeerSends, PeerFin, Terminated, vars, peers, closing
<1>6. CASE (\E q \in Peer : PeerReset(q)) \/ ClientTimeout
  BY <1>6 DEF PeerReset, ClientTimeout, Connected, Lose, closing, Peer
<1> QED
  BY <1>1, <1>2, <1>3, <1>4, <1>5, <1>6 DEF Next

LEMMA ShapeKept == Inv /\ Shape /\ [Next]_vars => Shape'
<1> SUFFICES ASSUME Inv, Shape, [Next]_vars PROVE Shape'
  OBVIOUS
<1>1. Direction = {"up", "down"} /\ shutdowns \in Nat /\ "remote" \in Peer
  BY DEF Direction, Inv, TypeOK, Peer
<1>2. CASE stage = "relaying"
  <2>1. RelayMoves
    BY <1>2, RelayingStep
  <2>2. \A d \in Direction :
          /\ op[d] # "idle" /\ op'[d] # "idle"
          /\ op[d] = "ended" => op'[d] = "ended"
    BY <1>2, <2>1 DEF RelayMoves, Moves, Shape
  <2>3. shutdowns' <= (IF op'["up"] = "ended" THEN 1 ELSE 0)
                      + (IF op'["down"] = "ended" THEN 1 ELSE 0)
    BY <1>1, <2>1, <2>2 DEF RelayMoves, Shape
  <2>4. stage' \notin {"created", "resolving", "connecting"}
    BY <2>1 DEF RelayMoves
  <2> QED
    BY <2>2, <2>3, <2>4 DEF Shape
<1>3. CASE stage # "relaying"
  <2>1. /\ shutdowns' = shutdowns
        /\ \/ op' = op /\ stage' # "relaying"
           \/ op' = [d \in Direction |-> "reading"] /\ shutdowns = 0
        /\ stage' \in {"created", "resolving", "connecting"} =>
             /\ stage \in {"created", "resolving", "connecting"}
             /\ lost'["remote"] = lost["remote"]
    BY <1>3, OtherStep
  <2> QED
    BY <1>1, <2>1 DEF Shape
<1> QED
  BY <1>2, <1>3

LEMMA ShapeInvariance == Spec => [](Inv /\ Shape)
<1>1. Init => Shape
  BY DEF Init, Shape, Direction, Peer
<1> QED
  BY <1>1, ShapeKept, Invariance, PTL DEF Spec

LEMMA FairParts ==
  FairSpec =>
    /\ [][Next]_vars /\ [](Inv /\ Shape)
    /\ WF_vars(OnGreetError)
    /\ WF_vars(unconsumed = 0 /\ OnUnconsumed) /\ WF_vars(OnUnconsumedError)
    /\ WF_vars(OnRelayReadEnd("up")) /\ WF_vars(OnRelayWriteError("up"))
    /\ WF_vars(OnRelayRead("down"))
    /\ WF_vars(OnRelayReadEnd("down")) /\ WF_vars(OnRelayWriteError("down"))
    /\ WF_vars(OnShutdown) /\ WF_vars(Destroy) /\ WF_vars(ClientTimeout)
BY ShapeInvariance, PTL DEF FairSpec, Spec, Fairness, DirectionFairness

\* The states in which, by their guards, the handlers of a copier that is
\* ending can run.
GreetingFails ==
  stage = "greeting" /\ lost[IF mode = "connect" THEN "client" ELSE "remote"]

NothingBuffered == stage = "unconsumed" /\ unconsumed = 0

BufferFails == stage = "unconsumed" /\ unconsumed > 0 /\ lost["remote"]

HasMore ==
  op["down"] = "reading" /\ ~lost["remote"] /\ taken["remote"] < sent["remote"]

ReadFails(d) == op[d] = "reading" /\ Exhausted(Source(d))

WriteFails(d) ==
  \/ op[d] = "doomed"
  \/ op[d] = "writing" /\ (lost[Dest(d)] \/ (d = "down" /\ sendShut))

ShuttingDown == stage = "relaying" /\ shutdowns > 0

BothOver == stage = "relaying" /\ op["up"] = "ended" /\ op["down"] = "ended"

ClientMayTimeOut == Alive /\ ClientOperation /\ ~lost["client"]

\* The prover takes ENABLED for an unknown.
EndsAreHandled ==
  /\ GreetingFails => ENABLED <<OnGreetError>>_vars
  /\ NothingBuffered => ENABLED <<unconsumed = 0 /\ OnUnconsumed>>_vars
  /\ BufferFails => ENABLED <<OnUnconsumedError>>_vars
  /\ HasMore => ENABLED <<OnRelayRead("down")>>_vars
  /\ ReadFails("up") => ENABLED <<OnRelayReadEnd("up")>>_vars
  /\ ReadFails("down") => ENABLED <<OnRelayReadEnd("down")>>_vars
  /\ WriteFails("up") => ENABLED <<OnRelayWriteError("up")>>_vars
  /\ WriteFails("down") => ENABLED <<OnRelayWriteError("down")>>_vars
  /\ ShuttingDown => ENABLED <<OnShutdown>>_vars
  /\ BothOver /\ shutdowns = 0 => ENABLED <<Destroy>>_vars
  /\ ClientMayTimeOut => ENABLED <<ClientTimeout>>_vars

\* When both directions are over, at most two shutdowns are outstanding, and
\* none is started any more.
LEMMA OverEnds == FairSpec /\ []EndsAreHandled => (BothOver ~> ~Alive)
<1> DEFINE Two == BothOver /\ shutdowns = 2
           One == BothOver /\ shutdowns = 1
           Zero == BothOver /\ shutdowns = 0
<1>1. ASSUME Inv, BothOver, [Next]_vars
      PROVE  /\ BothOver' \/ ~Alive'
             /\ \/ shutdowns' = shutdowns
                \/ shutdowns' = shutdowns - 1 /\ shutdowns > 0
  <2>1. RelayMoves
    BY <1>1, RelayingStep DEF BothOver
  <2>2. op'["up"] = "ended" /\ op'["down"] = "ended"
    BY <1>1, <2>1 DEF RelayMoves, Moves, BothOver, Direction
  <2> QED
    BY <1>1, <2>1, <2>2 DEF RelayMoves, BothOver, Alive, Direction
<1>2. Inv /\ Shape /\ BothOver => Two \/ One \/ Zero
  BY DEF Inv, TypeOK, Shape, BothOver
<1>3. Inv /\ Two /\ [Next]_vars => Two' \/ One' \/ ~Alive'
  BY <1>1
<1>4. Inv /\ One /\ [Next]_vars => One' \/ Zero' \/ ~Alive'
  BY <1>1
<1>5. Inv /\ Zero /\ [Next]_vars => Zero' \/ ~Alive'
  BY <1>1
<1>6. /\ Two /\ <<OnShutdown>>_vars => ~Two'
      /\ One /\ <<OnShutdown>>_vars => ~One'
  BY DEF OnShutdown
<1>7. <<Destroy>>_vars => ~Alive'
  BY DEF Destroy, Alive
<1>8. (Two => ShuttingDown) /\ (One => ShuttingDown)
  BY DEF BothOver, ShuttingDown
<1>9. Zero <=> BothOver /\ shutdowns = 0
  OBVIOUS
<1> HIDE DEF Two, One, Zero
<1> QED
  BY <1>2, <1>3, <1>4, <1>5, <1>6, <1>7, <1>8, <1>9, FairParts, PTL
  DEF EndsAreHandled

\* A relay that has lost peer p, and the place of direction d in it.
LostAt(p, d, o) == stage = "relaying" /\ lost[p] /\ op[d] = o

LEMMA LostStep ==
  ASSUME Inv, [Next]_vars, NEW p \in Peer, NEW d \in Direction, NEW o,
         LostAt(p, d, o)
  PROVE  \/ ~Alive'
         \/ /\ stage' = "relaying" /\ lost'[p] /\ Moves(d)
            /\ \A q \in Peer : /\ lost[q] => lost'[q]
                               /\ sent'[q] >= sent[q]
                               /\ fin[q] => fin'[q] /\ sent'[q] = sent[q]
<1>1. RelayMoves
  BY RelayingStep DEF LostAt
<1> QED
  BY <1>1 DEF RelayMoves, LostAt, Alive

\* What an active direction of a relay can be at.
LEMMA LostPlaces ==
  ASSUME Inv, Shape, stage = "relaying", NEW p \in Peer, lost[p]
  PROVE  /\ \/ LostAt(p, "up", "reading") \/ LostAt(p, "up", "writing")
            \/ LostAt(p, "up", "ended")
         /\ \/ LostAt(p, "down", "reading") \/ LostAt(p, "down", "writing")
            \/ LostAt(p, "down", "doomed") \/ LostAt(p, "down", "ended")
BY DEF Inv, TypeOK, Shape, DuringRelay, Direction, LostAt

\* The way up of a relay that has lost its remote: the chunk being written
\* cannot arrive, and an idle client times out.
LEMMA UpEndsWithoutRemote ==
  FairSpec /\ []EndsAreHandled =>
    (stage = "relaying" /\ lost["remote"]
       ~> LostAt("remote", "up", "ended") \/ ~Alive)
<1> DEFINE Here(o) == LostAt("remote", "up", o)
           Waiting == Here("reading") /\ ~lost["client"]
           Failing == Here("reading") /\ lost["client"]
           Writing == Here("writing")
           Over == Here("ended")
           Start0 == stage = "relaying" /\ lost["remote"]
<1>0. "up" \in Direction /\ "remote" \in Peer /\ "client" \in Peer
      /\ Source("up") = "client" /\ Dest("up") = "remote"
  BY Ways DEF Direction, Peer
<1>1. Inv /\ Shape /\ Start0 => Waiting \/ Failing \/ Writing \/ Over
  BY <1>0, LostPlaces
<1>2. Inv /\ Waiting /\ [Next]_vars =>
        Waiting' \/ Failing' \/ Writing' \/ Over' \/ ~Alive'
  <2> SUFFICES ASSUME Inv, Waiting, [Next]_vars, Alive'
               PROVE  Waiting' \/ Failing' \/ Writing' \/ Over'
    OBVIOUS
  <2>1. stage' = "relaying" /\ lost'["remote"] /\ Moves("up")
    BY <1>0, LostStep
  <2>2. op'["up"] \in {"reading", "writing", "doomed", "ended"}
    BY <2>1 DEF Moves, LostAt
  <2>3. op'["up"] # "doomed"
    BY InvPreserved DEF Inv, DuringRelay
  <2>4. lost' \in [Peer -> BOOLEAN]
    BY InvPreserved DEF Inv, TypeOK
  <2> QED
    BY <1>0, <2>1, <2>2, <2>3, <2>4 DEF LostAt
<1>3. Inv /\ Failing /\ [Next]_vars => Failing' \/ Over' \/ ~Alive'
  BY <1>0, LostStep DEF Moves, LostAt
<1>4. Inv /\ Writing /\ [Next]_vars => Writing' \/ Over' \/ ~Alive'
  BY <1>0, LostStep DEF Moves, LostAt
<1>5. Inv /\ Over /\ [Next]_vars => Over' \/ ~Alive'
  BY <1>0, LostStep DEF Moves, LostAt
<1>6. Waiting => ClientMayTimeOut
  BY DEF ClientMayTimeOut, ClientOperation, Alive, LostAt
<1>7. Failing => ReadFails("up")
  BY <1>0 DEF ReadFails, Exhausted, LostAt
<1>8. Writing => WriteFails("up")
  BY <1>0 DEF WriteFails, LostAt
<1>9. Inv /\ Waiting /\ <<ClientTimeout>>_vars => ~Waiting'
  BY <1>0 DEF ClientTimeout, Lose, LostAt, Inv, TypeOK
<1>10. Inv /\ Failing /\ <<OnRelayReadEnd("up")>>_vars => ~Failing'
  BY <1>0 DEF OnRelayReadEnd, LostAt, Inv, TypeOK
<1>11. Inv /\ Writing /\ <<OnRelayWriteError("up")>>_vars => ~Writing'
  BY <1>0 DEF OnRelayWriteError, LostAt, Inv, TypeOK
<1> HIDE DEF Waiting, Failing, Writing, Over, Start0
<1>12. FairSpec /\ []EndsAreHandled => (Start0 ~> Over \/ ~Alive)
  BY <1>1, <1>2, <1>3, <1>4, <1>5, <1>6, <1>7, <1>8, <1>9, <1>10, <1>11,
     FairParts, PTL DEF EndsAreHandled
<1> QED
  BY <1>12 DEF Start0, Over

\* The way down of a relay that has lost its remote: what was read is still
\* written to the client, or the client times out.
LEMMA DownEndsWithoutRemote ==
  FairSpec /\ []EndsAreHandled =>
    (stage = "relaying" /\ lost["remote"]
       ~> LostAt("remote", "down", "ended") \/ ~Alive)
<1> DEFINE Here(o) == LostAt("remote", "down", o)
           Reading == Here("reading")
           Doomed == Here("doomed")
           Waiting == Here("writing") /\ ~lost["client"]
           Failing == Here("writing") /\ lost["client"]
           Over == Here("ended")
           Start0 == stage = "relaying" /\ lost["remote"]
<1>0. "down" \in Direction /\ "remote" \in Peer /\ "client" \in Peer
      /\ Source("down") = "remote" /\ Dest("down") = "client"
  BY Ways DEF Direction, Peer
<1>1. Inv /\ Shape /\ Start0 => Reading \/ Doomed \/ Waiting \/ Failing \/ Over
  BY <1>0, LostPlaces
<1>2. Inv /\ Reading /\ [Next]_vars => Reading' \/ Over' \/ ~Alive'
  BY <1>0, LostStep DEF Moves, LostAt
<1>3. Inv /\ Doomed /\ [Next]_vars => Doomed' \/ Over' \/ ~Alive'
  BY <1>0, LostStep DEF Moves, LostAt
<1>4. Inv /\ Waiting /\ [Next]_vars =>
        Waiting' \/ Failing' \/ Reading' \/ Over' \/ ~Alive'
  <2> SUFFICES ASSUME Inv, Waiting, [Next]_vars, Alive'
               PROVE  Waiting' \/ Failing' \/ Reading' \/ Over'
    OBVIOUS
  <2>1. stage' = "relaying" /\ lost'["remote"] /\ Moves("down")
    BY <1>0, LostStep
  <2>2. op'["down"] \in {"reading", "writing", "ended"}
    BY <2>1 DEF Moves, LostAt
  <2>3. lost' \in [Peer -> BOOLEAN]
    BY InvPreserved DEF Inv, TypeOK
  <2> QED
    BY <1>0, <2>1, <2>2, <2>3 DEF LostAt
<1>5. Inv /\ Failing /\ [Next]_vars => Failing' \/ Over' \/ ~Alive'
  BY <1>0, LostStep DEF Moves, LostAt
<1>6. Inv /\ Over /\ [Next]_vars => Over' \/ ~Alive'
  BY <1>0, LostStep DEF Moves, LostAt
<1>7. Waiting => ClientMayTimeOut
  BY DEF ClientMayTimeOut, ClientOperation, Alive, LostAt
<1>8. Reading => ReadFails("down")
  BY <1>0 DEF ReadFails, Exhausted, LostAt
<1>9. Failing \/ Doomed => WriteFails("down")
  BY <1>0 DEF WriteFails, LostAt
<1>10. Inv /\ Waiting /\ <<ClientTimeout>>_vars => ~Waiting'
  BY <1>0 DEF ClientTimeout, Lose, LostAt, Inv, TypeOK
<1>11. Inv /\ Reading /\ <<OnRelayReadEnd("down")>>_vars => ~Reading'
  BY <1>0 DEF OnRelayReadEnd, LostAt, Inv, TypeOK
<1>12. /\ Inv /\ Failing /\ <<OnRelayWriteError("down")>>_vars => ~Failing'
       /\ Inv /\ Doomed /\ <<OnRelayWriteError("down")>>_vars => ~Doomed'
  BY <1>0 DEF OnRelayWriteError, LostAt, Inv, TypeOK
<1> HIDE DEF Reading, Doomed, Waiting, Failing, Over, Start0
<1>13. FairSpec /\ []EndsAreHandled => (Start0 ~> Over \/ ~Alive)
  BY <1>1, <1>2, <1>3, <1>4, <1>5, <1>6, <1>7, <1>8, <1>9, <1>10, <1>11,
     <1>12, FairParts, PTL DEF EndsAreHandled
<1> QED
  BY <1>13 DEF Start0, Over

\* A direction that is over stays over, until the copier is gone.
LEMMA OverStays ==
  ASSUME NEW p \in Peer, NEW d \in Direction
  PROVE  Inv /\ LostAt(p, d, "ended") /\ [Next]_vars
           => LostAt(p, d, "ended")' \/ ~Alive'
BY LostStep DEF Moves, LostAt

\* A copier that loses its remote while it greets, or writes what was left in
\* its buffer.
LEMMA SettingUpStep ==
  ASSUME Inv, stage \in {"greeting", "unconsumed"}, lost["remote"], [Next]_vars
  PROVE  /\ lost'["remote"] /\ (lost["client"] => lost'["client"])
         /\ mode' = mode /\ unconsumed' = unconsumed
         /\ \/ stage' \in {stage, "ended"}
            \/ stage = "greeting" /\ stage' = "unconsumed"
            \/ stage = "unconsumed" /\ unconsumed = 0 /\ stage' = "relaying"
<1> USE DEF Inv, TypeOK
<1>1. CASE SetUp
  BY <1>1
  DEF SetUp, Start, StartConnect, StartAbsolute, Goes, OnResolve, OnConnect,
      OnGreeted, OnGreetError, OnUnconsumed, OnUnconsumedError, peers, fixed
<1>2. ~\E d \in Direction : RelayStep(d)
  BY DEF RelayStep, OnRelayRead, OnRelayReadEnd, OnRelayWritten,
     OnRelayWriteError, DuringRelay, Active
<1>3. ~OnShutdown /\ ~Destroy
  BY DEF OnShutdown, Destroy
<1>4. CASE \/ \E q \in Peer : PeerSends(q) \/ PeerFin(q)
           \/ Terminated \/ UNCHANGED vars
  BY <1>4 DEF PeerSends, PeerFin, Terminated, vars, peers, fixed
<1>5. CASE (\E q \in Peer : PeerReset(q)) \/ ClientTimeout
  BY <1>5 DEF PeerReset, ClientTimeout, Lose, fixed, Peer
<1> QED
  BY <1>1, <1>2, <1>3, <1>4, <1>5 DEF Next

\* The deadline that do_read left on the client's stream is enough to release a
\* copier whose remote is gone, wherever the copier is: each thing it waits for
\* comes to an end, and nothing that ends starts something that does not.
THEOREM RemoteLossIsEnough == FairSpec /\ []EndsAreHandled => RemoteLossEndsTunnel
<1> DEFINE Greeting == stage = "greeting" /\ lost["remote"] /\ ~GreetingFails
           Failing == stage = "greeting" /\ lost["remote"] /\ GreetingFails
           Empty == NothingBuffered /\ lost["remote"]
           Relaying == stage = "relaying" /\ lost["remote"]
           UpOver == LostAt("remote", "up", "ended")
           DownOver == LostAt("remote", "down", "ended")
           Lost == Alive /\ lost["remote"]
<1>1. Inv /\ Shape /\ Lost =>
        Greeting \/ Failing \/ Empty \/ BufferFails \/ Relaying
  BY DEF Inv, TypeOK, Shape, Alive, NothingBuffered, BufferFails
<1>2. Inv /\ Greeting /\ [Next]_vars =>
        Greeting' \/ Failing' \/ Empty' \/ BufferFails' \/ ~Alive'
  <2> SUFFICES ASSUME Inv, Greeting, [Next]_vars, Alive'
               PROVE  Greeting' \/ Failing' \/ Empty' \/ BufferFails'
    OBVIOUS
  <2>1. stage' \in {"greeting", "unconsumed"} /\ lost'["remote"]
    BY SettingUpStep DEF Alive
  <2>2. unconsumed' \in Nat
    BY InvPreserved, BoundsAreNatural DEF Inv, TypeOK
  <2> QED
    BY <2>1, <2>2 DEF NothingBuffered, BufferFails
<1>3. Inv /\ Failing /\ [Next]_vars =>
        Failing' \/ Empty' \/ BufferFails' \/ ~Alive'
  <2> SUFFICES ASSUME Inv, Failing, [Next]_vars, Alive'
               PROVE  Failing' \/ Empty' \/ BufferFails'
    OBVIOUS
  <2>1. /\ stage' \in {"greeting", "unconsumed"} /\ lost'["remote"]
        /\ (lost["client"] => lost'["client"]) /\ mode' = mode
    BY SettingUpStep DEF Alive
  <2>2. unconsumed' \in Nat
    BY InvPreserved, BoundsAreNatural DEF Inv, TypeOK
  <2> QED
    BY <2>1, <2>2 DEF NothingBuffered, BufferFails, GreetingFails
<1>4. Inv /\ Empty /\ [Next]_vars => Empty' \/ Relaying' \/ ~Alive'
  BY SettingUpStep DEF NothingBuffered, Alive
<1>5. Inv /\ BufferFails /\ [Next]_vars => BufferFails' \/ ~Alive'
  BY SettingUpStep DEF BufferFails, Alive
<1>6. Greeting => ClientMayTimeOut
  BY DEF GreetingFails, ClientMayTimeOut, ClientOperation, Alive
<1>7. Inv /\ Greeting /\ <<ClientTimeout>>_vars => ~Greeting'
  BY DEF ClientTimeout, Lose, GreetingFails, Inv, TypeOK, Peer
<1>8. <<OnGreetError>>_vars => ~Alive'
  BY DEF OnGreetError, Goes, Alive
<1>9. /\ <<unconsumed = 0 /\ OnUnconsumed>>_vars => ~Empty'
      /\ <<OnUnconsumedError>>_vars => ~Alive'
  BY DEF OnUnconsumed, OnUnconsumedError, Goes, Alive, NothingBuffered
<1>10. (Failing => GreetingFails) /\ (Empty => NothingBuffered)
  OBVIOUS
<1>11. /\ Inv /\ UpOver /\ [Next]_vars => UpOver' \/ ~Alive'
       /\ Inv /\ DownOver /\ [Next]_vars => DownOver' \/ ~Alive'
  BY OverStays DEF Peer, Direction
<1>12. UpOver /\ DownOver => BothOver
  BY DEF LostAt, BothOver
<1>13. FairSpec /\ []EndsAreHandled =>
         /\ Relaying ~> UpOver \/ ~Alive
         /\ Relaying ~> DownOver \/ ~Alive
  BY UpEndsWithoutRemote, DownEndsWithoutRemote
<1> HIDE DEF Greeting, Failing, Empty, Relaying, UpOver, DownOver, Lost
<1>14. FairSpec /\ []EndsAreHandled => (Relaying ~> ~Alive)
  BY <1>11, <1>12, <1>13, OverEnds, FairParts, PTL DEF FairSpec
<1>15. FairSpec /\ []EndsAreHandled => (Lost ~> ~Alive)
  BY <1>1, <1>2, <1>3, <1>4, <1>5, <1>6, <1>7, <1>8, <1>9, <1>10, <1>14,
     FairParts, PTL DEF EndsAreHandled
<1> QED
  BY <1>15 DEF Lost, RemoteLossEndsTunnel

\* A relay without a client waits for its remote: to take what is written to
\* it, or to send more or finish.
WaitsForRemote ==
  \/ op["up"] = "writing"
  \/ op["down"] = "reading" /\ taken["remote"] = sent["remote"] /\ ~fin["remote"]

\* The way up of a relay that has lost its client.
LEMMA UpEndsWithoutClient ==
  FairSpec /\ []EndsAreHandled =>
    (stage = "relaying" /\ lost["client"]
       ~> LostAt("client", "up", "ended") \/ WaitsForRemote \/ ~Alive)
<1> DEFINE Failing == LostAt("client", "up", "reading")
           Over == LostAt("client", "up", "ended")
           Start0 == stage = "relaying" /\ lost["client"]
<1>0. "up" \in Direction /\ "client" \in Peer /\ Source("up") = "client"
  BY Ways DEF Direction, Peer
<1>1. Inv /\ Shape /\ Start0 => Failing \/ Over \/ WaitsForRemote
  BY <1>0, LostPlaces DEF WaitsForRemote, LostAt
<1>2. Inv /\ Failing /\ [Next]_vars => Failing' \/ Over' \/ ~Alive'
  BY <1>0, LostStep DEF Moves, LostAt
<1>3. Failing => ReadFails("up")
  BY <1>0 DEF ReadFails, Exhausted, LostAt
<1>4. Inv /\ Failing /\ <<OnRelayReadEnd("up")>>_vars => ~Failing'
  BY <1>0 DEF OnRelayReadEnd, LostAt, Inv, TypeOK
<1> HIDE DEF Failing, Over, Start0
<1>5. FairSpec /\ []EndsAreHandled => (Start0 ~> Over \/ WaitsForRemote \/ ~Alive)
  BY <1>1, <1>2, <1>3, <1>4, FairParts, PTL DEF EndsAreHandled
<1> QED
  BY <1>5 DEF Start0, Over

\* The way down of a relay that has lost its client: every chunk that is read
\* now fails to be written.
LEMMA DownEndsWithoutClient ==
  FairSpec /\ []EndsAreHandled =>
    (stage = "relaying" /\ lost["client"]
       ~> LostAt("client", "down", "ended") \/ WaitsForRemote \/ ~Alive)
<1> DEFINE Here(o) == LostAt("client", "down", o)
           More == Here("reading") /\ HasMore
           AtEnd == /\ Here("reading") /\ ~lost["remote"] /\ fin["remote"]
                    /\ taken["remote"] = sent["remote"]
           Broken0 == Here("reading") /\ lost["remote"]
           Writing == Here("writing")
           Doomed == Here("doomed")
           Over == Here("ended")
           Start0 == stage = "relaying" /\ lost["client"]
<1>0. "down" \in Direction /\ "remote" \in Peer /\ "client" \in Peer
      /\ Source("down") = "remote" /\ Dest("down") = "client"
  BY Ways DEF Direction, Peer
<1>1. Inv => /\ taken["remote"] \in Nat /\ sent["remote"] \in Nat
             /\ taken["remote"] <= sent["remote"]
             /\ lost \in [Peer -> BOOLEAN] /\ fin \in [Peer -> BOOLEAN]
             /\ op \in [Direction -> {"idle", "reading", "writing", "doomed",
                                      "ended"}]
  BY <1>0, BoundsAreNatural DEF Inv, TypeOK, Streaming
<1>2. Inv /\ Here("reading") => More \/ AtEnd \/ Broken0 \/ WaitsForRemote
  BY <1>0, <1>1 DEF HasMore, LostAt, WaitsForRemote
<1>3. Inv /\ Shape /\ Start0 =>
        More \/ AtEnd \/ Broken0 \/ Writing \/ Doomed \/ Over \/ WaitsForRemote
  BY <1>0, <1>2, LostPlaces
<1>4. ASSUME Inv, Here("reading"), [Next]_vars, Alive'
      PROVE  /\ stage' = "relaying" /\ lost'["client"]
             /\ op'["down"] \in {"reading", "writing", "doomed", "ended"}
             /\ lost["remote"] => lost'["remote"]
             /\ lost["remote"] => op'["down"] \in {"reading", "ended"}
             /\ op'["down"] = "reading" =>
                  /\ taken'["remote"] = taken["remote"]
                  /\ sent'["remote"] >= sent["remote"]
                  /\ fin["remote"] =>
                       fin'["remote"] /\ sent'["remote"] = sent["remote"]
  BY <1>0, <1>4, LostStep DEF Moves, LostAt
<1>5. Inv /\ Inv' /\ More /\ [Next]_vars =>
        More' \/ Broken0' \/ Writing' \/ Doomed' \/ Over' \/ ~Alive'
  <2> SUFFICES ASSUME Inv, Inv', More, [Next]_vars, Alive'
               PROVE  More' \/ Broken0' \/ Writing' \/ Doomed' \/ Over'
    OBVIOUS
  <2>1. /\ stage' = "relaying" /\ lost'["client"]
        /\ op'["down"] \in {"reading", "writing", "doomed", "ended"}
        /\ op'["down"] = "reading" =>
             /\ taken'["remote"] = taken["remote"]
             /\ sent'["remote"] >= sent["remote"]
    BY <1>4
  <2>2. sent'["remote"] \in Nat /\ lost' \in [Peer -> BOOLEAN]
    BY <1>0, BoundsAreNatural DEF Inv, TypeOK, Streaming
  <2>3. /\ taken["remote"] \in Nat /\ sent["remote"] \in Nat
        /\ taken["remote"] < sent["remote"]
    BY <1>1 DEF HasMore
  <2>4. CASE op'["down"] = "reading"
    <3>1. taken'["remote"] < sent'["remote"]
      BY <2>1, <2>2, <2>3, <2>4
    <3> QED
      BY <1>0, <2>1, <2>2, <2>4, <3>1 DEF HasMore, LostAt
  <2>5. CASE op'["down"] # "reading"
    BY <2>1, <2>5 DEF LostAt
  <2> QED
    BY <2>4, <2>5
<1>6. Inv /\ Inv' /\ AtEnd /\ [Next]_vars =>
        AtEnd' \/ Broken0' \/ Writing' \/ Doomed' \/ Over' \/ ~Alive'
  BY <1>1, <1>4 DEF LostAt
<1>7. Inv /\ Inv' /\ Broken0 /\ [Next]_vars => Broken0' \/ Over' \/ ~Alive'
  BY <1>1, <1>4 DEF LostAt
<1>8. /\ Inv /\ Writing /\ [Next]_vars => Writing' \/ Over' \/ ~Alive'
      /\ Inv /\ Doomed /\ [Next]_vars => Doomed' \/ Over' \/ ~Alive'
  BY <1>0, LostStep DEF Moves, LostAt
<1>9. /\ More => HasMore
      /\ AtEnd \/ Broken0 => ReadFails("down")
      /\ Writing \/ Doomed => WriteFails("down")
  BY <1>0 DEF ReadFails, WriteFails, Exhausted, LostAt
<1>10. Inv /\ More /\ <<OnRelayRead("down")>>_vars => ~More'
  BY <1>0, <1>1 DEF OnRelayRead, LostAt
<1>11. /\ Inv /\ AtEnd /\ <<OnRelayReadEnd("down")>>_vars => ~AtEnd'
       /\ Inv /\ Broken0 /\ <<OnRelayReadEnd("down")>>_vars => ~Broken0'
  BY <1>0, <1>1 DEF OnRelayReadEnd, LostAt
<1>12. /\ Inv /\ Writing /\ <<OnRelayWriteError("down")>>_vars => ~Writing'
       /\ Inv /\ Doomed /\ <<OnRelayWriteError("down")>>_vars => ~Doomed'
  BY <1>0, <1>1 DEF OnRelayWriteError, LostAt
<1> HIDE DEF More, AtEnd, Broken0, Writing, Doomed, Over, Start0
<1>13. FairSpec /\ []EndsAreHandled => (Start0 ~> Over \/ WaitsForRemote \/ ~Alive)
  BY <1>3, <1>5, <1>6, <1>7, <1>8, <1>9, <1>10, <1>11, <1>12, FairParts, PTL
  DEF EndsAreHandled
<1> QED
  BY <1>13 DEF Start0, Over

\* A relay that has lost its client waits for nothing but its remote: not for
\* a timer, a shutdown, or the other direction.
THEOREM OnlyTheRemoteIsWaitedFor ==
  FairSpec /\ []EndsAreHandled => OnlyRemoteKeepsTunnel
<1> DEFINE Relaying == stage = "relaying" /\ lost["client"]
           UpOver == LostAt("client", "up", "ended")
           DownOver == LostAt("client", "down", "ended")
<1>1. /\ Inv /\ UpOver /\ [Next]_vars => UpOver' \/ ~Alive'
      /\ Inv /\ DownOver /\ [Next]_vars => DownOver' \/ ~Alive'
  BY OverStays DEF Peer, Direction
<1>2. UpOver /\ DownOver => BothOver
  BY DEF LostAt, BothOver
<1>3. FairSpec /\ []EndsAreHandled =>
        /\ Relaying ~> UpOver \/ WaitsForRemote \/ ~Alive
        /\ Relaying ~> DownOver \/ WaitsForRemote \/ ~Alive
  BY UpEndsWithoutClient, DownEndsWithoutClient
<1> HIDE DEF Relaying, UpOver, DownOver
<1>4. FairSpec /\ []EndsAreHandled => (Relaying ~> WaitsForRemote \/ ~Alive)
  BY <1>1, <1>2, <1>3, OverEnds, FairParts, PTL
<1> QED
  BY <1>4, PTL DEF Relaying, WaitsForRemote, OnlyRemoteKeepsTunnel
=============================================================================
