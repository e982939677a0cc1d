-------------------------------- MODULE Relay --------------------------------
(***************************************************************************)
(* What a relay between a client and a remote host promises: two ordered   *)
(* streams, one from each peer, each with an end.  What is passed on is    *)
(* passed on once, in order and without a gap; the end of a stream is      *)
(* passed on after all of it, unless a connection broke or the other       *)
(* direction ended first.  Tunnel and TcpProxy implement it.               *)
(***************************************************************************)
EXTENDS Integers, Sequences

Peer == {"client", "remote"}

Other(p) == IF p = "client" THEN "remote" ELSE "client"

VARIABLES
  headless,  \* the beginning of the client's stream may be missing
  broken,    \* a connection is lost: streams may end early
  sent,      \* of each peer: how many chunks it has sent
  fin,       \* of each peer: it has finished sending
  passed,    \* of each peer: its chunks that were written to the other
  ended      \* of each peer: nothing more of it will be passed on

vars == <<headless, broken, sent, fin, passed, ended>>

Init ==
  /\ headless \in BOOLEAN
  /\ broken \in BOOLEAN
  /\ sent \in [Peer -> Nat]
  /\ fin = [p \in Peer |-> FALSE]
  /\ passed = [p \in Peer |-> <<>>]
  /\ ended = [p \in Peer |-> FALSE]

Send(p) ==
  /\ ~fin[p]
  /\ sent' = [sent EXCEPT ![p] = @ + 1]
  /\ UNCHANGED <<headless, broken, fin, passed, ended>>

Finish(p) ==
  /\ fin' = [fin EXCEPT ![p] = TRUE]
  /\ UNCHANGED <<headless, broken, sent, passed, ended>>

Break ==
  /\ broken' = TRUE
  /\ UNCHANGED <<headless, sent, fin, passed, ended>>

\* The chunk that is passed on next; where nothing has been passed on yet
\* and the head may be missing, any.
MayFollow(p, n) ==
  IF passed[p] # <<>> THEN n = passed[p][Len(passed[p])] + 1
  ELSE n = 1 \/ (p = "client" /\ headless)

Pass(p) ==
  /\ ~ended[p]
  /\ \E first \in 1..sent[p] : \E last \in first..sent[p] :
       /\ MayFollow(p, first)
       /\ passed' = [passed EXCEPT ![p] =
                       @ \o [i \in 1..last - first + 1 |-> first + i - 1]]
  /\ UNCHANGED <<headless, broken, sent, fin, ended>>

AllPassed(p) ==
  IF passed[p] # <<>> THEN passed[p][Len(passed[p])] = sent[p]
  ELSE sent[p] = 0 \/ (p = "client" /\ headless)

End(p) ==
  /\ ~ended[p]
  /\ (fin[p] /\ AllPassed(p)) \/ broken \/ ended[Other(p)]
  /\ ended' = [ended EXCEPT ![p] = TRUE]
  /\ UNCHANGED <<headless, broken, sent, fin, passed>>

Next ==
  \/ \E p \in Peer : Send(p) \/ Finish(p) \/ Pass(p) \/ End(p)
  \/ Break

Spec == Init /\ [][Next]_vars
=============================================================================
