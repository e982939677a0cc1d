--------------------------- MODULE TcpProxyProofs ---------------------------
(***************************************************************************)
(* Proofs about TcpProxy for every stream, however the reads divide it,    *)
(* and any number of chunks: nothing is repeated or reordered on its way   *)
(* through the read, the rewriting and the write, and no word is lost but  *)
(* those that debug_mode cuts off a line after the third; the remote's     *)
(* chunks arrive before its end; a proxy that does not rewrite implements  *)
(* Relay; and what becomes of the line ends, with rewriting and without.   *)
(* The last section is about the end of a connection: after cleanup        *)
(* nothing passes any more, and both directions end and release it.        *)
(***************************************************************************)
EXTENDS TcpProxy, QueueFacts, SequenceTheorems

\* What is on its way to the remote.
Pending == IF debug_mode THEN request_buffer ELSE data_client

\* Of the client's pieces data has only these, and of their words all but
\* those that were cut off.
Carries(data, first, last) ==
  /\ \A i \in 1..Len(data) : data[i].n # 0 => data[i].n \in first..last
  /\ \A n \in first..last :
       Stream[n] = "text" =>
         (\E i \in 1..Len(data) : data[i].n = n) \/ CutOff(data, n)

\* No LF is the client's; where the client's CR before one is in data, it is
\* followed by the CR LF that the proxy writes for it.
DoubledEnds(data) ==
  /\ \A i \in 1..Len(data) : data[i].kind # "lf"
  /\ \A i \in 1..Len(data) :
       LET n == data[i].n IN
       /\ n # 0 /\ data[i].kind = "cr"
       /\ n < Len(Stream) /\ Stream[n + 1] = "lf"
       => i < Len(data) /\ data[i + 1] = LineEnd

\* What parse_http_request makes of pieces first..last, and what several such
\* requests make together.
Rewritten(data, first, last) ==
  /\ Carries(data, first, last)
  /\ Orderly(data)
  /\ data # <<>> => data[Len(data)] = LineEnd
  /\ DoubledEnds(data)

\* The client's pieces up to some last one are written and the others are
\* pending, as they were read until the request is complete.
Upward ==
  LET read == taken["client"] IN
  \E last \in 0..read :
    /\ IF debug_mode THEN Rewritten(toRemote, 1, last)
       ELSE toRemote = Pieces(1, last)
    /\ \/ Pending = Pieces(last + 1, read) /\ (debug_mode => up # "writing")
       \/ /\ debug_mode /\ up \notin {"idle", "reading"}
          /\ Rewritten(Pending, last + 1, read)
    /\ ~debug_mode /\ up = "writing" => last < read

Buffers ==
  /\ debug_mode => data_client = <<>>
  /\ ~debug_mode => request_buffer = <<>>
  /\ ~debug_mode /\ up \in {"idle", "reading"} => data_client = <<>>

Counts ==
  /\ sent["client"] <= Len(Stream) /\ sent["remote"] <= MaxChunks
  /\ \A p \in Peer : taken[p] <= sent[p]

Downward ==
  /\ down \in {"idle", "reading"} => toClient = taken["remote"]
  /\ down = "writing" => toClient = taken["remote"] - 1
  /\ toClient <= taken["remote"]

\* Both sockets are open or closed together, and closed for a reason.
Closing ==
  /\ open["client"] = open["remote"]
  /\ stage \in {"none", "connecting"} =>
       open["client"] /\ up = "idle" /\ down = "idle"
  /\ up \in {"reading", "writing"} \/ down \in {"reading", "writing"} =>
       stage = "relaying"
  /\ stage = "relaying" /\ ~open["client"] =>
       /\ up = "ended" \/ down = "ended"
       /\ \/ fin["client"] \/ lost["client"] \/ lost["remote"]
          \/ toClient = sent["remote"]

Inv ==
  /\ TypeOK
  /\ Counts
  /\ Buffers
  /\ Upward
  /\ Downward
  /\ Closing

-----------------------------------------------------------------------------
(* Pieces.                                                                 *)

\* What a read returns.
LEMMA PiecesFacts ==
  ASSUME NEW a \in Nat, NEW b \in Nat, a >= 1, a <= b + 1, b <= Len(Stream)
  PROVE  /\ Pieces(a, b) \in Seq(Piece)
         /\ Len(Pieces(a, b)) = b - a + 1
         /\ \A i \in 1..b - a + 1 :
              Pieces(a, b)[i] = [n |-> a + i - 1, kind |-> Stream[a + i - 1]]
<1> DEFINE s == Pieces(a, b)
           piece(i) == [n |-> a + i - 1, kind |-> Stream[a + i - 1]]
<1>1. Stream \in Seq(Kind) /\ Len(Stream) \in Nat
  BY StreamIsText
<1>2. ASSUME NEW i \in 1..b - a + 1 PROVE piece(i) \in Piece
  <2>1. a + i - 1 \in 1..Len(Stream)
    BY <1>1
  <2>2. Stream[a + i - 1] \in Kind
    BY <1>1, <2>1
  <2> QED
    BY <2>1, <2>2 DEF Piece
<1>3. s = [i \in 1..b - a + 1 |-> piece(i)]
  BY DEF Pieces
<1> HIDE DEF s, piece
<1>4. b - a + 1 \in Nat
  OBVIOUS
<1>5. s \in Seq(Piece) /\ Len(s) = b - a + 1
  BY <1>2, <1>3, <1>4
<1>6. \A i \in 1..b - a + 1 : s[i] = piece(i)
  BY <1>3
<1> QED
  BY <1>5, <1>6 DEF s, piece

\* The same of its pieces, one by one.
LEMMA PieceAt ==
  ASSUME NEW a \in Nat, NEW b \in Nat, a >= 1, a <= b + 1, b <= Len(Stream),
         NEW i \in 1..Len(Pieces(a, b))
  PROVE  /\ Pieces(a, b)[i].n = a + i - 1
         /\ Pieces(a, b)[i].kind = Stream[a + i - 1]
         /\ a + i - 1 \in a..b
         /\ Pieces(a, b)[i].n # 0 /\ Pieces(a, b)[i].kind \in Kind
<1>1. i \in 1..b - a + 1
  BY PiecesFacts
<1>2. Pieces(a, b)[i] = [n |-> a + i - 1, kind |-> Stream[a + i - 1]]
  BY <1>1, PiecesFacts
<1>3. a + i - 1 \in a..b /\ a + i - 1 # 0 /\ a + i - 1 \in 1..Len(Stream)
  BY <1>1, StreamIsText
<1>4. Stream[a + i - 1] \in Kind
  BY <1>3, StreamIsText
<1> QED
  BY <1>2, <1>3, <1>4

\* Consecutive pieces remain consecutive when a part of them is taken ...
LEMMA SubPieces ==
  ASSUME NEW a \in Nat, NEW b \in Nat, a >= 1, a <= b + 1, b <= Len(Stream),
         NEW i \in Nat, NEW j \in Nat, i >= 1, i <= j + 1, j <= b - a + 1
  PROVE  SubSeq(Pieces(a, b), i, j) = Pieces(a + i - 1, a + j - 1)
<1> DEFINE s == Pieces(a, b)
           c == a + i - 1
           d == a + j - 1
           t == Pieces(c, d)
           u == SubSeq(s, i, j)
<1>1. /\ s \in Seq(Piece) /\ Len(s) = b - a + 1
      /\ \A k \in 1..b - a + 1 :
           s[k] = [n |-> a + k - 1, kind |-> Stream[a + k - 1]]
  BY PiecesFacts
<1>2. /\ c \in Nat /\ d \in Nat /\ c >= 1 /\ c <= d + 1 /\ d <= Len(Stream)
      /\ d - c + 1 = j - i + 1 /\ j - i + 1 \in Nat
  BY StreamIsText
<1> HIDE DEF s
<1>3. /\ t \in Seq(Piece) /\ Len(t) = d - c + 1
      /\ \A k \in 1..d - c + 1 :
           t[k] = [n |-> c + k - 1, kind |-> Stream[c + k - 1]]
  <2> HIDE DEF c, d
  <2> QED
    BY <1>2, PiecesFacts
<1>4. /\ Len(u) = j - i + 1 /\ u \in Seq(Piece)
      /\ \A k \in 1..j - i + 1 : u[k] = s[i + k - 1]
  <2>1. \A k \in i..j : s[k] \in Piece
    <3> SUFFICES ASSUME NEW k \in i..j PROVE s[k] \in Piece
      OBVIOUS
    <3>1. Len(s) = b - a + 1 /\ s \in Seq(Piece)
      BY <1>1
    <3>2. k \in 1..Len(s)
      BY <3>1
    <3> QED
      BY <3>1, <3>2
  <2>2. /\ u \in Seq(Piece)
        /\ Len(u) = IF i <= j THEN j - i + 1 ELSE 0
        /\ \A k \in 1..j - i + 1 : u[k] = s[i + k - 1]
    <3>1. i \in Int /\ j \in Int
      OBVIOUS
    <3> QED
      BY <2>1, <3>1, SubSeqProperties
  <2>3. (IF i <= j THEN j - i + 1 ELSE 0) = j - i + 1
    OBVIOUS
  <2> QED
    BY <2>2, <2>3
<1>5. ASSUME NEW k \in 1..j - i + 1 PROVE u[k] = t[k]
  <2>1. /\ i + k - 1 \in 1..b - a + 1 /\ k \in 1..d - c + 1
        /\ a + (i + k - 1) - 1 = c + k - 1
    BY <1>2
  <2>2. s[i + k - 1] = [n |-> c + k - 1, kind |-> Stream[c + k - 1]]
    BY <1>1, <2>1
  <2>3. t[k] = [n |-> c + k - 1, kind |-> Stream[c + k - 1]]
    BY <1>3, <2>1
  <2> QED
    BY <1>4, <2>2, <2>3
<1> HIDE DEF t, u, c, d
<1>6. u = t
  <2>1. u = [k \in 1..j - i + 1 |-> u[k]] /\ t = [k \in 1..j - i + 1 |-> t[k]]
    BY <1>2, <1>3, <1>4
  <2> QED
    BY <1>5, <2>1
<1> QED
  BY <1>6 DEF s, t, u, c, d

\* ... and when those that follow are appended.
LEMMA ConcatPieces ==
  ASSUME NEW a \in Nat, NEW b \in Nat, NEW c \in Nat,
         a >= 1, a <= b + 1, b <= c, c <= Len(Stream)
  PROVE  Pieces(a, b) \o Pieces(b + 1, c) = Pieces(a, c)
<1> DEFINE s == Pieces(a, b)
           t == Pieces(b + 1, c)
           u == Pieces(a, c)
           v == s \o t
<1>0. /\ Len(Stream) \in Nat /\ b + 1 \in Nat /\ b + 1 >= 1
      /\ b + 1 <= c + 1 /\ a <= c + 1 /\ b <= Len(Stream)
  BY StreamIsText
<1>1. /\ s \in Seq(Piece) /\ Len(s) = b - a + 1
      /\ \A k \in 1..b - a + 1 :
           s[k] = [n |-> a + k - 1, kind |-> Stream[a + k - 1]]
  BY <1>0, PiecesFacts
<1>2. /\ t \in Seq(Piece) /\ Len(t) = c - (b + 1) + 1
      /\ \A k \in 1..c - (b + 1) + 1 :
           t[k] = [n |-> b + 1 + k - 1, kind |-> Stream[b + 1 + k - 1]]
  BY <1>0, PiecesFacts
<1>3. /\ u \in Seq(Piece) /\ Len(u) = c - a + 1
      /\ \A k \in 1..c - a + 1 :
           u[k] = [n |-> a + k - 1, kind |-> Stream[a + k - 1]]
  BY <1>0, PiecesFacts
<1> HIDE DEF s, t, u
<1>4. Len(s) = b - a + 1 /\ Len(t) = c - (b + 1) + 1
  BY <1>1, <1>2
<1>5. /\ v \in Seq(Piece) /\ Len(v) = Len(s) + Len(t)
      /\ \A k \in 1..Len(s) : v[k] = s[k]
      /\ \A k \in 1..Len(t) : v[Len(s) + k] = t[k]
  <2>1. s \in Seq(Piece) /\ t \in Seq(Piece)
    BY <1>1, <1>2
  <2> QED
    BY <2>1, ConcatAt
<1> HIDE DEF v
<1>6. ASSUME NEW k \in 1..c - a + 1 PROVE v[k] = u[k]
  <2>1. CASE k <= b - a + 1
    <3>1. k \in 1..b - a + 1
      BY <2>1
    <3> QED
      BY <1>1, <1>3, <1>5, <3>1
  <2>2. CASE k > b - a + 1
    <3> DEFINE l == k - Len(s)
    <3>1. /\ l \in 1..c - (b + 1) + 1 /\ k = Len(s) + l
          /\ b + 1 + l - 1 = a + k - 1
      BY <1>4, <2>2
    <3> HIDE DEF l
    <3>2. v[k] = t[l]
      BY <1>2, <1>5, <3>1
    <3>3. t[l] = [n |-> a + k - 1, kind |-> Stream[a + k - 1]]
      BY <1>2, <3>1
    <3> QED
      BY <1>3, <3>2, <3>3
  <2> QED
    BY <2>1, <2>2
<1>7. Len(v) = c - a + 1
  <2>1. Len(v) = Len(s) + Len(t)
    BY <1>5
  <2> QED
    BY <1>4, <2>1
<1>8. v = u
  <2>1. /\ v = [k \in 1..c - a + 1 |-> v[k]]
        /\ u = [k \in 1..c - a + 1 |-> u[k]]
    BY <1>3, <1>5, <1>7
  <2> QED
    BY <1>6, <2>1
<1> QED
  BY <1>8 DEF s, t, u, v

\* They carry their words, and are in order.
LEMMA PiecesCarry ==
  ASSUME NEW a \in Nat, NEW b \in Nat, a >= 1, a <= b + 1, b <= Len(Stream)
  PROVE  Carries(Pieces(a, b), a, b) /\ Orderly(Pieces(a, b))
<1> DEFINE s == Pieces(a, b)
<1>1. Len(s) = b - a + 1
  BY PiecesFacts
<1>2. \A i \in 1..Len(s) :
        /\ s[i].n = a + i - 1 /\ s[i].kind = Stream[a + i - 1]
        /\ a + i - 1 \in a..b
  BY PieceAt
<1> HIDE DEF s
<1>3. ASSUME NEW n \in a..b PROVE \E i \in 1..Len(s) : s[i].n = n
  <2>1. n - a + 1 \in 1..Len(s) /\ a + (n - a + 1) - 1 = n
    BY <1>1
  <2> QED
    BY <1>2, <2>1
<1>4. Carries(s, a, b)
  BY <1>2, <1>3 DEF Carries
<1>5. ASSUME NEW i \in 1..Len(s), NEW j \in 1..Len(s), i < j
      PROVE  /\ s[i].n < s[j].n
             /\ OnOneLine(s[i].n, s[j].n)
                \/ \E k \in i..j : s[k].kind \in {"lf", "crlf"}
  <2>1. s[i].n = a + i - 1 /\ s[j].n = a + j - 1
    BY <1>2
  <2>2. a + i - 1 < a + j - 1
    BY <1>1, <1>5
  <2>3. ASSUME ~OnOneLine(s[i].n, s[j].n)
        PROVE  \E k \in i..j : s[k].kind \in {"lf", "crlf"}
    <3>1. PICK m \in a + i - 1..a + j - 1 : Stream[m] = "lf"
      BY <2>1, <2>3 DEF OnOneLine
    <3>2. m - a + 1 \in i..j /\ m - a + 1 \in 1..Len(s) /\ a + (m - a + 1) - 1 = m
      BY <1>1
    <3>3. s[m - a + 1].kind = "lf"
      BY <1>2, <3>1, <3>2
    <3> QED
      BY <3>2, <3>3
  <2> QED
    BY <2>1, <2>2, <2>3
<1>6. Orderly(s)
  BY <1>5 DEF Orderly
<1> QED
  BY <1>4, <1>6 DEF s

-----------------------------------------------------------------------------
(* Requests one after the other.                                           *)

\* What was cut off a line stays cut off when more follows ...
LEMMA CutOffBefore ==
  ASSUME NEW s \in Seq(Piece), NEW t \in Seq(Piece), NEW n, CutOff(s, n)
  PROVE  CutOff(s \o t, n)
<1> DEFINE u == s \o t
<1>1. /\ Len(u) = Len(s) + Len(t) /\ Len(s) \in Nat /\ Len(t) \in Nat
      /\ \A i \in 1..Len(s) : u[i] = s[i]
  BY ConcatAt
<1> HIDE DEF u
<1>2. PICK last \in 2..Len(s) - 1 :
        /\ s[last].n # 0 /\ s[last].n < n /\ OnOneLine(s[last].n, n)
        /\ s[last + 1] = LineEnd
        /\ \E i, j \in 1..last - 1 :
             /\ i < j /\ s[i] = Space /\ s[j] = Space
             /\ \A k \in i..last : s[k] # LineEnd
  BY DEF CutOff
<1>3. PICK i \in 1..last - 1, j \in 1..last - 1 :
        /\ i < j /\ s[i] = Space /\ s[j] = Space
        /\ \A k \in i..last : s[k] # LineEnd
  BY <1>2
<1>4. /\ last \in 2..Len(u) - 1
      /\ u[last] = s[last] /\ u[last + 1] = s[last + 1]
      /\ u[i] = s[i] /\ u[j] = s[j] /\ \A k \in i..last : u[k] = s[k]
  <2>1. /\ last \in 2..Len(u) - 1 /\ last \in 1..Len(s)
        /\ last + 1 \in 1..Len(s) /\ i \in 1..Len(s) /\ j \in 1..Len(s)
    BY <1>1
  <2>2. \A k \in i..last : k \in 1..Len(s)
    BY <1>1
  <2> QED
    BY <1>1, <2>1, <2>2
<1>5. CutOff(u, n)
  BY <1>2, <1>3, <1>4 DEF CutOff
<1> QED
  BY <1>5 DEF u

\* ... and when more comes before.
LEMMA CutOffAfter ==
  ASSUME NEW s \in Seq(Piece), NEW t \in Seq(Piece), NEW n, CutOff(t, n)
  PROVE  CutOff(s \o t, n)
<1> DEFINE u == s \o t
           m == Len(s)
<1>1. /\ Len(u) = m + Len(t) /\ m \in Nat /\ Len(t) \in Nat
      /\ \A i \in 1..Len(t) : u[m + i] = t[i]
  BY ConcatAt
<1> HIDE DEF u, m
<1>2. PICK last \in 2..Len(t) - 1 :
        /\ t[last].n # 0 /\ t[last].n < n /\ OnOneLine(t[last].n, n)
        /\ t[last + 1] = LineEnd
        /\ \E i, j \in 1..last - 1 :
             /\ i < j /\ t[i] = Space /\ t[j] = Space
             /\ \A k \in i..last : t[k] # LineEnd
  BY DEF CutOff
<1>3. PICK i \in 1..last - 1, j \in 1..last - 1 :
        /\ i < j /\ t[i] = Space /\ t[j] = Space
        /\ \A k \in i..last : t[k] # LineEnd
  BY <1>2
<1>4. /\ m + last \in 2..Len(u) - 1
      /\ u[m + last] = t[last] /\ u[m + last + 1] = t[last + 1]
      /\ m + i \in 1..(m + last) - 1 /\ m + j \in 1..(m + last) - 1
      /\ m + i < m + j /\ u[m + i] = t[i] /\ u[m + j] = t[j]
  <2>1. last \in 1..Len(t) /\ last + 1 \in 1..Len(t) /\ i \in 1..Len(t)
        /\ j \in 1..Len(t) /\ m + last + 1 = m + (last + 1)
    BY <1>1
  <2>2. /\ u[m + last] = t[last] /\ u[m + (last + 1)] = t[last + 1]
        /\ u[m + i] = t[i] /\ u[m + j] = t[j]
    BY <1>1, <2>1
  <2>3. /\ m + last \in 2..Len(u) - 1
        /\ m + i \in 1..(m + last) - 1 /\ m + j \in 1..(m + last) - 1
        /\ m + i < m + j
    BY <1>1, <1>3
  <2> QED
    BY <2>1, <2>2, <2>3
<1>5. \A k \in m + i..m + last : u[k] # LineEnd
  <2> SUFFICES ASSUME NEW k \in m + i..m + last PROVE u[k] # LineEnd
    OBVIOUS
  <2>1. k - m \in i..last /\ k - m \in 1..Len(t) /\ k = m + (k - m)
    BY <1>1
  <2>2. u[m + (k - m)] = t[k - m]
    BY <1>1, <2>1
  <2> QED
    BY <1>3, <2>1, <2>2
<1>6. CutOff(u, n)
  <2> DEFINE x == m + last
             y == m + i
             z == m + j
  <2>1. /\ x \in 2..Len(u) - 1
        /\ u[x].n # 0 /\ u[x].n < n /\ OnOneLine(u[x].n, n)
        /\ u[x + 1] = LineEnd
    BY <1>2, <1>4
  <2>2. /\ y \in 1..x - 1 /\ z \in 1..x - 1
        /\ y < z /\ u[y] = Space /\ u[z] = Space
        /\ \A k \in y..x : u[k] # LineEnd
    BY <1>3, <1>4, <1>5
  <2> HIDE DEF x, y, z
  <2> QED
    BY <2>1, <2>2 DEF CutOff
<1> QED
  BY <1>6 DEF u

\* What two sequences carry, one carries when they are put together.
LEMMA CarriesConcat ==
  ASSUME NEW s \in Seq(Piece), NEW t \in Seq(Piece),
         NEW a \in Nat, NEW b \in Nat, NEW c \in Nat, a >= 1, a <= b + 1, b <= c,
         Carries(s, a, b), Carries(t, b + 1, c)
  PROVE  Carries(s \o t, a, c)
<1> DEFINE u == s \o t
<1>1. /\ Len(u) = Len(s) + Len(t) /\ Len(s) \in Nat /\ Len(t) \in Nat
      /\ \A i \in 1..Len(s) : u[i] = s[i]
      /\ \A i \in 1..Len(t) : u[Len(s) + i] = t[i]
  BY ConcatAt
<1>2. ASSUME NEW n, CutOff(s, n) \/ CutOff(t, n) PROVE CutOff(u, n)
  BY <1>2, CutOffBefore, CutOffAfter
<1>3. \A i \in 1..Len(u) :
        \/ i \in 1..Len(s) /\ u[i] = s[i]
        \/ /\ i > Len(s) /\ i - Len(s) \in 1..Len(t)
           /\ u[i] = t[i - Len(s)]
  BY ConcatParts
<1> HIDE DEF u
<1>4. /\ \A i \in 1..Len(s) : s[i].n # 0 => s[i].n \in a..c
      /\ \A i \in 1..Len(t) : t[i].n # 0 => t[i].n \in a..c
  <2>1. \A n \in a..b : n \in a..c
    OBVIOUS
  <2>2. \A n \in b + 1..c : n \in a..c
    OBVIOUS
  <2> QED
    BY <2>1, <2>2 DEF Carries
<1>5. ASSUME NEW i \in 1..Len(u), u[i].n # 0 PROVE u[i].n \in a..c
  BY <1>3, <1>4, <1>5
<1>6. ASSUME NEW n \in a..c, Stream[n] = "text"
      PROVE  (\E i \in 1..Len(u) : u[i].n = n) \/ CutOff(u, n)
  <2>1. CASE n <= b
    <3>1. (\E i \in 1..Len(s) : s[i].n = n) \/ CutOff(s, n)
      BY <1>6, <2>1 DEF Carries
    <3>2. ASSUME NEW i \in 1..Len(s), s[i].n = n
          PROVE  i \in 1..Len(u) /\ u[i].n = n
      BY <1>1, <3>2
    <3> QED
      BY <1>2, <3>1, <3>2
  <2>2. CASE n > b
    <3>1. (\E i \in 1..Len(t) : t[i].n = n) \/ CutOff(t, n)
      BY <1>6, <2>2 DEF Carries
    <3>2. ASSUME NEW i \in 1..Len(t), t[i].n = n
          PROVE  Len(s) + i \in 1..Len(u) /\ u[Len(s) + i].n = n
      BY <1>1, <3>2
    <3> QED
      BY <1>2, <3>1, <3>2
  <2> QED
    BY <2>1, <2>2
<1>7. Carries(u, a, c)
  BY <1>5, <1>6 DEF Carries
<1> QED
  BY <1>7 DEF u

\* What is rewritten ends with a line end, so that it may be followed by what
\* comes later in the stream.
LEMMA OrderlyConcat ==
  ASSUME NEW s \in Seq(Piece), NEW t \in Seq(Piece), Orderly(s), Orderly(t),
         s # <<>> => s[Len(s)] = LineEnd,
         \A i \in 1..Len(s), j \in 1..Len(t) :
           s[i].n # 0 /\ t[j].n # 0 => s[i].n < t[j].n
  PROVE  Orderly(s \o t)
<1> DEFINE u == s \o t
<1>1. /\ Len(u) = Len(s) + Len(t) /\ Len(s) \in Nat /\ Len(t) \in Nat
      /\ \A i \in 1..Len(s) : u[i] = s[i]
      /\ \A i \in 1..Len(t) : u[Len(s) + i] = t[i]
  BY ConcatAt
<1>2. \A i \in 1..Len(u) :
        \/ i \in 1..Len(s) /\ u[i] = s[i]
        \/ /\ i > Len(s) /\ i - Len(s) \in 1..Len(t)
           /\ u[i] = t[i - Len(s)]
  BY ConcatParts
<1> HIDE DEF u
<1> SUFFICES ASSUME NEW i \in 1..Len(u), NEW j \in 1..Len(u),
                    i < j, u[i].n # 0, u[j].n # 0
             PROVE  /\ u[i].n < u[j].n
                    /\ OnOneLine(u[i].n, u[j].n)
                       \/ \E k \in i..j : u[k].kind \in {"lf", "crlf"}
  BY DEF Orderly, u
<1>3. CASE j \in 1..Len(s)
  <2>1. i \in 1..Len(s) /\ u[i] = s[i] /\ u[j] = s[j]
    BY <1>1, <1>3
  <2>2. /\ s[i].n < s[j].n
        /\ OnOneLine(s[i].n, s[j].n)
           \/ \E k \in i..j : s[k].kind \in {"lf", "crlf"}
    BY <1>3, <2>1 DEF Orderly
  <2>3. \A k \in i..j : u[k] = s[k]
    BY <1>1, <1>3
  <2> QED
    BY <2>1, <2>2, <2>3
<1>4. CASE i \in 1..Len(s) /\ j \notin 1..Len(s)
  <2>1. /\ u[i] = s[i] /\ j > Len(s) /\ j - Len(s) \in 1..Len(t)
        /\ u[j] = t[j - Len(s)]
    BY <1>1, <1>2, <1>4
  <2>2. u[i].n < u[j].n
    BY <1>4, <2>1
  <2>3. /\ s # <<>> /\ Len(s) \in i..j /\ Len(s) \in 1..Len(s)
    BY <1>1, <1>4, <2>1
  <2>4. u[Len(s)].kind = "crlf"
    BY <1>1, <2>3 DEF LineEnd
  <2> QED
    BY <2>2, <2>3, <2>4
<1>5. CASE i \notin 1..Len(s) /\ j \notin 1..Len(s)
  <2> DEFINE x == i - Len(s)
             y == j - Len(s)
  <2>1. /\ x \in 1..Len(t) /\ y \in 1..Len(t) /\ x < y
        /\ u[i] = t[x] /\ u[j] = t[y]
        /\ i = Len(s) + x /\ j = Len(s) + y
    BY <1>1, <1>2, <1>5
  <2> HIDE DEF x, y
  <2>2. /\ t[x].n < t[y].n
        /\ OnOneLine(t[x].n, t[y].n)
           \/ \E k \in x..y : t[k].kind \in {"lf", "crlf"}
    BY <2>1 DEF Orderly
  <2>3. ASSUME NEW k \in x..y
        PROVE  Len(s) + k \in i..j /\ u[Len(s) + k] = t[k]
    <3>1. Len(s) + k \in i..j /\ k \in 1..Len(t)
      BY <1>1, <2>1
    <3> QED
      BY <1>1, <3>1
  <2> QED
    BY <2>1, <2>2, <2>3
<1> QED
  BY <1>1, <1>2, <1>3, <1>4, <1>5

\* So the next request follows what was written before.
LEMMA RewrittenConcat ==
  ASSUME NEW s \in Seq(Piece), NEW t \in Seq(Piece),
         NEW a \in Nat, NEW b \in Nat, NEW c \in Nat, a >= 1, a <= b + 1, b <= c,
         Rewritten(s, a, b), Rewritten(t, b + 1, c)
  PROVE  Rewritten(s \o t, a, c)
<1> DEFINE u == s \o t
<1>1. /\ Len(u) = Len(s) + Len(t) /\ Len(s) \in Nat /\ Len(t) \in Nat
      /\ \A i \in 1..Len(s) : u[i] = s[i]
      /\ \A i \in 1..Len(t) : u[Len(s) + i] = t[i]
      /\ u \in Seq(Piece)
  BY ConcatAt
<1>2. \A i \in 1..Len(u) :
        \/ i \in 1..Len(s) /\ u[i] = s[i]
        \/ /\ i > Len(s) /\ i - Len(s) \in 1..Len(t)
           /\ u[i] = t[i - Len(s)]
  BY ConcatParts
<1>3. Carries(u, a, c)
  BY CarriesConcat DEF Rewritten
<1>4. Orderly(u)
  <2>1. ASSUME NEW i \in 1..Len(s), NEW j \in 1..Len(t),
               s[i].n # 0, t[j].n # 0
        PROVE  s[i].n < t[j].n
    <3>1. s[i].n \in a..b /\ t[j].n \in b + 1..c
      BY <2>1 DEF Rewritten, Carries
    <3> DEFINE x == s[i].n
               y == t[j].n
    <3>2. x \in a..b /\ y \in b + 1..c
      BY <3>1
    <3> HIDE DEF x, y
    <3>3. x < y
      BY <3>2
    <3> QED
      BY <3>3 DEF x, y
  <2> QED
    BY <2>1, OrderlyConcat DEF Rewritten
<1> HIDE DEF u
<1>5. u # <<>> => u[Len(u)] = LineEnd
  <2>1. CASE t # <<>>
    <3>1. Len(t) \in 1..Len(t) /\ Len(u) = Len(s) + Len(t)
      BY <1>1, <2>1
    <3> QED
      BY <1>1, <2>1, <3>1 DEF Rewritten
  <2>2. CASE t = <<>>
    <3>1. Len(u) = Len(s)
      BY <1>1, <2>2
    <3>2. ASSUME u # <<>> PROVE s # <<>> /\ Len(s) \in 1..Len(s)
      <4>1. Len(u) # 0
        BY <1>1, <3>2
      <4> QED
        BY <1>1, <3>1, <4>1
    <3> QED
      BY <1>1, <3>1, <3>2 DEF Rewritten
  <2> QED
    BY <2>1, <2>2
<1>6. DoubledEnds(u)
  <2>1. \A i \in 1..Len(u) : u[i].kind # "lf"
    BY <1>2 DEF Rewritten, DoubledEnds
  <2>2. ASSUME NEW i \in 1..Len(u), u[i].n # 0, u[i].kind = "cr",
               u[i].n < Len(Stream), Stream[u[i].n + 1] = "lf"
        PROVE  i < Len(u) /\ u[i + 1] = LineEnd
    <3>1. CASE i \in 1..Len(s) /\ u[i] = s[i]
      <4>1. i < Len(s) /\ s[i + 1] = LineEnd
        BY <2>2, <3>1 DEF Rewritten, DoubledEnds
      <4>2. i + 1 \in 1..Len(s)
        BY <1>1, <4>1
      <4> QED
        BY <1>1, <4>1, <4>2
    <3>2. CASE i > Len(s) /\ i - Len(s) \in 1..Len(t) /\ u[i] = t[i - Len(s)]
      <4> DEFINE x == i - Len(s)
      <4>1. x \in 1..Len(t) /\ u[i] = t[x] /\ i = Len(s) + x
        BY <1>1, <3>2
      <4> HIDE DEF x
      <4>2. x < Len(t) /\ t[x + 1] = LineEnd
        BY <2>2, <4>1 DEF Rewritten, DoubledEnds
      <4>3. x + 1 \in 1..Len(t) /\ i + 1 = Len(s) + (x + 1) /\ i < Len(u)
        BY <1>1, <4>1, <4>2
      <4>4. u[i + 1] = t[x + 1]
        BY <1>1, <4>3
      <4> QED
        BY <4>2, <4>3, <4>4
    <3> QED
      BY <1>2, <3>1, <3>2
  <2> QED
    BY <2>1, <2>2 DEF DoubledEnds
<1> QED
  BY <1>3, <1>4, <1>5, <1>6 DEF Rewritten, u

\* Nothing, and a line end alone, are rewritten from nothing.
LEMMA RewrittenNone ==
  ASSUME NEW a \in Nat
  PROVE  /\ <<>> \in Seq(Piece) /\ Rewritten(<<>>, a + 1, a)
         /\ <<LineEnd>> \in Seq(Piece) /\ Rewritten(<<LineEnd>>, a + 1, a)
<1>1. LineEnd \in Piece
  BY StreamIsText DEF LineEnd, Piece
<1>2. Len(<<LineEnd>>) = 1 /\ <<LineEnd>>[1] = LineEnd
  OBVIOUS
<1>3. a + 1..a = {}
  OBVIOUS
<1>4. Rewritten(<<>>, a + 1, a)
  BY <1>3 DEF Rewritten, Carries, Orderly, DoubledEnds
<1>5. \A i \in 1..1 : <<LineEnd>>[i].n = 0 /\ <<LineEnd>>[i].kind = "crlf"
  BY <1>2 DEF LineEnd
<1>6. Rewritten(<<LineEnd>>, a + 1, a)
  <2> DEFINE z == <<LineEnd>>
  <2>1. Len(z) = 1 /\ z[1] = LineEnd
        /\ \A i \in 1..1 : z[i].n = 0 /\ z[i].kind = "crlf"
    BY <1>2, <1>5
  <2> HIDE DEF z
  <2>2. Carries(z, a + 1, a)
    BY <1>3, <2>1 DEF Carries
  <2>3. Orderly(z) /\ DoubledEnds(z)
    BY <2>1 DEF Orderly, DoubledEnds
  <2>4. Rewritten(z, a + 1, a)
    BY <2>1, <2>2, <2>3 DEF Rewritten
  <2> QED
    BY <2>4 DEF z
<1> QED
  BY <1>1, <1>4, <1>6

-----------------------------------------------------------------------------
(* Rewriting a request.                                                    *)

\* The place that FirstAt chooses exists.
LEMMA FirstAtFacts ==
  ASSUME NEW r \in Seq(Piece), NEW i \in Nat, i >= 1, i <= Len(r) + 1, NEW kinds
  PROVE  LET j == FirstAt(r, i, kinds) IN
         /\ j \in i..Len(r) + 1
         /\ j <= Len(r) => r[j].kind \in kinds
         /\ \A k \in i..j - 1 : r[k].kind \notin kinds
<1> DEFINE m == Len(r) + 1
           T == {j \in i..m : j < m => r[j].kind \in kinds}
<1>1. m \in Nat /\ \A j \in Nat : j < m <=> j <= Len(r)
  OBVIOUS
<1> HIDE DEF m
<1>2. m \in T /\ T \subseteq Nat
  BY <1>1 DEF m
<1>3. PICK j \in T : \A k \in T : j <= k
  BY <1>2, LeastNatural, Zenon
<1>4. j \in i..m /\ (j < m => r[j].kind \in kinds)
  OBVIOUS
<1>5. ASSUME NEW k \in i..j - 1 PROVE r[k].kind \notin kinds
  <2>1. k < j /\ k \in i..m
    BY <1>1, <1>4
  <2>2. ASSUME r[k].kind \in kinds PROVE FALSE
    <3>1. k \in T
      BY <2>1, <2>2
    <3>2. j <= k
      BY <1>3, <3>1
    <3> QED
      BY <1>1, <1>4, <2>1, <3>2
  <2> QED
    BY <2>2
<1>6. /\ j \in i..Len(r) + 1
      /\ j <= Len(r) => r[j].kind \in kinds
      /\ \A k \in i..j - 1 : r[k].kind \notin kinds
  BY <1>1, <1>4, <1>5 DEF m
<1> QED
  BY <1>6, Zenon DEF FirstAt

\* A part of a request line: words of pieces first..last, all that there are,
\* on one line.
Words(data, first, last) ==
  /\ \A i \in 1..Len(data) :
       /\ data[i].kind \in {"text", "space"}
       /\ data[i].n # 0 => data[i].kind = "text" /\ data[i].n \in first..last
  /\ \A i, j \in 1..Len(data) :
       i < j /\ data[i].n # 0 /\ data[j].n # 0 => data[i].n < data[j].n
  /\ \A n \in first..last :
       Stream[n] = "text" => \E i \in 1..Len(data) : data[i].n = n

\* Such parts one after the other.
LEMMA WordsConcat ==
  ASSUME NEW s \in Seq(Piece), NEW t \in Seq(Piece),
         NEW a \in Nat, NEW b \in Nat, NEW c \in Nat, a >= 1, a <= b + 1, b <= c,
         Words(s, a, b), Words(t, b + 1, c)
  PROVE  Words(s \o t, a, c)
<1> DEFINE u == s \o t
<1>1. /\ Len(u) = Len(s) + Len(t) /\ Len(s) \in Nat /\ Len(t) \in Nat
      /\ \A i \in 1..Len(s) : u[i] = s[i]
      /\ \A i \in 1..Len(t) : u[Len(s) + i] = t[i]
  BY ConcatAt
<1>2. \A i \in 1..Len(u) :
        \/ i \in 1..Len(s) /\ u[i] = s[i]
        \/ /\ i > Len(s) /\ i - Len(s) \in 1..Len(t)
           /\ u[i] = t[i - Len(s)]
  BY ConcatParts
<1> HIDE DEF u
<1>3. (\A n \in a..b : n \in a..c) /\ (\A n \in b + 1..c : n \in a..c)
      /\ \A n \in a..c : n \in a..b \/ n \in b + 1..c
  OBVIOUS
<1>4. \A x \in a..b, y \in b + 1..c : x < y
  OBVIOUS
<1>5. ASSUME NEW i \in 1..Len(u)
      PROVE  /\ u[i].kind \in {"text", "space"}
             /\ u[i].n # 0 => u[i].kind = "text" /\ u[i].n \in a..c
  <2>1. CASE i \in 1..Len(s) /\ u[i] = s[i]
    BY <1>3, <2>1 DEF Words
  <2>2. CASE i - Len(s) \in 1..Len(t) /\ u[i] = t[i - Len(s)]
    <3> DEFINE x == i - Len(s)
    <3>1. x \in 1..Len(t) /\ u[i] = t[x]
      BY <2>2
    <3> HIDE DEF x
    <3> QED
      BY <1>3, <3>1 DEF Words
  <2> QED
    BY <1>2, <2>1, <2>2
<1>6. ASSUME NEW i \in 1..Len(u), NEW j \in 1..Len(u),
             i < j, u[i].n # 0, u[j].n # 0
      PROVE  u[i].n < u[j].n
  <2>1. CASE j \in 1..Len(s)
    <3>1. i \in 1..Len(s) /\ u[i] = s[i] /\ u[j] = s[j]
      BY <1>1, <1>6, <2>1
    <3> QED
      BY <1>6, <2>1, <3>1 DEF Words
  <2>2. CASE i \in 1..Len(s) /\ j \notin 1..Len(s)
    <3>1. /\ i \in 1..Len(s) /\ u[i] = s[i]
          /\ j - Len(s) \in 1..Len(t) /\ u[j] = t[j - Len(s)]
      BY <1>2, <2>2
    <3>2. u[i].n \in a..b
      BY <1>6, <3>1 DEF Words
    <3>3. u[j].n \in b + 1..c
      BY <1>6, <3>1 DEF Words
    <3> QED
      BY <1>4, <3>2, <3>3
  <2>3. CASE i \notin 1..Len(s) /\ j \notin 1..Len(s)
    <3> DEFINE x == i - Len(s)
               y == j - Len(s)
    <3>1. x \in 1..Len(t) /\ y \in 1..Len(t) /\ x < y /\ u[i] = t[x] /\ u[j] = t[y]
      BY <1>1, <1>2, <1>6, <2>3
    <3> HIDE DEF x, y
    <3> QED
      BY <1>6, <3>1 DEF Words
  <2> QED
    BY <2>1, <2>2, <2>3, <1>1, <1>6
<1>7. ASSUME NEW n \in a..c, Stream[n] = "text"
      PROVE  \E i \in 1..Len(u) : u[i].n = n
  <2>1. CASE n \in a..b
    <3>1. PICK i \in 1..Len(s) : s[i].n = n
      BY <1>7, <2>1 DEF Words
    <3>2. i \in 1..Len(u) /\ u[i].n = n
      BY <1>1, <3>1
    <3> QED
      BY <3>2
  <2>2. CASE n \in b + 1..c
    <3>1. PICK i \in 1..Len(t) : t[i].n = n
      BY <1>7, <2>2 DEF Words
    <3>2. Len(s) + i \in 1..Len(u) /\ u[Len(s) + i].n = n
      BY <1>1, <3>1
    <3> QED
      BY <3>2
  <2> QED
    BY <1>3, <2>1, <2>2
<1>8. Words(u, a, c)
  BY <1>5, <1>6, <1>7 DEF Words
<1> QED
  BY <1>8 DEF u

\* The space between two words.
LEMMA SpaceIsNoWord ==
  ASSUME NEW a \in Nat
  PROVE  /\ <<Space>> \in Seq(Piece) /\ Len(<<Space>>) = 1
         /\ Words(<<Space>>, a + 1, a)
<1> DEFINE z == <<Space>>
<1>1. Space \in Piece /\ Space.kind = "space" /\ Space.n = 0
  BY StreamIsText DEF Space, Piece, Kind
<1>2. Len(z) = 1 /\ z[1] = Space /\ z \in Seq(Piece)
  BY <1>1
<1> HIDE DEF z
<1>3. Words(z, a + 1, a)
  <2>1. \A i \in 1..Len(z) : i = 1
    BY <1>2
  <2>2. a + 1..a = {}
    OBVIOUS
  <2> QED
    BY <1>1, <1>2, <2>1, <2>2 DEF Words
<1> QED
  BY <1>2, <1>3 DEF z

\* The next word of a line, which reaches to its end or to a blank: all the
\* words there are between where it is looked for and its end.
LEMMA WordFacts ==
  ASSUME NEW a \in Nat, NEW c \in Nat, a >= 1, a <= c + 1, c <= Len(Stream),
         NEW i \in Nat, i >= 1, i <= c - a + 2
  PROVE  LET line == Pieces(a, c)
             end  == WordEnd(line, i)
             word == Word(line, i)
         IN /\ end \in i..c - a + 2
            /\ word \in Seq(Piece)
            /\ Words(word, a + i - 1, a + end - 2)
            /\ \/ /\ Len(word) >= 1 /\ word[Len(word)].n = a + end - 2
                  /\ a + end - 2 # 0
               \/ \A n \in a + i - 1..c : Stream[n] # "text"
<1> DEFINE line == Pieces(a, c)
           from == WordFrom(line, i)
           end  == WordEnd(line, i)
           word == Word(line, i)
           p == a + from - 1
           q == a + end - 2
<1>0. Len(Stream) \in Nat
  BY StreamIsText
<1>1. line \in Seq(Piece) /\ Len(line) = c - a + 1
  BY PiecesFacts
<1>2. \A k \in 1..Len(line) :
        /\ line[k].n = a + k - 1
        /\ line[k].kind = Stream[a + k - 1]
        /\ a + k - 1 \in a..c
        /\ line[k].n # 0 /\ line[k].kind \in Kind
  BY PieceAt
<1> HIDE DEF line
<1>3. /\ from \in i..Len(line) + 1
      /\ from <= Len(line) => line[from].kind = "text"
      /\ \A k \in i..from - 1 : line[k].kind # "text"
  <2>1. i <= Len(line) + 1
    BY <1>1
  <2> QED
    <3>1. LET j == FirstAt(line, i, {"text"}) IN
          /\ j \in i..Len(line) + 1
          /\ j <= Len(line) => line[j].kind \in {"text"}
          /\ \A k \in i..j - 1 : line[k].kind \notin {"text"}
      BY <1>1, <2>1, FirstAtFacts, Zenon
    <3> QED
      BY <3>1 DEF WordFrom
<1> HIDE DEF from
<1>4. /\ end \in from..Len(line) + 1
      /\ end <= Len(line) => line[end].kind \in Kind \ {"text"}
      /\ \A k \in from..end - 1 : line[k].kind \notin Kind \ {"text"}
  <2>1. from \in Nat /\ from >= 1 /\ from <= Len(line) + 1
    BY <1>1, <1>3
  <2> QED
    <3>1. LET j == FirstAt(line, from, Kind \ {"text"}) IN
          /\ j \in from..Len(line) + 1
          /\ j <= Len(line) => line[j].kind \in Kind \ {"text"}
          /\ \A k \in from..j - 1 : line[k].kind \notin Kind \ {"text"}
      BY <1>1, <2>1, FirstAtFacts, Zenon
    <3> QED
      BY <3>1 DEF WordEnd, from
<1> HIDE DEF end
<1>5. /\ from \in Nat /\ end \in Nat /\ i <= from /\ from <= end
      /\ end <= c - a + 2 /\ from >= 1
      /\ p \in Nat /\ p >= 1 /\ q \in Nat /\ p <= q + 1 /\ q <= c
      /\ q <= Len(Stream) /\ c - a + 1 \in Nat
  <2>1. /\ from \in i..Len(line) + 1 /\ end \in from..Len(line) + 1
        /\ Len(line) = c - a + 1
    BY <1>1, <1>3, <1>4
  <2>2. from \in i..c - a + 2 /\ end \in from..c - a + 2
    BY <2>1
  <2> HIDE DEF p, q
  <2>3. /\ from \in Nat /\ end \in Nat /\ i <= from /\ from <= end
        /\ end <= c - a + 2 /\ from >= 1 /\ c - a + 1 \in Nat
    BY <2>2
  <2>4. p \in Nat /\ p >= 1 /\ q \in Nat /\ p <= q + 1 /\ q <= c
    BY <2>3 DEF p, q
  <2> QED
    BY <1>0, <2>3, <2>4
<1>6. word = Pieces(p, q)
  <2> DEFINE x == end - 1
  <2>1. /\ x \in Nat /\ from <= x + 1 /\ x <= c - a + 1 /\ a + x - 1 = q
    BY <1>5
  <2>2. word = SubSeq(line, from, x)
    BY DEF Word, from, end
  <2> HIDE DEF x, p, q, word
  <2>3. SubSeq(line, from, x) = Pieces(a + from - 1, a + x - 1)
    <3>1. /\ from \in Nat /\ x \in Nat /\ from >= 1 /\ from <= x + 1
          /\ x <= c - a + 1
      BY <1>5, <2>1
    <3> QED
      BY <3>1, SubPieces, ZenonT(60) DEF line
  <2> QED
    BY <2>1, <2>2, <2>3 DEF p
<1>7. \A k \in i..end - 1 : line[k].kind = "text" => k \in from..end - 1
  BY <1>3, <1>5
<1>8. \A k \in from..end - 1 : line[k].kind = "text"
  <2>1. \A k \in from..end - 1 : k \in 1..Len(line)
    BY <1>1, <1>5
  <2> QED
    BY <1>2, <1>4, <2>1
<1>9. /\ word \in Seq(Piece) /\ Len(word) = q - p + 1
      /\ \A k \in 1..Len(word) :
           /\ word[k].n = p + k - 1 /\ word[k].kind = "text"
           /\ p + k - 1 \in p..q
           /\ word[k].n # 0
  <2> HIDE DEF p, q, word
  <2>1. word \in Seq(Piece) /\ Len(word) = q - p + 1
    BY <1>5, <1>6, PiecesFacts
  <2>2. ASSUME NEW k \in 1..Len(word)
        PROVE  /\ word[k].n = p + k - 1 /\ word[k].kind = "text"
               /\ p + k - 1 \in p..q
               /\ word[k].n # 0
    <3>1. /\ word[k].n = p + k - 1 /\ word[k].kind = Stream[p + k - 1]
          /\ p + k - 1 \in p..q /\ word[k].n # 0
      BY <1>5, <1>6, PieceAt
    <3>2. /\ from + k - 1 \in from..end - 1 /\ from + k - 1 \in 1..Len(line)
          /\ a + (from + k - 1) - 1 = p + k - 1
      BY <1>1, <1>5, <2>1 DEF p, q
    <3>3. Stream[p + k - 1] = "text"
      BY <1>2, <1>8, <3>2
    <3> QED
      BY <3>1, <3>3
  <2> QED
    BY <2>1, <2>2
<1>10. Words(word, a + i - 1, q)
  <2> HIDE DEF word
  <2>1. ASSUME NEW k \in 1..Len(word)
        PROVE  word[k].n \in a + i - 1..q
    <3> HIDE DEF p, q
    <3>1. word[k].n = p + k - 1 /\ p + k - 1 \in p..q
      BY <1>9
    <3>2. a + i - 1 <= p /\ a + i - 1 \in Nat
      BY <1>5 DEF p
    <3>3. \A x \in p..q : x \in a + i - 1..q
      BY <1>5, <3>2
    <3> QED
      BY <3>1, <3>3
  <2>2. \A k, l \in 1..Len(word) : k < l => word[k].n < word[l].n
    <3> SUFFICES ASSUME NEW k \in 1..Len(word), NEW l \in 1..Len(word), k < l
                 PROVE  word[k].n < word[l].n
      OBVIOUS
    <3>1. word[k].n = p + k - 1 /\ word[l].n = p + l - 1
      BY <1>9
    <3>2. p + k - 1 < p + l - 1
      BY <1>5, <1>9
    <3> QED
      BY <3>1, <3>2
  <2>3. ASSUME NEW n \in a + i - 1..q, Stream[n] = "text"
        PROVE  \E k \in 1..Len(word) : word[k].n = n
    <3>1. n - a + 1 \in i..end - 1 /\ n - a + 1 \in 1..Len(line)
          /\ a + (n - a + 1) - 1 = n
      BY <1>1, <1>5
    <3>2. n - a + 1 \in from..end - 1
      BY <1>2, <1>7, <2>3, <3>1
    <3>3. n - p + 1 \in 1..Len(word) /\ p + (n - p + 1) - 1 = n
      BY <1>5, <1>9, <3>2
    <3>4. word[n - p + 1].n = n
      BY <1>9, <3>3
    <3> QED
      BY <3>3, <3>4
  <2>4. \A k \in 1..Len(word) : word[k].kind \in {"text", "space"}
    BY <1>9
  <2> HIDE DEF q
  <2> QED
    BY <1>9, <2>1, <2>2, <2>3, <2>4 DEF Words
<1>11. CASE from <= Len(line)
  <2>1. end # from
    BY <1>1, <1>3, <1>4, <1>5, <1>11
  <2>2. Len(word) >= 1 /\ p + Len(word) - 1 = q /\ Len(word) \in 1..Len(word)
    BY <1>5, <1>9, <2>1
  <2>3. word[Len(word)].n = q /\ q # 0
    <3> HIDE DEF word, p, q
    <3> QED
      BY <1>9, <2>2
  <2> QED
    BY <1>1, <1>4, <1>5, <1>9, <1>10, <2>2, <2>3 DEF line, end, word, q
<1>12. CASE from > Len(line)
  <2>1. ASSUME NEW n \in a + i - 1..c PROVE Stream[n] # "text"
    <3>1. n - a + 1 \in i..from - 1 /\ n - a + 1 \in 1..Len(line)
          /\ a + (n - a + 1) - 1 = n
      BY <1>1, <1>5, <1>12
    <3> QED
      BY <1>2, <1>3, <3>1
  <2> QED
    BY <1>1, <1>4, <1>5, <1>9, <1>10, <2>1 DEF line, end, word, q
<1> QED
  BY <1>1, <1>5, <1>11, <1>12

\* Words on one line, the last of them a third one if more were on it, and a
\* line end.
LEMMA LineIsRewritten ==
  ASSUME NEW s \in Seq(Piece), NEW a \in Nat, NEW b \in Nat, NEW c \in Nat,
         a >= 1, a <= b + 1, b <= c, c < Len(Stream), Words(s, a, b),
         \A m \in a..c : Stream[m] # "lf", Stream[c + 1] = "lf",
         (\E n \in b + 1..c : Stream[n] = "text") =>
           /\ Len(s) >= 1 /\ s[Len(s)].n = b /\ b # 0
           /\ \E i, j \in 1..Len(s) - 1 :
                i < j /\ s[i] = Space /\ s[j] = Space
  PROVE  s \o <<LineEnd>> \in Seq(Piece) /\ Rewritten(s \o <<LineEnd>>, a, c + 1)
<1> DEFINE u == s \o <<LineEnd>>
           last == Len(s)
<1>1. <<LineEnd>> \in Seq(Piece)
  BY RewrittenNone
<1>2. /\ Len(u) = last + 1 /\ last \in Nat
      /\ \A i \in 1..last : u[i] = s[i]
      /\ u[last + 1] = LineEnd /\ u \in Seq(Piece)
  <2>1. Len(<<LineEnd>>) = 1 /\ <<LineEnd>>[1] = LineEnd
    OBVIOUS
  <2>2. /\ u \in Seq(Piece) /\ Len(u) = last + Len(<<LineEnd>>)
        /\ \A i \in 1..last : u[i] = s[i]
        /\ \A i \in 1..Len(<<LineEnd>>) : u[last + i] = <<LineEnd>>[i]
    BY <1>1, ConcatAt
  <2> HIDE DEF u
  <2> QED
    BY <2>1, <2>2
<1>3. LineEnd.n = 0 /\ LineEnd.kind = "crlf"
  BY DEF LineEnd
<1> HIDE DEF u, last
<1>4. \A i \in 1..Len(u) : i \in 1..last \/ i = last + 1
  BY <1>2
<1>5. ASSUME NEW i \in 1..Len(u), u[i].n # 0
      PROVE  i \in 1..last /\ u[i] = s[i] /\ s[i].n \in a..b /\ s[i].kind = "text"
  <2>1. i \in 1..last
    BY <1>2, <1>3, <1>4, <1>5
  <2> QED
    BY <1>2, <1>5, <2>1 DEF Words, last
<1>6. /\ \A n \in a..b : n \in a..c + 1
      /\ \A n \in a..c + 1 : n \in a..b \/ n \in b + 1..c \/ n = c + 1
  OBVIOUS
<1>7. ASSUME NEW n \in b + 1..c, Stream[n] = "text" PROVE CutOff(u, n)
  <2>1. last >= 1 /\ s[last].n = b
    BY <1>7 DEF last
  <2>2. PICK i \in 1..last - 1, j \in 1..last - 1 :
          i < j /\ s[i] = Space /\ s[j] = Space
    BY <1>7 DEF last
  <2>3. last \in 2..Len(u) - 1 /\ last \in 1..last
    BY <1>2, <2>2
  <2>4. u[last].n = b
    BY <1>2, <2>1, <2>3
  <2>5. b # 0 /\ b >= a
    <3>1. b # 0
      BY <1>7
    <3>2. s[last].n \in a..b
      BY <2>1, <2>3, <3>1 DEF Words, last
    <3> QED
      BY <2>1, <3>1, <3>2
  <2>6. OnOneLine(b, n) /\ b < n
    BY <2>5 DEF OnOneLine
  <2>7. \A k \in i..last : u[k] # LineEnd
    <3>1. \A k \in i..last : k \in 1..last
      BY <2>2, <1>2
    <3>2. \A k \in 1..last : s[k].kind # "crlf"
      BY DEF Words, last
    <3> QED
      BY <1>2, <1>3, <3>1, <3>2
  <2>8. u[i] = Space /\ u[j] = Space
    BY <1>2, <2>2
  <2>9. \E x, y \in 1..last - 1 :
          /\ x < y /\ u[x] = Space /\ u[y] = Space
          /\ \A k \in x..last : u[k] # LineEnd
    BY <2>2, <2>7, <2>8
  <2> QED
    BY <1>2, <2>3, <2>4, <2>5, <2>6, <2>9 DEF CutOff
<1>8. Carries(u, a, c + 1)
  <2>1. ASSUME NEW n \in a..c + 1, Stream[n] = "text"
        PROVE  (\E i \in 1..Len(u) : u[i].n = n) \/ CutOff(u, n)
    <3>1. n \in a..b \/ n \in b + 1..c
      BY <1>6, <2>1
    <3>2. CASE n \in a..b
      <4>1. PICK i \in 1..last : s[i].n = n
        BY <2>1, <3>2 DEF Words, last
      <4>2. i \in 1..Len(u) /\ u[i].n = n
        BY <1>2, <4>1
      <4> QED
        BY <4>2
    <3> QED
      BY <1>7, <2>1, <3>1, <3>2
  <2> QED
    BY <1>5, <1>6, <2>1 DEF Carries
<1>9. Orderly(u)
  <2> SUFFICES ASSUME NEW i \in 1..Len(u), NEW j \in 1..Len(u),
                      i < j, u[i].n # 0, u[j].n # 0
               PROVE  u[i].n < u[j].n /\ OnOneLine(u[i].n, u[j].n)
    BY DEF Orderly
  <2>1. /\ i \in 1..last /\ u[i] = s[i] /\ s[i].n \in a..b
        /\ j \in 1..last /\ u[j] = s[j] /\ s[j].n \in a..b
    BY <1>5
  <2>2. u[i].n < u[j].n
    BY <2>1 DEF Words, last
  <2> DEFINE x == u[i].n
             y == u[j].n
  <2>3. x \in a..b /\ y \in a..b
    BY <2>1
  <2> HIDE DEF x, y
  <2>4. OnOneLine(x, y)
    BY <2>3 DEF OnOneLine
  <2> QED
    BY <2>2, <2>4 DEF x, y
<1>10. DoubledEnds(u)
  <2>1. \A i \in 1..Len(u) : u[i].kind # "lf"
    <3>1. \A i \in 1..last : s[i].kind # "lf"
      BY DEF Words, last
    <3> QED
      BY <1>2, <1>3, <1>4, <3>1
  <2> QED
    BY <1>5, <2>1 DEF DoubledEnds
<1> QED
  BY <1>2, <1>8, <1>9, <1>10 DEF Rewritten, u

\* The first line: its first three words.
LEMMA RequestLineFacts ==
  ASSUME NEW a \in Nat, NEW c \in Nat, a >= 1, a <= c + 1, c < Len(Stream),
         \A m \in a..c : Stream[m] # "lf", Stream[c + 1] = "lf"
  PROVE  LET head == RequestLine(Pieces(a, c)) IN
         head \in Seq(Piece) /\ Rewritten(head, a, c + 1)
<1> DEFINE line    == Pieces(a, c)
           url     == WordEnd(line, 1)
           version == WordEnd(line, url)
           rest    == WordEnd(line, version)
           w1 == Word(line, 1)
           w2 == Word(line, url)
           w3 == Word(line, version)
           q1 == a + url - 2
           q2 == a + version - 2
           q3 == a + rest - 2
           sp == <<Space>>
           s1 == w1 \o sp
           s2 == s1 \o w2
           s3 == s2 \o sp
           s4 == s3 \o w3
<1>0. Len(Stream) \in Nat /\ c <= Len(Stream)
  BY StreamIsText
<1>1. /\ url \in 1..c - a + 2 /\ w1 \in Seq(Piece)
      /\ Words(w1, a + 1 - 1, q1)
  <2>1. 1 \in Nat /\ 1 >= 1 /\ 1 <= c - a + 2
    BY <1>0
  <2> QED
    BY <1>0, <2>1, WordFacts, Zenon
<1> HIDE DEF url
<1>2. /\ version \in url..c - a + 2 /\ w2 \in Seq(Piece)
      /\ Words(w2, a + url - 1, q2)
  <2>1. url \in Nat /\ url >= 1 /\ url <= c - a + 2
    BY <1>0, <1>1
  <2> QED
    BY <1>0, <2>1, WordFacts, Zenon
<1> HIDE DEF version
<1>3. /\ rest \in version..c - a + 2 /\ w3 \in Seq(Piece)
      /\ Words(w3, a + version - 1, q3)
      /\ \/ Len(w3) >= 1 /\ w3[Len(w3)].n = q3 /\ q3 # 0
         \/ \A n \in a + version - 1..c : Stream[n] # "text"
  <2>1. version \in Nat /\ version >= 1 /\ version <= c - a + 2
    BY <1>0, <1>1, <1>2
  <2> QED
    BY <1>0, <2>1, WordFacts, Zenon
<1> HIDE DEF rest, w1, w2, w3, line
<1>4. /\ q1 \in Nat /\ q2 \in Nat /\ q3 \in Nat /\ a <= q1 + 1
      /\ q1 <= q2 /\ q2 <= q3 /\ q3 <= c
      /\ a + 1 - 1 = a /\ a + url - 1 = q1 + 1 /\ a + version - 1 = q2 + 1
  BY <1>0, <1>1, <1>2, <1>3
<1> HIDE DEF q1, q2, q3
<1>5. /\ sp \in Seq(Piece) /\ Len(sp) = 1 /\ sp[1] = Space
      /\ Words(sp, q1 + 1, q1) /\ Words(sp, q2 + 1, q2)
  BY <1>4, SpaceIsNoWord
<1> HIDE DEF sp
<1>6. /\ s1 \in Seq(Piece) /\ Words(s1, a, q1)
      /\ Len(s1) = Len(w1) + 1 /\ s1[Len(w1) + 1] = Space
  <2>1. s1 \in Seq(Piece) /\ Len(s1) = Len(w1) + Len(sp)
        /\ \A i \in 1..Len(sp) : s1[Len(w1) + i] = sp[i]
    <3>1. w1 \in Seq(Piece) /\ sp \in Seq(Piece)
      BY <1>1, <1>5
    <3> QED
      BY <3>1, ConcatAt
  <2>2. Words(s1, a, q1)
    BY <1>1, <1>4, <1>5, WordsConcat
  <2> QED
    BY <1>5, <2>1, <2>2
<1> HIDE DEF s1
<1>7. /\ s2 \in Seq(Piece) /\ Words(s2, a, q2)
      /\ Len(s2) = Len(s1) + Len(w2) /\ \A i \in 1..Len(s1) : s2[i] = s1[i]
  <2>1. s2 \in Seq(Piece) /\ Len(s2) = Len(s1) + Len(w2)
        /\ \A i \in 1..Len(s1) : s2[i] = s1[i]
    BY <1>2, <1>6, ConcatAt
  <2>2. Words(s2, a, q2)
    BY <1>2, <1>4, <1>6, WordsConcat
  <2> QED
    BY <2>1, <2>2
<1> HIDE DEF s2
<1>8. /\ s3 \in Seq(Piece) /\ Words(s3, a, q2)
      /\ Len(s3) = Len(s2) + 1 /\ s3[Len(s2) + 1] = Space
      /\ \A i \in 1..Len(s2) : s3[i] = s2[i]
  <2>1. s3 \in Seq(Piece) /\ Len(s3) = Len(s2) + Len(sp)
        /\ (\A i \in 1..Len(s2) : s3[i] = s2[i])
        /\ \A i \in 1..Len(sp) : s3[Len(s2) + i] = sp[i]
    <3>1. s2 \in Seq(Piece) /\ sp \in Seq(Piece)
      BY <1>5, <1>7
    <3> QED
      BY <3>1, ConcatAt
  <2>2. a <= q2 + 1 /\ q2 <= q2
    BY <1>4
  <2>3. Words(s3, a, q2)
    BY <1>4, <1>5, <1>7, <2>2, WordsConcat
  <2> QED
    BY <1>5, <2>1, <2>3
<1> HIDE DEF s3
<1>9. /\ s4 \in Seq(Piece) /\ Words(s4, a, q3)
      /\ Len(s4) = Len(s3) + Len(w3) /\ \A i \in 1..Len(s3) : s4[i] = s3[i]
      /\ \A i \in 1..Len(w3) : s4[Len(s3) + i] = w3[i]
  <2>1. s4 \in Seq(Piece) /\ Len(s4) = Len(s3) + Len(w3)
        /\ (\A i \in 1..Len(s3) : s4[i] = s3[i])
        /\ \A i \in 1..Len(w3) : s4[Len(s3) + i] = w3[i]
    <3>1. s3 \in Seq(Piece) /\ w3 \in Seq(Piece)
      BY <1>3, <1>8
    <3> QED
      BY <3>1, ConcatAt
  <2>2. a <= q2 + 1
    BY <1>4
  <2>3. Words(s4, a, q3)
    BY <1>3, <1>4, <1>8, <2>2, WordsConcat
  <2> QED
    BY <2>1, <2>3
<1> HIDE DEF s4
<1>10. /\ Len(w1) \in Nat /\ Len(w2) \in Nat /\ Len(w3) \in Nat
       /\ Len(s2) = Len(w1) + 1 + Len(w2) /\ Len(s3) = Len(s2) + 1
       /\ Len(s4) = Len(s3) + Len(w3)
  <2>1. Len(w1) \in Nat /\ Len(w2) \in Nat /\ Len(w3) \in Nat
    BY <1>1, <1>2, <1>3
  <2>2. Len(s1) = Len(w1) + 1 /\ Len(s2) = Len(s1) + Len(w2)
    BY <1>6, <1>7
  <2> QED
    BY <1>8, <1>9, <2>1, <2>2
<1>11. ASSUME \E n \in q3 + 1..c : Stream[n] = "text"
       PROVE  /\ Len(s4) >= 1 /\ s4[Len(s4)].n = q3 /\ q3 # 0
              /\ \E i, j \in 1..Len(s4) - 1 :
                   i < j /\ s4[i] = Space /\ s4[j] = Space
  <2>1. PICK n \in q3 + 1..c : Stream[n] = "text"
    BY <1>11
  <2>2. n \in q2 + 1..c
    BY <1>4
  <2>3. Len(w3) >= 1 /\ w3[Len(w3)].n = q3 /\ q3 # 0
    BY <1>3, <1>4, <2>1, <2>2
  <2>4. Len(w3) \in 1..Len(w3)
    BY <1>10, <2>3
  <2>5. Len(s4) >= 1 /\ s4[Len(s4)] = w3[Len(w3)]
    BY <1>9, <1>10, <2>4
  <2> DEFINE x == Len(w1) + 1
             y == Len(s2) + 1
  <2>6. /\ x \in 1..Len(s4) - 1 /\ y \in 1..Len(s4) - 1 /\ x < y
        /\ x \in 1..Len(s2) /\ x \in 1..Len(s3) /\ y \in 1..Len(s3)
        /\ x \in 1..Len(s1)
    BY <1>6, <1>10, <2>3
  <2>7. s1[x] = Space /\ s3[y] = Space
    BY <1>6, <1>8
  <2> HIDE DEF x, y
  <2>8. s4[x] = Space /\ s4[y] = Space
    BY <1>7, <1>8, <1>9, <2>6, <2>7
  <2> QED
    BY <2>3, <2>5, <2>6, <2>8
<1>12. a <= q3 + 1
  BY <1>4
<1>13. /\ s4 \o <<LineEnd>> \in Seq(Piece)
       /\ Rewritten(s4 \o <<LineEnd>>, a, c + 1)
  BY <1>4, <1>9, <1>11, <1>12, LineIsRewritten
<1>14. s4 \o <<LineEnd>> = RequestLine(Pieces(a, c))
  BY DEF RequestLine, s4, s3, s2, s1, sp, w1, w2, w3, version, url, line
<1> QED
  BY <1>13, <1>14

\* Every other line: a line end for its LF, or behind what has none.
LEMMA OtherLinesFacts ==
  ASSUME NEW a \in Nat, NEW b \in Nat, a >= 1, a <= b + 1, b <= Len(Stream)
  PROVE  LET lines == OtherLines(Pieces(a, b)) IN
         lines \in Seq(Piece) /\ Rewritten(lines, a, b)
<1> DEFINE r == Pieces(a, b)
           m == Len(r)
           e(i) == IF r[i].kind = "lf" THEN LineEnd ELSE r[i]
           s == [i \in 1..Len(r) |-> e(i)]
           z == IF r # <<>> /\ r[Len(r)].kind # "lf" THEN <<LineEnd>> ELSE <<>>
           u == s \o z
<1>0. Len(Stream) \in Nat
  BY StreamIsText
<1>1. r \in Seq(Piece) /\ m = b - a + 1 /\ m \in Nat /\ (r # <<>> <=> m # 0)
  <2>1. r \in Seq(Piece) /\ m = b - a + 1
    BY PiecesFacts
  <2> HIDE DEF r
  <2> QED
    BY <2>1
<1>2. \A k \in 1..m :
        /\ r[k].n = a + k - 1
        /\ r[k].kind = Stream[a + k - 1]
        /\ a + k - 1 \in a..b
        /\ r[k].n # 0 /\ r[k].kind \in Kind
  BY PieceAt
<1> HIDE DEF r
<1>3. LineEnd \in Piece /\ LineEnd.n = 0 /\ LineEnd.kind = "crlf"
  BY <1>0 DEF LineEnd, Piece
<1>4. s \in Seq(Piece) /\ Len(s) = m
  <2>1. ASSUME NEW i \in 1..Len(r) PROVE e(i) \in Piece
    BY <1>1, <1>3
  <2> HIDE DEF e
  <2> QED
    BY <1>1, <2>1
<1>5. \A i \in 1..m : s[i] = IF Stream[a + i - 1] = "lf" THEN LineEnd ELSE r[i]
  BY <1>2
<1> HIDE DEF s
<1>6. /\ z \in Seq(Piece)
      /\ m = 0 => Len(z) = 0
      /\ m # 0 /\ Stream[b] = "lf" => Len(z) = 0
      /\ m # 0 /\ Stream[b] # "lf" => Len(z) = 1 /\ z[1] = LineEnd
      /\ Len(z) \in 0..1
  <2>1. m # 0 => m \in 1..m /\ a + m - 1 = b
    BY <1>1
  <2>2. m # 0 => r[m].kind = Stream[b]
    BY <1>2, <2>1
  <2>3. <<LineEnd>> \in Seq(Piece) /\ <<>> \in Seq(Piece)
    BY RewrittenNone
  <2> QED
    BY <1>1, <2>2, <2>3
<1> HIDE DEF z, m
<1>7. /\ u \in Seq(Piece) /\ Len(u) = m + Len(z)
      /\ \A i \in 1..m : u[i] = s[i]
      /\ \A i \in 1..Len(z) : u[m + i] = z[i]
  <2>1. s \in Seq(Piece) /\ z \in Seq(Piece)
    BY <1>4, <1>6
  <2>2. /\ u \in Seq(Piece) /\ Len(u) = Len(s) + Len(z)
        /\ \A i \in 1..Len(s) : u[i] = s[i]
        /\ \A i \in 1..Len(z) : u[Len(s) + i] = z[i]
    BY <2>1, ConcatAt
  <2> QED
    BY <1>4, <2>2
<1> HIDE DEF u
<1>8. \A i \in 1..m :
        IF Stream[a + i - 1] = "lf" THEN u[i] = LineEnd
        ELSE /\ u[i].n = a + i - 1 /\ u[i].kind = Stream[a + i - 1]
             /\ a + i - 1 \in a..b
  BY <1>2, <1>5, <1>7
<1>9. \A i \in 1..Len(u) :
        \/ i \in 1..m
        \/ i = m + 1 /\ m # 0 /\ Stream[b] # "lf" /\ u[i] = LineEnd
  <2>1. CASE Len(z) = 0
    <3>1. Len(u) = m
      BY <1>1, <1>7, <2>1
    <3> QED
      BY <3>1
  <2>2. CASE Len(z) = 1
    <3>1. Len(u) = m + 1 /\ m # 0 /\ Stream[b] # "lf" /\ z[1] = LineEnd
      BY <1>6, <1>7, <2>2
    <3>2. u[m + 1] = LineEnd
      BY <1>7, <2>2, <3>1
    <3>3. \A i \in 1..Len(u) : i \in 1..m \/ i = m + 1
      BY <1>1, <3>1
    <3> QED
      BY <3>1, <3>2, <3>3
  <2> QED
    BY <1>6, <2>1, <2>2
<1>10. ASSUME NEW i \in 1..Len(u), u[i].n # 0
       PROVE  /\ i \in 1..m /\ u[i].n = a + i - 1 /\ u[i].kind = Stream[a + i - 1]
              /\ a + i - 1 \in a..b
  BY <1>3, <1>8, <1>9, <1>10
<1>11. Carries(u, a, b)
  <2>1. ASSUME NEW n \in a..b, Stream[n] = "text"
        PROVE  \E i \in 1..Len(u) : u[i].n = n
    <3>1. n - a + 1 \in 1..m /\ a + (n - a + 1) - 1 = n
      BY <1>1
    <3>2. n - a + 1 \in 1..Len(u)
      BY <1>1, <1>6, <1>7, <3>1
    <3>3. u[n - a + 1].n = n
      BY <1>8, <2>1, <3>1
    <3> QED
      BY <3>2, <3>3
  <2>2. \A i \in 1..Len(u) : u[i].n # 0 => u[i].n \in a..b
    BY <1>10
  <2> QED
    BY <2>1, <2>2 DEF Carries
<1>12. Orderly(u)
  <2> SUFFICES ASSUME NEW i \in 1..Len(u), NEW j \in 1..Len(u),
                      i < j, u[i].n # 0, u[j].n # 0
               PROVE  /\ u[i].n < u[j].n
                      /\ OnOneLine(u[i].n, u[j].n)
                         \/ \E k \in i..j : u[k].kind \in {"lf", "crlf"}
    BY DEF Orderly
  <2>1. /\ i \in 1..m /\ j \in 1..m
        /\ u[i].n = a + i - 1 /\ u[j].n = a + j - 1
    BY <1>10
  <2>2. a + i - 1 < a + j - 1
    BY <1>1, <2>1
  <2>3. ASSUME ~OnOneLine(u[i].n, u[j].n)
        PROVE  \E k \in i..j : u[k].kind \in {"lf", "crlf"}
    <3>1. PICK x \in a + i - 1..a + j - 1 : Stream[x] = "lf"
      BY <2>1, <2>3 DEF OnOneLine
    <3>2. x - a + 1 \in i..j /\ x - a + 1 \in 1..m /\ a + (x - a + 1) - 1 = x
      BY <1>1, <2>1
    <3>3. u[x - a + 1] = LineEnd
      BY <1>8, <3>1, <3>2
    <3> QED
      BY <1>3, <3>2, <3>3
  <2> QED
    BY <2>1, <2>2, <2>3
<1>13. u # <<>> => u[Len(u)] = LineEnd
  <2>1. CASE m = 0
    <3>1. Len(u) = 0
      BY <1>6, <1>7, <2>1
    <3> QED
      BY <1>7, <3>1
  <2>2. CASE m # 0 /\ Stream[b] = "lf"
    <3>1. Len(u) = m /\ m \in 1..m /\ a + m - 1 = b
      BY <1>1, <1>6, <1>7, <2>2
    <3> QED
      BY <1>8, <2>2, <3>1
  <2>3. CASE m # 0 /\ Stream[b] # "lf"
    <3>1. Len(u) = m + 1
      BY <1>6, <1>7, <2>3
    <3>2. Len(u) \in 1..Len(u) /\ Len(u) \notin 1..m
      BY <1>1, <3>1
    <3> QED
      BY <1>9, <3>2
  <2> QED
    BY <2>1, <2>2, <2>3
<1>14. DoubledEnds(u)
  <2>1. \A i \in 1..Len(u) : u[i].kind # "lf"
    BY <1>3, <1>8, <1>9
  <2>2. ASSUME NEW i \in 1..Len(u), u[i].n # 0, u[i].kind = "cr",
               u[i].n < Len(Stream), Stream[u[i].n + 1] = "lf"
        PROVE  i < Len(u) /\ u[i + 1] = LineEnd
    <3>1. /\ i \in 1..m /\ u[i].n = a + i - 1 /\ Stream[a + i - 1] = "cr"
          /\ a + i - 1 \in a..b
      BY <1>10, <2>2
    <3>2. CASE i < m
      <4>1. i + 1 \in 1..m /\ a + (i + 1) - 1 = u[i].n + 1 /\ i < Len(u)
        BY <1>1, <1>6, <1>7, <3>1, <3>2
      <4> QED
        BY <1>8, <2>2, <4>1
    <3>3. CASE i = m
      <4>1. a + i - 1 = b /\ m # 0
        BY <1>1, <3>1, <3>3
      <4>2. Stream[b] # "lf"
        BY <3>1, <4>1
      <4>3. Len(u) = m + 1
        BY <1>6, <1>7, <4>1, <4>2
      <4>4. i < Len(u) /\ i + 1 \in 1..Len(u) /\ i + 1 \notin 1..m
        BY <1>1, <3>3, <4>3
      <4> QED
        BY <1>9, <4>4
    <3> QED
      BY <1>1, <3>1, <3>2, <3>3
  <2> QED
    BY <2>1, <2>2 DEF DoubledEnds
<1>15. u = OtherLines(Pieces(a, b))
  BY DEF OtherLines, u, s, e, z, r
<1> QED
  BY <1>7, <1>11, <1>12, <1>13, <1>14, <1>15 DEF Rewritten

\* Rewriting a request, which is complete only when it has the end of a line.
LEMMA ParsedFacts ==
  ASSUME NEW a \in Nat, NEW b \in Nat, a >= 1, a <= b + 1, b <= Len(Stream),
         has_complete_http_request(Pieces(a, b))
  PROVE  LET request == parse_http_request(Pieces(a, b)) IN
         request \in Seq(Piece) /\ Rewritten(request, a, b)
<1> DEFINE r == Pieces(a, b)
           m == Len(r)
           eol == FirstAt(r, 1, {"lf"})
           c == a + eol - 2
           line == SubSeq(r, 1, eol - 1)
           rest == SubSeq(r, eol + 1, m)
<1>0. Len(Stream) \in Nat
  BY StreamIsText
<1>1. r \in Seq(Piece) /\ m = b - a + 1 /\ m \in Nat
  <2>1. r \in Seq(Piece) /\ m = b - a + 1
    BY PiecesFacts
  <2> QED
    BY <2>1
<1>2. \A k \in 1..m :
        r[k].kind = Stream[a + k - 1] /\ a + k - 1 \in a..b
  BY PieceAt
<1>3. PICK i \in 1..m : r[i].kind = "lf"
  <2>1. PICK i \in 1..m - 3 : r[i + 1].kind = "lf"
    BY DEF has_complete_http_request
  <2>2. i + 1 \in 1..m
    BY <1>1
  <2> QED
    BY <2>1, <2>2
<1> HIDE DEF r
<1>4. /\ eol \in 1..m + 1
      /\ eol <= m => r[eol].kind \in {"lf"}
      /\ \A k \in 1..eol - 1 : r[k].kind \notin {"lf"}
  <2>1. 1 \in Nat /\ 1 >= 1 /\ 1 <= m + 1
    BY <1>1
  <2> QED
    BY <1>1, <2>1, FirstAtFacts, Zenon
<1> HIDE DEF eol, m
<1>5. eol \in 1..m
  <2>1. i \notin 1..eol - 1
    BY <1>3, <1>4
  <2> QED
    BY <1>1, <1>4, <2>1
<1>6. /\ c \in Nat /\ a <= c + 1 /\ c < b /\ c < Len(Stream)
      /\ c + 1 = a + eol - 1
  BY <1>0, <1>1, <1>5
<1>7. Stream[c + 1] = "lf"
  BY <1>2, <1>4, <1>5, <1>6, <1>1
<1>8. \A n \in a..c : Stream[n] # "lf"
  <2> SUFFICES ASSUME NEW n \in a..c PROVE Stream[n] # "lf"
    OBVIOUS
  <2>1. n - a + 1 \in 1..eol - 1 /\ n - a + 1 \in 1..m /\ a + (n - a + 1) - 1 = n
    BY <1>1, <1>5
  <2> QED
    BY <1>2, <1>4, <2>1
<1>9. line = Pieces(a, c)
  <2> DEFINE x == eol - 1
  <2>1. /\ 1 \in Nat /\ x \in Nat /\ 1 >= 1 /\ 1 <= x + 1 /\ x <= b - a + 1
        /\ a + 1 - 1 = a /\ a + x - 1 = c
    BY <1>1, <1>5
  <2> HIDE DEF x, c
  <2>2. SubSeq(r, 1, x) = Pieces(a + 1 - 1, a + x - 1)
    <3>1. 1 \in Nat /\ x \in Nat /\ 1 >= 1 /\ 1 <= x + 1 /\ x <= b - a + 1
      BY <2>1
    <3> QED
      BY <3>1, SubPieces, ZenonT(60) DEF r
  <2> QED
    BY <2>1, <2>2 DEF x
<1>10. rest = Pieces(c + 2, b)
  <2> DEFINE x == eol + 1
  <2>1. /\ x \in Nat /\ m \in Nat /\ x >= 1 /\ x <= m + 1 /\ m <= b - a + 1
        /\ a + x - 1 = c + 2 /\ a + m - 1 = b
    BY <1>1, <1>5
  <2> HIDE DEF x, c
  <2>2. SubSeq(r, x, m) = Pieces(a + x - 1, a + m - 1)
    <3>1. x \in Nat /\ m \in Nat /\ x >= 1 /\ x <= m + 1 /\ m <= b - a + 1
      BY <2>1
    <3> QED
      BY <3>1, SubPieces, ZenonT(60) DEF r
  <2> QED
    BY <2>1, <2>2 DEF x
<1> HIDE DEF line, rest, c
<1>11. /\ RequestLine(line) \in Seq(Piece)
       /\ Rewritten(RequestLine(line), a, c + 1)
  BY <1>6, <1>7, <1>8, <1>9, RequestLineFacts
<1>12. /\ OtherLines(rest) \in Seq(Piece)
       /\ Rewritten(OtherLines(rest), c + 2, b)
  <2>1. c + 2 \in Nat /\ c + 2 >= 1 /\ c + 2 <= b + 1
    BY <1>6
  <2> QED
    BY <1>10, <2>1, OtherLinesFacts
<1> DEFINE s == RequestLine(line)
           t == OtherLines(rest)
           z == <<LineEnd>>
<1>13. z \in Seq(Piece) /\ Rewritten(z, b + 1, b)
  BY RewrittenNone
<1> HIDE DEF s, t, z
<1>14. s \o t \in Seq(Piece) /\ Rewritten(s \o t, a, b)
  <2>1. c + 1 \in Nat /\ a <= (c + 1) + 1 /\ c + 1 <= b /\ (c + 1) + 1 = c + 2
    BY <1>6
  <2>2. s \in Seq(Piece) /\ t \in Seq(Piece)
        /\ Rewritten(s, a, c + 1) /\ Rewritten(t, (c + 1) + 1, b)
    BY <1>11, <1>12, <2>1 DEF s, t
  <2> QED
    BY <2>1, <2>2, RewrittenConcat, ConcatAt
<1>15. s \o t \o z \in Seq(Piece) /\ Rewritten(s \o t \o z, a, b)
  <2> DEFINE v == s \o t
  <2>1. v \in Seq(Piece) /\ Rewritten(v, a, b) /\ b <= b
    BY <1>14
  <2> HIDE DEF v
  <2>2. v \o z \in Seq(Piece) /\ Rewritten(v \o z, a, b)
    BY <1>13, <2>1, RewrittenConcat, ConcatAt
  <2> QED
    BY <2>2 DEF v
<1>16. s \o t \o z = parse_http_request(Pieces(a, b))
  BY DEF parse_http_request, s, t, z, line, rest, eol, m, r
<1> QED
  BY <1>15, <1>16

-----------------------------------------------------------------------------
(* The invariant.                                                          *)

LEMMA Facts ==
  ASSUME Inv
  PROVE  /\ Len(Stream) \in Nat /\ MaxChunks \in Nat
         /\ sent \in [Peer -> Nat] /\ taken \in [Peer -> Nat]
         /\ \A p \in Peer : sent[p] \in Nat /\ taken[p] \in Nat
         /\ \A p \in Peer : taken[p] <= sent[p]
         /\ sent["client"] <= Len(Stream) /\ sent["remote"] <= MaxChunks
         /\ toClient \in Nat /\ toRemote \in Seq(Piece)
         /\ request_buffer \in Seq(Piece) /\ data_client \in Seq(Piece)
         /\ Pending \in Seq(Piece)
         /\ open \in [Peer -> BOOLEAN]
BY StreamIsText, MaxChunksIsNatural DEF Inv, TypeOK, Counts, Pending

LEMMA NoPieces ==
  ASSUME NEW a \in Nat, a <= Len(Stream)
  PROVE  Pieces(a + 1, a) = <<>>
<1>1. a + 1 \in Nat /\ a + 1 >= 1 /\ a + 1 <= a + 1 /\ a - (a + 1) + 1 = 0
  OBVIOUS
<1>2. Pieces(a + 1, a) \in Seq(Piece) /\ Len(Pieces(a + 1, a)) = 0
  BY <1>1, PiecesFacts
<1> QED
  BY <1>2

LEMMA InvInit == Init => Inv
<1> SUFFICES ASSUME Init PROVE Inv
  OBVIOUS
<1>1. Len(Stream) \in Nat /\ MaxChunks \in Nat
  BY StreamIsText, MaxChunksIsNatural
<1>2. /\ open \in [Peer -> BOOLEAN] /\ sent \in [Peer -> Nat]
      /\ taken \in [Peer -> Nat] /\ fin \in [Peer -> BOOLEAN]
      /\ lost \in [Peer -> BOOLEAN]
      /\ \A p \in Peer : sent[p] = 0 /\ taken[p] = 0 /\ open[p]
      /\ toRemote = <<>> /\ request_buffer = <<>> /\ data_client = <<>>
      /\ toClient = 0
  BY DEF Init
<1>3. TypeOK
  BY <1>1, <1>2 DEF Init, TypeOK
<1>4. Counts
  BY <1>1, <1>2 DEF Counts, Peer
<1>5. Buffers
  BY <1>2 DEF Buffers
<1>6. Upward
  <2>1. taken["client"] = 0 /\ Pending = <<>> /\ toRemote = <<>>
    BY <1>2 DEF Peer, Pending
  <2>2. Pieces(1, 0) = <<>>
    BY <1>1, NoPieces
  <2>3. Rewritten(<<>>, 1, 0)
    BY RewrittenNone
  <2>4. up = "idle" /\ 0 \in 0..0
    BY DEF Init
  <2> QED
    BY <2>1, <2>2, <2>3, <2>4 DEF Upward
<1>7. Downward
  BY <1>2 DEF Init, Downward, Peer
<1>8. Closing
  BY <1>2 DEF Init, Closing, Peer
<1> QED
  BY <1>3, <1>4, <1>5, <1>6, <1>7, <1>8 DEF Inv

\* A read's pieces follow the pending ones, which they join or replace; when
\* they complete a request it is rewritten.
LEMMA OnReadClientStep ==
  ASSUME Inv, OnReadClient
  PROVE  Inv'
<1> DEFINE k == taken["client"]
<1>1. PICK last \in k + 1..sent["client"] :
        /\ IF debug_mode THEN ReadDebug(Pieces(k + 1, last))
           ELSE ReadPlain(Pieces(k + 1, last))
        /\ taken' = [taken EXCEPT !["client"] = last]
  BY DEF OnReadClient
<1>2. /\ up = "reading" /\ open["client"] /\ ~lost["client"]
      /\ UNCHANGED <<accepting, debug_mode, stage, down, open, sent, fin, lost,
                     toRemote, toClient>>
  BY DEF OnReadClient, Usable
<1>3. k \in Nat /\ last \in Nat /\ k + 1 <= last /\ last <= sent["client"]
      /\ last <= Len(Stream) /\ k <= sent["client"]
  BY <1>1, Facts DEF Peer
<1>4. /\ taken' \in [Peer -> Nat]
      /\ taken'["client"] = last /\ taken'["remote"] = taken["remote"]
  BY <1>1, <1>3, Facts DEF Peer
<1>5. PICK l \in 0..k :
        /\ IF debug_mode THEN Rewritten(toRemote, 1, l)
           ELSE toRemote = Pieces(1, l)
        /\ Pending = Pieces(l + 1, k)
  BY <1>2 DEF Inv, Upward
<1>6. /\ l \in 0..last
      /\ l \in Nat /\ l + 1 \in Nat /\ l + 1 >= 1 /\ l + 1 <= k + 1 /\ l <= k
      /\ l + 1 <= last + 1 /\ k <= last /\ k <= Len(Stream)
  BY <1>3
<1>7. /\ Pieces(l + 1, k) \o Pieces(k + 1, last) = Pieces(l + 1, last)
      /\ Pieces(l + 1, last) \in Seq(Piece)
  BY <1>3, <1>6, ConcatPieces, PiecesFacts
<1>8. /\ request_buffer' \in Seq(Piece) /\ data_client' \in Seq(Piece)
      /\ debug_mode => data_client' = <<>>
      /\ ~debug_mode => request_buffer' = <<>> /\ l < last
      /\ \/ Pending' = Pieces(l + 1, last) /\ (debug_mode => up' = "reading")
         \/ debug_mode /\ up' = "writing" /\ Rewritten(Pending', l + 1, last)
      /\ up' \in {"reading", "writing"} /\ (~debug_mode => up' = "writing")
  <2>1. CASE debug_mode
    <3> DEFINE r == request_buffer \o Pieces(k + 1, last)
    <3>1. r = Pieces(l + 1, last)
      BY <1>5, <1>7, <2>1 DEF Pending
    <3>2. /\ \/ /\ has_complete_http_request(r)
                /\ request_buffer' = parse_http_request(r) /\ up' = "writing"
             \/ request_buffer' = r /\ up' = up
          /\ data_client' = data_client
      BY <1>1, <2>1 DEF ReadDebug
    <3> HIDE DEF r
    <3>3. has_complete_http_request(r) =>
            /\ parse_http_request(r) \in Seq(Piece)
            /\ Rewritten(parse_http_request(r), l + 1, last)
      BY <1>3, <1>6, <3>1, ParsedFacts
    <3>4. Pending' = request_buffer'
      BY <1>2, <2>1 DEF Pending
    <3> QED
      BY <1>2, <1>7, <2>1, <3>1, <3>2, <3>3, <3>4, Facts DEF Inv, Buffers
  <2>2. CASE ~debug_mode
    <3>1. data_client = <<>> /\ Pending = <<>> /\ request_buffer = <<>>
      BY <1>2, <2>2 DEF Inv, Buffers, Pending
    <3>2. Len(Pieces(l + 1, k)) = k - (l + 1) + 1
      BY <1>3, <1>6, PiecesFacts
    <3>3. l = k
      BY <1>3, <1>5, <1>6, <3>1, <3>2
    <3>4. /\ data_client' = Pieces(k + 1, last) /\ up' = "writing"
          /\ request_buffer' = request_buffer
      BY <1>1, <2>2 DEF ReadPlain
    <3>5. Pending' = Pieces(k + 1, last)
      BY <1>2, <2>2, <3>4 DEF Pending
    <3>6. l < last
      BY <1>3, <3>3
    <3>7. request_buffer' \in Seq(Piece) /\ data_client' \in Seq(Piece)
      BY <1>7, <3>1, <3>3, <3>4
    <3> QED
      BY <2>2, <3>1, <3>3, <3>4, <3>5, <3>6, <3>7
  <2> QED
    BY <2>1, <2>2
<1>9. TypeOK'
  BY <1>2, <1>4, <1>8 DEF Inv, TypeOK
<1>10. Counts'
  BY <1>2, <1>3, <1>4 DEF Inv, Counts, Peer
<1>11. Buffers'
  BY <1>2, <1>8 DEF Buffers
<1>12. Upward'
  BY <1>2, <1>4, <1>5, <1>6, <1>8 DEF Upward
<1>13. Downward'
  BY <1>2, <1>4 DEF Inv, Downward
<1>14. Closing'
  BY <1>2, <1>8 DEF Inv, Closing
<1> QED
  BY <1>9, <1>10, <1>11, <1>12, <1>13, <1>14 DEF Inv

\* What was pending is written.
LEMMA OnWriteProxyStep ==
  ASSUME Inv, OnWriteProxy
  PROVE  Inv'
<1> DEFINE k == taken["client"]
<1>1. /\ up = "writing" /\ up' = "reading"
      /\ toRemote' = toRemote \o Pending
      /\ request_buffer' = <<>> /\ data_client' = <<>>
      /\ UNCHANGED <<accepting, debug_mode, stage, down, open, sent, taken, fin,
                     lost, toClient>>
  BY DEF OnWriteProxy, Pending
<1>2. PICK l \in 0..k :
        IF debug_mode
        THEN Rewritten(toRemote, 1, l) /\ Rewritten(Pending, l + 1, k)
        ELSE toRemote = Pieces(1, l) /\ Pending = Pieces(l + 1, k)
  BY <1>1 DEF Inv, Upward
<1>3. /\ k \in Nat /\ l \in Nat /\ l <= k /\ k <= Len(Stream)
      /\ toRemote \in Seq(Piece) /\ Pending \in Seq(Piece)
  BY <1>2, Facts DEF Peer
<1>4. /\ toRemote' \in Seq(Piece)
      /\ IF debug_mode THEN Rewritten(toRemote', 1, k)
         ELSE toRemote' = Pieces(1, k)
  <2>1. 1 \in Nat /\ 1 >= 1 /\ 1 <= l + 1
    BY <1>3
  <2>2. toRemote' \in Seq(Piece)
    BY <1>1, <1>3, ConcatAt
  <2>3. CASE debug_mode
    <3>1. Rewritten(toRemote \o Pending, 1, k)
      BY <1>2, <1>3, <2>1, <2>3, RewrittenConcat
    <3> QED
      BY <1>1, <2>2, <2>3, <3>1
  <2>4. CASE ~debug_mode
    <3>1. Pieces(1, l) \o Pieces(l + 1, k) = Pieces(1, k)
      BY <1>3, <2>1, ConcatPieces
    <3> QED
      BY <1>1, <1>2, <2>2, <2>4, <3>1
  <2> QED
    BY <2>3, <2>4
<1>5. TypeOK'
  BY <1>1, <1>4 DEF Inv, TypeOK
<1>6. Counts' /\ Buffers' /\ Downward' /\ Closing'
  BY <1>1 DEF Inv, Counts, Buffers, Downward, Closing
<1>7. Upward'
  <2>1. Pending' = <<>> /\ k \in 0..k
    BY <1>1, <1>3 DEF Pending
  <2>2. Pieces(k + 1, k) = <<>>
    BY <1>3, NoPieces
  <2> QED
    BY <1>1, <1>4, <2>1, <2>2 DEF Upward
<1> QED
  BY <1>5, <1>6, <1>7 DEF Inv

\* A step that leaves the client's pieces where they are.
LEMMA UpwardKept ==
  ASSUME Inv,
         UNCHANGED <<debug_mode, request_buffer, data_client, toRemote>>,
         taken'["client"] = taken["client"],
         up' \in {up, "ended"} \/ (up = "idle" /\ up' = "reading")
  PROVE  Upward' /\ Buffers'
<1>1. Pending' = Pending
  BY DEF Pending
<1>2. Buffers'
  BY DEF Inv, Buffers
<1>3. /\ up' = "writing" => up = "writing"
      /\ up' \in {"idle", "reading"} => up \in {"idle", "reading"}
  OBVIOUS
<1>4. Upward'
  BY <1>1, <1>3 DEF Inv, Upward
<1> QED
  BY <1>2, <1>4

\* One direction ends and closes both sockets; why it may.
LEMMA CleanupStep ==
  ASSUME Inv,
         OnReadClientEnd \/ OnWriteProxyError
           \/ OnReadProxyEnd \/ OnWriteClientError
  PROVE  Inv'
<1>1. /\ open' = [p \in Peer |-> FALSE]
      /\ UNCHANGED <<accepting, debug_mode, stage, request_buffer, data_client,
                     sent, taken, fin, lost, toRemote, toClient>>
      /\ \/ up \in {"reading", "writing"} /\ up' = "ended" /\ down' = down
         \/ down \in {"reading", "writing"} /\ down' = "ended" /\ up' = up
  BY DEF OnReadClientEnd, OnWriteProxyError, OnReadProxyEnd,
     OnWriteClientError, cleanup
<1>2. stage = "relaying"
  BY <1>1 DEF Inv, Closing
<1>3. \/ ~open["client"] \/ fin["client"] \/ lost["client"] \/ lost["remote"]
      \/ toClient = sent["remote"]
  <2>1. open["client"] = open["remote"]
    BY DEF Inv, Closing
  <2>2. CASE OnReadProxyEnd
    BY <2>1, <2>2
    DEF OnReadProxyEnd, ReadFails, Usable, Inv, Downward
  <2>3. CASE ~OnReadProxyEnd
    BY <2>1, <2>3
    DEF OnReadClientEnd, OnWriteProxyError, OnWriteClientError, ReadFails,
        Usable
  <2> QED
    BY <2>2, <2>3
<1>4. TypeOK'
  BY <1>1 DEF Inv, TypeOK
<1>5. Counts' /\ Downward'
  BY <1>1 DEF Inv, Counts, Downward
<1>6. Upward' /\ Buffers'
  BY <1>1, UpwardKept
<1>7. Closing'
  BY <1>1, <1>2, <1>3 DEF Inv, Closing, Peer
<1> QED
  BY <1>4, <1>5, <1>6, <1>7 DEF Inv

\* The remote's chunks: one is read, then written.
LEMMA DownStepInv ==
  ASSUME Inv, OnReadProxy \/ OnWriteClient
  PROVE  Inv'
<1> DEFINE t == taken["remote"]
<1>1. /\ open["client"] = open["remote"] /\ stage = "relaying"
      /\ t \in Nat /\ sent["remote"] \in Nat /\ toClient \in Nat
      /\ t <= sent["remote"] /\ sent["remote"] <= MaxChunks /\ MaxChunks \in Nat
      /\ taken \in [Peer -> Nat]
  BY Facts DEF OnReadProxy, OnWriteClient, Inv, Closing, Peer
<1>2. CASE OnReadProxy
  <2>1. /\ down = "reading" /\ down' = "writing" /\ t < sent["remote"]
        /\ taken' = [taken EXCEPT !["remote"] = t + 1]
        /\ open["remote"]
        /\ UNCHANGED <<accepting, debug_mode, stage, up, request_buffer,
                       data_client, open, sent, fin, lost, toRemote, toClient>>
    BY <1>2 DEF OnReadProxy, Usable
  <2>2. /\ taken' \in [Peer -> Nat] /\ taken'["remote"] = t + 1
        /\ taken'["client"] = taken["client"]
    BY <1>1, <2>1 DEF Peer
  <2>3. TypeOK'
    BY <2>1, <2>2 DEF Inv, TypeOK
  <2>4. Counts'
    BY <1>1, <2>1, <2>2 DEF Inv, Counts, Peer
  <2>5. Upward' /\ Buffers'
    BY <2>1, <2>2, UpwardKept
  <2>6. Downward'
    BY <1>1, <2>1, <2>2 DEF Inv, Downward
  <2>7. Closing'
    BY <1>1, <2>1 DEF Inv, Closing
  <2> QED
    BY <2>3, <2>4, <2>5, <2>6, <2>7 DEF Inv
<1>3. CASE OnWriteClient
  <2>1. /\ down = "writing" /\ down' = "reading" /\ toClient' = toClient + 1
        /\ open["client"]
        /\ UNCHANGED <<accepting, debug_mode, stage, up, request_buffer,
                       data_client, open, sent, taken, fin, lost, toRemote>>
    BY <1>3 DEF OnWriteClient, Usable
  <2>2. toClient = t - 1
    BY <2>1 DEF Inv, Downward
  <2>3. toClient' \in 0..MaxChunks /\ toClient' = t
    BY <1>1, <2>1, <2>2
  <2>4. TypeOK'
    BY <2>1, <2>3 DEF Inv, TypeOK
  <2>5. Counts' /\ Downward'
    BY <1>1, <2>1, <2>3 DEF Inv, Counts, Downward
  <2>6. Upward' /\ Buffers'
    BY <2>1, UpwardKept
  <2>7. Closing'
    BY <1>1, <2>1 DEF Inv, Closing
  <2> QED
    BY <2>4, <2>5, <2>6, <2>7 DEF Inv
<1> QED
  BY <1>2, <1>3

\* The connection's beginning and end.
LEMMA StageStep ==
  ASSUME Inv, OnAccept \/ OnAcceptError \/ OnConnect \/ Destroy
  PROVE  Inv'
<1>1. /\ UNCHANGED <<debug_mode, request_buffer, data_client, sent, taken, fin,
                     lost, toRemote, toClient>>
      /\ accepting' \in BOOLEAN
      /\ stage' \in {"none", "connecting", "relaying", "gone"}
      /\ \/ UNCHANGED <<up, down, open>>
         \/ /\ stage = "connecting" /\ stage' = "relaying"
            /\ up' = "reading" /\ down' = "reading" /\ open' = open
         \/ /\ stage = "connecting" /\ stage' = "gone"
            /\ open' = [p \in Peer |-> FALSE] /\ UNCHANGED <<up, down>>
  BY DEF OnAccept, OnAcceptError, OnConnect, Destroy, cleanup, conn, Inv, TypeOK
<1>2. stage = "connecting" => up = "idle" /\ down = "idle" /\ open["client"]
  BY DEF Inv, Closing
<1>3. TypeOK'
  BY <1>1 DEF Inv, TypeOK
<1>4. Counts' /\ Downward'
  BY <1>1, <1>2 DEF Inv, Counts, Downward
<1>5. Upward' /\ Buffers'
  BY <1>1, <1>2, UpwardKept
<1>6. Closing'
  BY <1>1, <1>2
  DEF OnAccept, OnAcceptError, OnConnect, Destroy, conn, Inv, Closing, Peer
<1> QED
  BY <1>3, <1>4, <1>5, <1>6 DEF Inv

LEMMA PeerStep ==
  ASSUME Inv, NEW p \in Peer, PeerSends(p) \/ PeerFin(p) \/ PeerReset(p)
  PROVE  Inv'
<1>1. /\ UNCHANGED <<accepting, debug_mode, stage, up, down, request_buffer,
                     data_client, open, taken, toRemote, toClient>>
      /\ open[p]
  BY DEF PeerSends, PeerFin, PeerReset, Sending, Usable, conn
<1>2. /\ sent' \in [Peer -> Nat] /\ fin' \in [Peer -> BOOLEAN]
      /\ lost' \in [Peer -> BOOLEAN]
      /\ \A q \in Peer : (fin[q] => fin'[q]) /\ (lost[q] => lost'[q])
  <2>1. /\ sent \in [Peer -> Nat] /\ fin \in [Peer -> BOOLEAN]
        /\ lost \in [Peer -> BOOLEAN]
    BY DEF Inv, TypeOK
  <2>2. CASE PeerSends(p)
    <3>1. sent[p] + 1 \in Nat
      BY <2>1
    <3> QED
      BY <2>1, <2>2, <3>1 DEF PeerSends
  <2>3. CASE PeerFin(p)
    BY <2>1, <2>3, Zenon DEF PeerFin
  <2>4. CASE PeerReset(p)
    BY <2>1, <2>4, Zenon DEF PeerReset
  <2> QED
    BY <2>2, <2>3, <2>4
<1>3. /\ \A q \in Peer : sent[q] <= sent'[q]
      /\ sent'["client"] <= Len(Stream) /\ sent'["remote"] <= MaxChunks
  BY Facts DEF PeerSends, PeerFin, PeerReset, Peer
<1>4. TypeOK'
  BY <1>1, <1>2 DEF Inv, TypeOK
<1>5. Counts'
  <2>1. \A q \in Peer : taken[q] <= sent'[q]
    <3>1. \A q \in Peer : taken[q] \in Nat /\ sent[q] \in Nat /\ sent'[q] \in Nat
                          /\ taken[q] <= sent[q]
      BY <1>2, Facts
    <3> QED
      BY <1>3, <3>1
  <2> QED
    BY <1>1, <1>3, <2>1 DEF Counts
<1>6. Upward' /\ Buffers'
  BY <1>1, UpwardKept
<1>7. Downward'
  BY <1>1 DEF Inv, Downward
<1>8. Closing'
  <2>1. open["client"]
    BY <1>1 DEF Inv, Closing, Peer
  <2> QED
    BY <1>1, <2>1 DEF Inv, Closing
<1> QED
  BY <1>4, <1>5, <1>6, <1>7, <1>8 DEF Inv

LEMMA InvPreserved == Inv /\ [Next]_vars => Inv'
<1> SUFFICES ASSUME Inv, [Next]_vars PROVE Inv'
  OBVIOUS
<1>1. CASE UNCHANGED vars
  <2>1. Upward' /\ Buffers'
    BY <1>1, UpwardKept DEF vars, conn
  <2> QED
    BY <1>1, <2>1
    DEF vars, conn, Inv, TypeOK, Counts, Downward, Closing
<1>2. CASE UpStep
  BY <1>2, OnReadClientStep, OnWriteProxyStep, CleanupStep DEF UpStep
<1>3. CASE DownStep
  BY <1>3, DownStepInv, CleanupStep DEF DownStep
<1> QED
  BY <1>1, <1>2, <1>3, StageStep, PeerStep DEF Next, Terminated

LEMMA Invariance == Spec => []Inv
BY InvInit, InvPreserved, PTL DEF Spec

-----------------------------------------------------------------------------
(* The theorems.                                                           *)

\* Every variable of the proxy keeps its type, for every stream.
THEOREM ProxyTypeCorrect == Spec => []TypeOK
<1>1. Inv => TypeOK
  BY DEF Inv
<1> QED
  BY <1>1, Invariance, PTL

\* Wherever the reads divide the stream, between the lines, in a line or
\* before its LF, and however many of them a request takes: the remote gets
\* the client's pieces in their order, none twice, and never two lines run
\* together, with debug_mode or without.
THEOREM PiecesInOrder == Spec => []InOrder
<1>1. Inv => InOrder
  <2> SUFFICES ASSUME Inv PROVE Orderly(toRemote)
    BY DEF InOrder
  <2>1. PICK l \in 0..taken["client"] :
          IF debug_mode THEN Rewritten(toRemote, 1, l)
          ELSE toRemote = Pieces(1, l)
    BY DEF Inv, Upward
  <2>2. 1 \in Nat /\ l \in Nat /\ 1 >= 1 /\ 1 <= l + 1 /\ l <= Len(Stream)
    BY Facts DEF Peer
  <2>3. CASE debug_mode
    BY <2>1, <2>3 DEF Rewritten
  <2>4. CASE ~debug_mode
    BY <2>1, <2>2, <2>4, PiecesCarry
  <2> QED
    BY <2>3, <2>4
<1> QED
  BY <1>1, Invariance, PTL

\* While the sockets are open every word that was read is written, being
\* written or collected, except those that debug_mode cuts off a line that it
\* took for a request line; and it has the first three words of that line.
THEOREM NoWordForgotten == Spec => []NothingForgotten
<1>1. Inv => NothingForgotten
  <2> DEFINE k == taken["client"]
             held == toRemote \o data_client \o request_buffer
  <2> SUFFICES ASSUME Inv, NEW n \in 1..k, Stream[n] = "text"
               PROVE  \/ \E i \in 1..Len(held) : held[i].n = n
                      \/ debug_mode /\ CutOff(held, n)
    BY DEF NothingForgotten
  <2>1. PICK l \in 0..k :
          /\ IF debug_mode THEN Rewritten(toRemote, 1, l)
             ELSE toRemote = Pieces(1, l)
          /\ Pending = Pieces(l + 1, k)
             \/ (debug_mode /\ Rewritten(Pending, l + 1, k))
    BY DEF Inv, Upward
  <2>2. /\ k \in Nat /\ k <= Len(Stream) /\ toRemote \in Seq(Piece)
        /\ Pending \in Seq(Piece) /\ data_client \in Seq(Piece)
        /\ request_buffer \in Seq(Piece)
    BY Facts DEF Peer
  <2>3. /\ l \in Nat /\ l + 1 \in Nat /\ l + 1 >= 1 /\ l + 1 <= k + 1 /\ l <= k
        /\ 1 \in Nat /\ 1 >= 1 /\ 1 <= l + 1 /\ 1 <= k + 1 /\ l <= Len(Stream)
    BY <2>2
  <2>4. held = toRemote \o Pending
    <3>1. CASE debug_mode
      BY <2>2, <3>1 DEF Inv, Buffers, Pending
    <3>2. CASE ~debug_mode
      BY <2>2, <3>2 DEF Inv, Buffers, Pending
    <3> QED
      BY <3>1, <3>2
  <2> HIDE DEF held
  <2>5. CASE debug_mode
    <3>1. Carries(toRemote, 1, l)
      BY <2>1, <2>5 DEF Rewritten
    <3>2. Carries(Pieces(l + 1, k), l + 1, k)
      BY <2>2, <2>3, PiecesCarry
    <3>3. Carries(Pending, l + 1, k)
      BY <2>1, <3>2 DEF Rewritten
    <3>4. Carries(toRemote \o Pending, 1, k)
      BY <2>2, <2>3, <3>1, <3>3, CarriesConcat
    <3> QED
      BY <2>4, <2>5, <3>4 DEF Carries
  <2>6. CASE ~debug_mode
    <3>1. held = Pieces(1, l) \o Pieces(l + 1, k)
      BY <2>1, <2>4, <2>6
    <3>2. held = Pieces(1, k)
      BY <2>2, <2>3, <3>1, ConcatPieces
    <3>3. Len(held) = k - 1 + 1
      BY <2>2, <2>3, <3>2, PiecesFacts
    <3>4. n \in 1..Len(held) /\ 1 + n - 1 = n
      BY <2>2, <3>3
    <3>5. held[n].n = 1 + n - 1
      BY <2>2, <2>3, <3>2, <3>4, PieceAt
    <3> QED
      BY <3>4, <3>5
  <2> QED
    BY <2>5, <2>6
<1> QED
  BY <1>1, Invariance, PTL

\* All the remote sent before its end has reached the client.
THEOREM RemoteDelivered == Spec => []RemoteIsDelivered
<1>1. Inv => RemoteIsDelivered
  BY DEF Inv, Closing, RemoteIsDelivered
<1> QED
  BY <1>1, Invariance, PTL

-----------------------------------------------------------------------------
(* The relay.  Relay's variables that are not the proxy's own:             *)

Broken == debug_mode \/ lost["client"] \/ lost["remote"]

Passed == [p \in Peer |->
             IF p = "remote" THEN [i \in 1..toClient |-> i]
             ELSE IF debug_mode THEN <<>>
             ELSE [i \in 1..Len(toRemote) |-> toRemote[i].n]]

Ended == [p \in Peer |-> (IF p = "client" THEN up ELSE down) = "ended"]

\* Without debug_mode the remote has the client's first pieces as they were
\* sent, and those that were read and not written are data_client.
LEMMA PlainFacts ==
  ASSUME Inv, ~debug_mode
  PROVE  LET l == Len(toRemote)
             k == taken["client"]
         IN /\ l \in 0..k /\ k \in Nat /\ k <= Len(Stream)
            /\ toRemote = Pieces(1, l) /\ data_client = Pieces(l + 1, k)
            /\ up = "writing" => l < k
            /\ up = "reading" => l = k
<1> DEFINE k == taken["client"]
<1>1. k \in Nat /\ k <= Len(Stream)
  BY Facts DEF Peer
<1>2. PICK l \in 0..k :
        /\ toRemote = Pieces(1, l) /\ data_client = Pieces(l + 1, k)
        /\ up = "writing" => l < k
  BY DEF Inv, Upward, Pending
<1> HIDE DEF k
<1>3. /\ 1 \in Nat /\ l \in Nat /\ 1 >= 1 /\ 1 <= l + 1 /\ l <= Len(Stream) /\ l - 1 + 1 = l
      /\ l + 1 \in Nat /\ l + 1 >= 1 /\ l + 1 <= k + 1 /\ k - (l + 1) + 1 = k - l
  BY <1>1
<1>4. Len(toRemote) = l
  BY <1>2, <1>3, PiecesFacts
<1>5. ASSUME up = "reading" PROVE l = k
  <2>1. data_client = <<>>
    BY <1>5 DEF Inv, Buffers
  <2>2. Len(data_client) = k - l
    BY <1>1, <1>2, <1>3, PiecesFacts
  <2>3. k - l = 0
    BY <2>1, <2>2
  <2> QED
    BY <1>1, <2>3
<1> QED
  BY <1>1, <1>2, <1>4, <1>5 DEF k

\* Their numbers.
LEMMA Numbers ==
  ASSUME NEW k \in Nat, k <= Len(Stream)
  PROVE  /\ Len(Pieces(1, k)) = k
         /\ [i \in 1..Len(Pieces(1, k)) |-> Pieces(1, k)[i].n] = [i \in 1..k |-> i]
<1> DEFINE s == Pieces(1, k)
<1>1. 1 \in Nat /\ 1 >= 1 /\ 1 <= k + 1 /\ k - 1 + 1 = k
  OBVIOUS
<1>2. Len(s) = k
  BY <1>1, PiecesFacts
<1>3. \A i \in 1..k : s[i].n = 1 + i - 1 /\ 1 + i - 1 = i
  <2> SUFFICES ASSUME NEW i \in 1..k PROVE s[i].n = 1 + i - 1
    OBVIOUS
  <2>1. i \in 1..Len(s)
    BY <1>2
  <2> QED
    BY <1>1, <2>1, PieceAt
<1> HIDE DEF s
<1>4. [i \in 1..Len(s) |-> s[i].n] = [i \in 1..k |-> i]
  BY <1>2, <1>3
<1> QED
  BY <1>2, <1>4 DEF s

LEMMA RelayState ==
  /\ Streams!vars = <<FALSE, Broken, sent, fin, Passed, Ended>>
  /\ Streams!Peer = Peer
  /\ Ended["client"] = (up = "ended") /\ Ended["remote"] = (down = "ended")
  /\ Streams!Other("client") = "remote" /\ Streams!Other("remote") = "client"
BY DEF Streams!vars, Broken, Passed, Ended, Streams!Peer, Peer, Streams!Other

LEMMA RelayInit == Init => Streams!Init
<1> SUFFICES ASSUME Init PROVE Streams!Init
  OBVIOUS
<1>1. TypeOK
  BY InvInit DEF Inv
<1>2. /\ Broken \in BOOLEAN /\ sent \in [Peer -> Nat]
      /\ fin = [p \in Peer |-> FALSE]
  BY <1>1 DEF TypeOK, Broken, Init, Peer
<1>3. Passed = [p \in Peer |-> <<>>]
  <2>1. [i \in 1..toClient |-> i] = <<>>
    BY DEF Init
  <2>2. [i \in 1..Len(toRemote) |-> toRemote[i].n] = <<>>
    BY DEF Init
  <2> QED
    BY <2>1, <2>2 DEF Passed
<1>4. Ended = [p \in Peer |-> FALSE]
  BY DEF Ended, Init, Peer
<1> QED
  BY <1>2, <1>3, <1>4 DEF Streams!Init, Streams!Peer, Peer, Broken, Passed, Ended

\* A step that no stream takes part in.
LEMMA RelayStutters ==
  ASSUME UNCHANGED <<debug_mode, lost, sent, fin, toRemote, toClient>>,
         (up' = "ended") = (up = "ended"), (down' = "ended") = (down = "ended")
  PROVE  UNCHANGED Streams!vars
<1>1. UNCHANGED <<Broken, Passed>>
  BY DEF Broken, Passed
<1>2. Ended' = Ended
  BY DEF Ended
<1> QED
  BY <1>1, <1>2 DEF Streams!vars, Broken, Passed, Ended

\* Consecutive numbers after those from 1.
LEMMA Consecutive ==
  ASSUME NEW first \in Nat, NEW k \in Nat, first >= 1, first <= k + 1
  PROVE  [i \in 1..first - 1 |-> i] \o [i \in 1..k - first + 1 |-> first + i - 1]
           = [i \in 1..k |-> i]
<1> DEFINE g == [i \in 1..first - 1 |-> i]
           h == [i \in 1..k - first + 1 |-> first + i - 1]
           u == g \o h
<1>1. g \in Seq(Nat) /\ Len(g) = first - 1 /\ \A i \in 1..Len(g) : g[i] = i
  <2>1. first - 1 \in Nat /\ g \in [1..first - 1 -> Nat]
    OBVIOUS
  <2> QED
    BY <2>1
<1>2. /\ h \in Seq(Nat) /\ Len(h) = k - first + 1
      /\ \A i \in 1..Len(h) : h[i] = Len(g) + i
  <2>1. k - first + 1 \in Nat /\ h \in [1..k - first + 1 -> Nat]
    OBVIOUS
  <2> QED
    BY <1>1, <2>1
<1> HIDE DEF g, h
<1>3. /\ u \in Seq(Nat) /\ Len(u) = Len(g) + Len(h)
      /\ \A i \in 1..Len(g) : u[i] = g[i]
      /\ \A i \in 1..Len(h) : u[Len(g) + i] = h[i]
  <2>1. g \in Seq(Nat) /\ h \in Seq(Nat)
    BY <1>1, <1>2
  <2> QED
    BY <2>1, ConcatAt
<1> HIDE DEF u
<1>4. Len(u) = k /\ u = [i \in 1..Len(u) |-> u[i]]
  BY <1>1, <1>2, <1>3
<1>5. ASSUME NEW i \in 1..k PROVE u[i] = i
  <2>1. CASE i \in 1..Len(g)
    BY <1>1, <1>3, <2>1
  <2>2. CASE i \notin 1..Len(g)
    <3>1. PICK j \in 1..Len(h) : Len(g) + j = i
      <4>1. i - Len(g) \in 1..Len(h) /\ Len(g) + (i - Len(g)) = i
        BY <1>1, <1>2, <2>2
      <4> QED
        BY <4>1
    <3> QED
      BY <1>2, <1>3, <3>1
  <2> QED
    BY <2>1, <2>2
<1>6. u = [i \in 1..k |-> i]
  BY <1>4, <1>5
<1> QED
  BY <1>6 DEF u, g, h

\* The pieces of data_client are passed on; with debug_mode, nothing is.
LEMMA WriteProxyPasses ==
  ASSUME Inv, OnWriteProxy
  PROVE  [Streams!Next]_Streams!vars
<1>1. /\ up = "writing" /\ up' = "reading" /\ down' = down
      /\ UNCHANGED <<debug_mode, lost, sent, fin, toClient>>
  BY DEF OnWriteProxy
<1>2. UNCHANGED <<Broken, Ended>>
  BY <1>1 DEF Broken, Ended
<1>3. CASE debug_mode
  <2>1. Passed' = Passed
    BY <1>1, <1>3 DEF Passed
  <2> QED
    BY <1>1, <1>2, <2>1 DEF Streams!vars, Broken, Passed, Ended
<1>4. CASE ~debug_mode
  <2> DEFINE k == taken["client"]
             g == [i \in 1..Len(toRemote) |-> toRemote[i].n]
             first == Len(toRemote) + 1
             h == [i \in 1..k - first + 1 |-> first + i - 1]
  <2>1. /\ Len(toRemote) \in 0..k /\ Len(toRemote) < k /\ k \in Nat
        /\ k <= Len(Stream)
        /\ toRemote = Pieces(1, Len(toRemote))
        /\ data_client = Pieces(Len(toRemote) + 1, k)
    BY <1>1, <1>4, PlainFacts
  <2>2. k <= sent["client"] /\ sent["client"] \in Nat
    BY Facts DEF Peer
  <2>3. toRemote' = Pieces(1, k)
    <3> DEFINE l == Len(toRemote)
    <3>1. /\ 1 \in Nat /\ l \in Nat /\ 1 >= 1 /\ 1 <= l + 1 /\ l <= k
          /\ toRemote = Pieces(1, l) /\ data_client = Pieces(l + 1, k)
      BY <2>1
    <3>2. toRemote' = toRemote \o data_client
      BY <1>4 DEF OnWriteProxy
    <3> HIDE DEF l, k
    <3>3. Pieces(1, l) \o Pieces(l + 1, k) = Pieces(1, k)
      BY <2>1, <3>1, ConcatPieces
    <3> QED
      BY <3>1, <3>2, <3>3
  <2>4. /\ first \in 1..sent["client"] /\ k \in first..sent["client"]
        /\ Len(toRemote) \in Nat
    BY <2>1, <2>2
  <2>5. Len(toRemote) <= Len(Stream)
    BY <2>1
  <2>6. [i \in 1..Len(toRemote') |-> toRemote'[i].n] = [i \in 1..k |-> i]
    BY <2>1, <2>3, Numbers
  <2>7. g = [i \in 1..Len(toRemote) |-> i]
    BY <2>1, <2>4, <2>5, Numbers
  <2>8. g \o h = [i \in 1..k |-> i]
    <3>1. Len(toRemote) \in Nat /\ first \in Nat /\ k \in Nat /\ first <= k + 1
      BY <2>1
    <3>2. [i \in 1..first - 1 |-> i] = g
      BY <2>7, <3>1
    <3>3. first >= 1
      BY <2>1
    <3>4. [i \in 1..first - 1 |-> i] \o h = [i \in 1..k |-> i]
      <4> HIDE DEF first, k
      <4> QED
        BY <3>1, <3>3, Consecutive DEF h
    <3> HIDE DEF g, first
    <3> QED
      BY <3>2, <3>4
  <2>9. Passed' = [Passed EXCEPT !["client"] = @ \o h]
    <3>1. /\ Passed["client"] = g /\ Passed' = [p \in Peer |-> Passed'[p]]
          /\ Passed = [p \in Peer |-> Passed[p]] /\ "client" \in Peer
      BY <1>4 DEF Passed, Peer
    <3>2. Passed'["client"] = [i \in 1..k |-> i]
      BY <1>1, <1>4, <2>6 DEF Passed, Peer
    <3>3. \A p \in Peer : p # "client" => Passed'[p] = Passed[p]
      BY <1>1 DEF Passed, Peer
    <3> HIDE DEF h, g
    <3>4. Passed'["client"] = Passed["client"] \o h
      BY <2>8, <3>1, <3>2
    <3> QED
      BY <3>1, <3>3, <3>4
  <2>10. Streams!MayFollow("client", first)
    <3>1. Passed["client"] = g
      BY <1>4 DEF Passed, Peer
    <3>2. IF g # <<>> THEN first = g[Len(g)] + 1 ELSE first = 1
      <4>1. Len(g) = Len(toRemote) /\ g \in Seq(Nat)
        BY <2>4, <2>7
      <4>2. CASE g # <<>>
        <5>1. Len(g) \in 1..Len(toRemote)
          BY <2>4, <4>1, <4>2
        <5> QED
          BY <2>4, <2>7, <4>1, <4>2, <5>1
      <4>3. CASE g = <<>>
        BY <2>4, <4>1, <4>3
      <4> QED
        BY <4>2, <4>3
    <3> HIDE DEF g
    <3> QED
      BY <3>1, <3>2 DEF Streams!MayFollow, Passed
  <2>11. ~Ended["client"]
    BY <1>1, RelayState
  <2> HIDE DEF h, g
  <2>12. Streams!Pass("client")
    BY <1>1, <1>2, <2>4, <2>9, <2>10, <2>11
    DEF Streams!Pass, Broken, Passed, Ended, h
  <2> QED
    BY <2>12, RelayState DEF Streams!Next, Peer
<1> QED
  BY <1>3, <1>4

\* The remote's chunk is passed on.
LEMMA WriteClientPasses ==
  ASSUME Inv, OnWriteClient
  PROVE  [Streams!Next]_Streams!vars
<1> DEFINE n == taken["remote"]
           g == [i \in 1..toClient |-> i]
           h == [i \in 1..n - n + 1 |-> n + i - 1]
<1>1. /\ down = "writing" /\ down' = "reading" /\ up' = up
      /\ toClient' = toClient + 1
      /\ UNCHANGED <<debug_mode, lost, sent, fin, toRemote>>
  BY DEF OnWriteClient
<1>2. UNCHANGED <<Broken, Ended>>
  BY <1>1 DEF Broken, Ended
<1>3. /\ toClient \in Nat /\ toClient = n - 1 /\ n \in Nat
      /\ n <= sent["remote"] /\ sent["remote"] \in Nat
  BY <1>1, Facts DEF Inv, Downward, Peer
<1>4. n \in 1..sent["remote"] /\ n \in n..sent["remote"] /\ n = toClient + 1
  BY <1>3
<1>5. g \o h = [i \in 1..toClient' |-> i]
  <2>1. h = <<n>>
    BY <1>3
  <2>2. g \in Seq(Nat) /\ Len(g) = toClient
    BY <1>3
  <2>3. g \o <<n>> = Append(g, n)
    <3> HIDE DEF g
    <3> QED
      BY <1>3, <2>2
  <2>4. Append(g, n) = [i \in 1..toClient + 1 |-> i]
    BY <1>3, <1>4, <2>2
  <2> QED
    BY <1>1, <2>1, <2>3, <2>4
<1>6. Passed' = [Passed EXCEPT !["remote"] = @ \o h]
  <2>1. /\ Passed["remote"] = g /\ Passed' = [p \in Peer |-> Passed'[p]]
        /\ Passed = [p \in Peer |-> Passed[p]] /\ "remote" \in Peer
    BY DEF Passed, Peer
  <2>2. Passed'["remote"] = [i \in 1..toClient' |-> i]
    BY DEF Passed, Peer
  <2>3. \A p \in Peer : p # "remote" => Passed'[p] = Passed[p]
    BY <1>1 DEF Passed, Peer
  <2> HIDE DEF h, g
  <2>4. Passed'["remote"] = Passed["remote"] \o h
    BY <1>5, <2>1, <2>2
  <2> QED
    BY <2>1, <2>3, <2>4
<1>7. Streams!MayFollow("remote", n)
  <2>1. Passed["remote"] = g
    BY DEF Passed, Peer
  <2>2. IF g # <<>> THEN n = g[Len(g)] + 1 ELSE n = 1
    <3>1. /\ Len(g) = toClient /\ g \in Seq(Nat)
          /\ \A i \in 1..toClient : g[i] = i
      BY <1>3
    <3> HIDE DEF g
    <3>2. CASE g # <<>>
      <4>1. toClient \in 1..toClient
        BY <1>3, <3>1, <3>2
      <4> QED
        BY <1>4, <3>1, <3>2, <4>1
    <3>3. CASE g = <<>>
      <4>1. Len(g) = 0
        BY <3>3
      <4> QED
        BY <1>4, <3>1, <3>3, <4>1
    <3> QED
      BY <3>2, <3>3
  <2> HIDE DEF g
  <2> QED
    BY <2>1, <2>2 DEF Streams!MayFollow, Passed
<1>8. ~Ended["remote"]
  BY <1>1, RelayState
<1> HIDE DEF g, h
<1>9. Streams!Pass("remote")
  BY <1>1, <1>2, <1>4, <1>6, <1>7, <1>8
  DEF Streams!Pass, Broken, Passed, Ended, h
<1> QED
  BY <1>9, RelayState DEF Streams!Next, Peer

\* A direction ends when its source has, after all of it, because the other
\* one has ended and closed the sockets, or because a connection broke.
LEMMA UpEnds ==
  ASSUME Inv, OnReadClientEnd \/ OnWriteProxyError
  PROVE  Streams!End("client")
<1>1. /\ up \in {"reading", "writing"} /\ up' = "ended" /\ down' = down
      /\ UNCHANGED <<debug_mode, lost, sent, fin, toRemote, toClient>>
  BY DEF OnReadClientEnd, OnWriteProxyError
<1>2. ~open["client"] \/ ~open["remote"] => down = "ended"
  BY <1>1 DEF Inv, Closing
<1>3. \/ down = "ended" \/ Broken
      \/ up = "reading" /\ fin["client"] /\ taken["client"] = sent["client"]
  BY <1>2 DEF OnReadClientEnd, OnWriteProxyError, ReadFails, Usable, Broken
<1>4. ASSUME ~Broken, up = "reading", taken["client"] = sent["client"]
      PROVE  Streams!AllPassed("client")
  <2> DEFINE g == [i \in 1..Len(toRemote) |-> toRemote[i].n]
  <2>1. ~debug_mode
    BY <1>4 DEF Broken
  <2>2. /\ Len(toRemote) = sent["client"] /\ Len(toRemote) \in Nat
        /\ \A i \in 1..Len(toRemote) : toRemote[i].n = i
    <3>1. /\ Len(toRemote) = sent["client"] /\ Len(toRemote) \in Nat
          /\ Len(toRemote) <= Len(Stream) /\ toRemote = Pieces(1, Len(toRemote))
      BY <1>4, <2>1, PlainFacts
    <3>2. g = [i \in 1..Len(toRemote) |-> i]
      BY <3>1, Numbers
    <3>3. \A i \in 1..Len(toRemote) : g[i] = toRemote[i].n
      OBVIOUS
    <3> HIDE DEF g
    <3> QED
      BY <3>1, <3>2, <3>3
  <2>3. Passed["client"] = g
    BY <2>1 DEF Passed, Peer
  <2>4. g \in Seq(Nat) /\ Len(g) = Len(toRemote)
    BY <2>2
  <2>5. IF g # <<>> THEN g[Len(g)] = sent["client"] ELSE sent["client"] = 0
    <3>1. CASE g # <<>>
      <4>1. Len(g) \in 1..Len(toRemote)
        BY <2>2, <2>4, <3>1
      <4> QED
        BY <2>2, <2>4, <3>1, <4>1
    <3>2. CASE g = <<>>
      BY <2>2, <2>4, <3>2
    <3> QED
      BY <3>1, <3>2
  <2> HIDE DEF g
  <2> QED
    BY <2>3, <2>5 DEF Streams!AllPassed, Passed
<1>5. UNCHANGED <<Broken, Passed>>
  BY <1>1 DEF Broken, Passed
<1>6. ~Ended["client"] /\ Ended' = [Ended EXCEPT !["client"] = TRUE]
  BY <1>1 DEF Ended, Peer
<1>7. (fin["client"] /\ Streams!AllPassed("client")) \/ Broken
      \/ Ended[Streams!Other("client")]
  BY <1>3, <1>4, RelayState
<1> QED
  BY <1>1, <1>5, <1>6, <1>7 DEF Streams!End, Broken, Passed, Ended

LEMMA DownEnds ==
  ASSUME Inv, OnReadProxyEnd \/ OnWriteClientError
  PROVE  Streams!End("remote")
<1>1. /\ down \in {"reading", "writing"} /\ down' = "ended" /\ up' = up
      /\ UNCHANGED <<debug_mode, lost, sent, fin, toRemote, toClient>>
  BY DEF OnReadProxyEnd, OnWriteClientError
<1>2. ~open["client"] \/ ~open["remote"] => up = "ended"
  BY <1>1 DEF Inv, Closing
<1>3. \/ up = "ended" \/ Broken
      \/ down = "reading" /\ fin["remote"] /\ taken["remote"] = sent["remote"]
  BY <1>2 DEF OnReadProxyEnd, OnWriteClientError, ReadFails, Usable, Broken
<1>4. ASSUME down = "reading", taken["remote"] = sent["remote"]
      PROVE  Streams!AllPassed("remote")
  <2> DEFINE g == [i \in 1..toClient |-> i]
  <2>1. toClient = sent["remote"] /\ toClient \in Nat
    BY <1>4, Facts DEF Inv, Downward
  <2>2. Passed["remote"] = g
    BY DEF Passed, Peer
  <2>3. g \in Seq(Nat) /\ Len(g) = toClient
    BY <2>1
  <2>4. IF g # <<>> THEN g[Len(g)] = sent["remote"] ELSE sent["remote"] = 0
    <3>1. CASE g # <<>>
      <4>1. toClient \in 1..toClient
        BY <2>1, <2>3, <3>1
      <4> QED
        BY <2>1, <2>3, <3>1, <4>1
    <3>2. CASE g = <<>>
      BY <2>1, <2>3, <3>2
    <3> QED
      BY <3>1, <3>2
  <2> HIDE DEF g
  <2> QED
    BY <2>2, <2>4 DEF Streams!AllPassed, Passed
<1>5. UNCHANGED <<Broken, Passed>>
  BY <1>1 DEF Broken, Passed
<1>6. ~Ended["remote"] /\ Ended' = [Ended EXCEPT !["remote"] = TRUE]
  BY <1>1 DEF Ended, Peer
<1>7. (fin["remote"] /\ Streams!AllPassed("remote")) \/ Broken
      \/ Ended[Streams!Other("remote")]
  BY <1>3, <1>4, RelayState
<1> QED
  BY <1>1, <1>5, <1>6, <1>7 DEF Streams!End, Broken, Passed, Ended

LEMMA PeerStepsRelay ==
  ASSUME Inv, NEW p \in Peer, PeerSends(p) \/ PeerFin(p) \/ PeerReset(p)
  PROVE  [Streams!Next]_Streams!vars
<1>1. UNCHANGED <<Passed, Ended, debug_mode>>
  <2>1. UNCHANGED <<debug_mode, toRemote, toClient, up, down>>
    BY DEF PeerSends, PeerFin, PeerReset, conn
  <2> QED
    BY <2>1 DEF Passed, Ended
<1>2. CASE PeerSends(p)
  <2>1. Streams!Send(p)
    BY <1>1, <1>2
    DEF PeerSends, Sending, Streams!Send, Broken, Passed, Ended
  <2> QED
    BY <2>1, RelayState DEF Streams!Next
<1>3. CASE PeerFin(p)
  <2>1. Streams!Finish(p)
    BY <1>1, <1>3 DEF PeerFin, Streams!Finish, Broken, Passed, Ended
  <2> QED
    BY <2>1, RelayState DEF Streams!Next
<1>4. CASE PeerReset(p)
  <2>1. Broken' = TRUE
    BY <1>4 DEF PeerReset, Broken, Peer, Inv, TypeOK
  <2>2. Streams!Break
    BY <1>1, <1>4, <2>1
    DEF PeerReset, Streams!Break, Broken, Passed, Ended
  <2> QED
    BY <2>2 DEF Streams!Next
<1> QED
  BY <1>2, <1>3, <1>4

LEMMA ProxyStepsRelay ==
  Inv /\ [Next]_vars => [Streams!Next]_Streams!vars
<1> SUFFICES ASSUME Inv, [Next]_vars PROVE [Streams!Next]_Streams!vars
  OBVIOUS
<1>1. CASE UNCHANGED vars \/ OnAccept \/ OnAcceptError \/ OnConnect \/ Destroy
           \/ OnReadClient \/ OnReadProxy
  <2>1. /\ UNCHANGED <<debug_mode, lost, sent, fin, toRemote, toClient>>
        /\ (up' = "ended") = (up = "ended")
        /\ (down' = "ended") = (down = "ended")
    BY <1>1 DEF vars, conn, OnAccept, OnAcceptError, OnConnect, Destroy,
       OnReadClient, ReadDebug, ReadPlain, OnReadProxy, Inv, Closing
  <2> QED
    BY <2>1, RelayStutters
<1>2. CASE OnReadClientEnd \/ OnWriteProxyError
  BY <1>2, UpEnds, RelayState DEF Streams!Next, Peer
<1>3. CASE OnReadProxyEnd \/ OnWriteClientError
  BY <1>3, DownEnds, RelayState DEF Streams!Next, Peer
<1> QED
  BY <1>1, <1>2, <1>3, WriteProxyPasses, WriteClientPasses, PeerStepsRelay
  DEF Next, UpStep, DownStep, Terminated

\* The proxy implements Relay: both streams without debug_mode, the way back
\* with it.
THEOREM ProxyImplementsRelay == Spec => ImplementsRelay
BY Invariance, RelayInit, ProxyStepsRelay, PTL
DEF Spec, ImplementsRelay, Streams!Spec
-----------------------------------------------------------------------------
(* What the remote gets.  RequestIsForwarded fails with debug_mode; from a  *)
(* proxy without it, and with it:                                           *)

\* Without debug_mode the remote gets the client's stream as it was sent, and
\* whenever the client is read again it has all that was read before: what
\* RequestIsForwarded asks for, short of its "eventually".
THEOREM PlainStreamIsUnchanged ==
  Spec => [](~debug_mode =>
               /\ \A i \in 1..Len(toRemote) :
                    toRemote[i] = [n |-> i, kind |-> Stream[i]]
               /\ up = "reading" => Len(toRemote) = taken["client"])
<1>1. ASSUME Inv, ~debug_mode
      PROVE  /\ \A i \in 1..Len(toRemote) :
                  toRemote[i] = [n |-> i, kind |-> Stream[i]]
             /\ up = "reading" => Len(toRemote) = taken["client"]
  <2> DEFINE l == Len(toRemote)
  <2>1. /\ l \in Nat /\ l <= Len(Stream) /\ toRemote = Pieces(1, l)
        /\ up = "reading" => l = taken["client"]
    BY <1>1, PlainFacts
  <2> HIDE DEF l
  <2>2. 1 \in Nat /\ 1 >= 1 /\ 1 <= l + 1 /\ l - 1 + 1 = l
        /\ \A i \in 1..l : 1 + i - 1 = i
    BY <2>1
  <2>3. \A i \in 1..l - 1 + 1 :
          toRemote[i] = [n |-> 1 + i - 1, kind |-> Stream[1 + i - 1]]
    BY <2>1, <2>2, PiecesFacts
  <2> QED
    BY <2>1, <2>2, <2>3 DEF l
<1>2. Inv => (~debug_mode =>
                /\ \A i \in 1..Len(toRemote) :
                     toRemote[i] = [n |-> i, kind |-> Stream[i]]
                /\ up = "reading" => Len(toRemote) = taken["client"])
  BY <1>1
<1> QED
  BY <1>2, Invariance, PTL

\* With debug_mode no LF of the client's reaches the remote, and the CR that
\* getline leaves is followed by the CR LF that is written for it: every line
\* ends with CR CR LF but those that are built from their words.
THEOREM DebugEndsAreDoubled == Spec => [](debug_mode => DoubledEnds(toRemote))
<1>1. Inv => (debug_mode => DoubledEnds(toRemote))
  BY DEF Inv, Upward, Rewritten
<1> QED
  BY <1>1, Invariance, PTL

-----------------------------------------------------------------------------
(* What closing the sockets leads to.                                      *)

\* A connection that relays has started both directions.
Started == stage = "relaying" => up # "idle" /\ down # "idle"

Closed ==
  /\ stage = "relaying"
  /\ \A p \in Peer : ~open[p]
  /\ up \in {"reading", "writing", "ended"}
  /\ down \in {"reading", "writing", "ended"}

\* Both directions are started together and never go back.
LEMMA StartedInvariance == Spec => []Started
<1>1. Init => Started
  BY DEF Init, Started
<1>2. Started /\ [Next]_vars => Started'
  BY DEF Next, OnAccept, OnAcceptError, OnConnect, UpStep, DownStep, Destroy,
     OnReadClient, ReadPlain, ReadDebug, OnReadClientEnd, OnWriteProxy,
     OnWriteProxyError, OnReadProxy, OnReadProxyEnd, OnWriteClient,
     OnWriteClientError, PeerSends, PeerFin, PeerReset, Terminated, conn, vars,
     Started
<1> QED
  BY <1>1, <1>2, PTL DEF Spec

\* A socket that cleanup has closed is not used again: nothing is read or
\* written any more, and an operation that is outstanding only ends.
LEMMA ClosedStep ==
  Closed /\ [Next]_vars =>
    /\ UNCHANGED <<taken, toRemote, toClient, request_buffer, data_client>>
    /\ up' \in {up, "ended"} /\ down' \in {down, "ended"}
    /\ Closed' \/ stage' = "gone"
<1> SUFFICES ASSUME Closed, [Next]_vars
             PROVE  /\ UNCHANGED <<taken, toRemote, toClient, request_buffer,
                                   data_client>>
                    /\ up' \in {up, "ended"} /\ down' \in {down, "ended"}
                    /\ Closed' \/ stage' = "gone"
  OBVIOUS
<1> USE DEF Closed
<1>1. ~Usable("client") /\ ~Usable("remote")
  BY DEF Usable, Peer
<1>2. ~OnAccept /\ ~OnConnect
  BY DEF OnAccept, OnConnect
<1>3. CASE UpStep
  BY <1>1, <1>3
  DEF UpStep, OnReadClient, OnReadClientEnd, OnWriteProxy, OnWriteProxyError,
      cleanup, Peer
<1>4. CASE DownStep
  BY <1>1, <1>4
  DEF DownStep, OnReadProxy, OnReadProxyEnd, OnWriteClient, OnWriteClientError,
      cleanup, Peer
<1>5. CASE Destroy
  BY <1>5 DEF Destroy
<1>6. CASE OnAcceptError \/ Terminated \/ UNCHANGED vars
  BY <1>6 DEF OnAcceptError, Terminated, vars, conn
<1>7. CASE \E p \in Peer : PeerSends(p) \/ PeerFin(p) \/ PeerReset(p)
  BY <1>7 DEF PeerSends, PeerFin, PeerReset, conn
<1> QED
  BY <1>2, <1>3, <1>4, <1>5, <1>6, <1>7 DEF Next

\* After cleanup nothing passes through the proxy any more, in either
\* direction, whatever was being read or written.
THEOREM ClosedProxyIsSilent ==
  Spec => [][Closed => UNCHANGED <<taken, toRemote, toClient>>]_vars
<1>1. Closed /\ [Next]_vars => UNCHANGED <<taken, toRemote, toClient>>
  BY ClosedStep
<1>2. [Next]_vars => [Closed => UNCHANGED <<taken, toRemote, toClient>>]_vars
  BY <1>1
<1> QED
  BY <1>2, PTL DEF Spec

\* What a closed connection may still have outstanding.
ReadClientFails == Closed /\ up = "reading"

WriteProxyFails == Closed /\ up = "writing"

ReadProxyFails == Closed /\ down = "reading"

WriteClientFails == Closed /\ down = "writing"

UpOver == Closed /\ up = "ended"

DownOver == Closed /\ down = "ended"

\* The prover takes ENABLED for an unknown: these are the states in which, by
\* their guards, the handlers of a closed connection can run.
FailuresAreHandled ==
  /\ ReadClientFails => ENABLED <<OnReadClientEnd>>_vars
  /\ WriteProxyFails => ENABLED <<OnWriteProxyError>>_vars
  /\ ReadProxyFails => ENABLED <<OnReadProxyEnd>>_vars
  /\ WriteClientFails => ENABLED <<OnWriteClientError>>_vars
  /\ UpOver /\ DownOver => ENABLED <<Destroy>>_vars

\* cleanup is enough to release a connection, whatever its directions were
\* doing: each outstanding operation fails, its handler starts nothing else,
\* and when both directions are over nothing refers to the connection.
THEOREM CleanupIsEnough == FairSpec /\ []FailuresAreHandled => CleanupReleases
<1> DEFINE AnyClosed == stage = "relaying" /\ \E p \in Peer : ~open[p]
           Gone == stage = "gone"
<1>1. Inv /\ Started /\ AnyClosed => Closed
  BY DEF Inv, TypeOK, Closing, Started, Closed, Peer
<1>2. Closed => \/ ReadClientFails \/ WriteProxyFails \/ UpOver
  BY DEF Closed, ReadClientFails, WriteProxyFails, UpOver
<1>3. Closed => \/ ReadProxyFails \/ WriteClientFails \/ DownOver
  BY DEF Closed, ReadProxyFails, WriteClientFails, DownOver
<1>4. ReadClientFails /\ [Next]_vars => ReadClientFails' \/ UpOver' \/ Gone'
  BY ClosedStep DEF ReadClientFails, UpOver
<1>5. WriteProxyFails /\ [Next]_vars => WriteProxyFails' \/ UpOver' \/ Gone'
  BY ClosedStep DEF WriteProxyFails, UpOver
<1>6. ReadProxyFails /\ [Next]_vars => ReadProxyFails' \/ DownOver' \/ Gone'
  BY ClosedStep DEF ReadProxyFails, DownOver
<1>7. WriteClientFails /\ [Next]_vars => WriteClientFails' \/ DownOver' \/ Gone'
  BY ClosedStep DEF WriteClientFails, DownOver
<1>8. /\ UpOver /\ [Next]_vars => UpOver' \/ Gone'
      /\ DownOver /\ [Next]_vars => DownOver' \/ Gone'
  BY ClosedStep DEF UpOver, DownOver
<1>9. /\ <<OnReadClientEnd>>_vars => ~ReadClientFails'
      /\ <<OnWriteProxyError>>_vars => ~WriteProxyFails'
      /\ <<OnReadProxyEnd>>_vars => ~ReadProxyFails'
      /\ <<OnWriteClientError>>_vars => ~WriteClientFails'
  BY DEF OnReadClientEnd, OnWriteProxyError, OnReadProxyEnd, OnWriteClientError,
     ReadClientFails, WriteProxyFails, ReadProxyFails, WriteClientFails
<1>10. <<Destroy>>_vars => Gone'
  BY DEF Destroy
<1> HIDE DEF AnyClosed, Gone
<1>11. FairSpec /\ []FailuresAreHandled => (AnyClosed ~> Gone)
  BY <1>1, <1>2, <1>3, <1>4, <1>5, <1>6, <1>7, <1>8, <1>9, <1>10,
     Invariance, StartedInvariance, PTL
  DEF FairSpec, Spec, Fairness, FailuresAreHandled
<1> QED
  BY <1>11 DEF AnyClosed, Gone, CleanupReleases
=============================================================================
