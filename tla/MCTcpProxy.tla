----------------------------- MODULE MCTcpProxy -----------------------------
(***************************************************************************)
(* The instances of TcpProxy that TLC checks.  A request line of three     *)
(* words is as HTTP has it; a body may have any lines.                     *)
(***************************************************************************)
EXTENDS TcpProxy

Blank == <<"cr", "lf">>

\* A line of n words.
TextLine(n) ==
  [i \in 1..2 * n - 1 |-> IF i % 2 = 1 THEN "text" ELSE "space"] \o Blank

\* A request that is blank, a line of four words of which the third is in two
\* parts, and the blank line that a second request would end with.  A read that
\* ends in the line makes a request line of its first words, or of its last.
TwoRequests ==
  Blank \o Blank
    \o <<"text", "space", "text", "space", "text", "text", "space", "text">>
    \o Blank \o Blank

\* A request without headers whose body is one word.
OneRequest == TextLine(3) \o Blank \o <<"text">>
=============================================================================
