----------------------------- MODULE MCPairing -----------------------------
(* QrScan on small instances: images of 12 x 8 pixels, as in the tests of  *)
(* camera_frame.rs, a sensor turned by 90 degrees.                         *)
EXTENDS QrScan, TLC

CONSTANTS h1, s1, s2, k1, k2, Bad

TwelveByEight == [width |-> 12, height |-> 8]
PortraitAndLandscape ==
    0 :> [width |-> 4, height |-> 8, box |-> 4] @@ 90 :> [width |-> 8, height |-> 4, box |-> 2]

Info(sid, code, name) == [host |-> h1, port |-> 1, sid |-> sid, code |-> code, name |-> name]

\* In the box whichever way the display is turned, then only upright; and what a code
\* of something else stands for.
CodesInView ==
    {[at |-> <<6, 4>>, link |-> Uri(Info(s1, k1, "Desktop"))],
     [at |-> <<3, 2>>, link |-> Uri(Info(s1, k1, "Desktop"))],
     [at |-> <<6, 3>>, link |-> [PairingLink(<<>>) EXCEPT !.scheme = "https"]]}

\* The desktop; the desktop of an older version; one that was restarted, with another
\* code and session; and a program that has the code and says what it likes.
PeersAtAddress ==
    {[code |-> k1, sid |-> s1, version |-> 3, reference |-> TRUE],
     [code |-> k1, sid |-> s1, version |-> 2, reference |-> TRUE],
     [code |-> k2, sid |-> s2, version |-> 3, reference |-> TRUE],
     [code |-> k1, sid |-> s2, version |-> 3, reference |-> FALSE]}

InfosTried == {[Info(s1, k1, name) EXCEPT !.port = port] :
                name \in {"Desktop", "Mac"}, port \in {1, MaxPort}}

\* The query of an info in some order, whole or without one pair, with one pair
\* anywhere in it: its own, a valid or invalid one of the same field, an unknown one.
PairsTried ==
    {<<"host", h1>>, <<"host", Bad>>, <<"sid", s1>>, <<"sid", Bad>>, <<"code", k1>>,
     <<"code", Bad>>, <<"name", "Desktop">>, <<"name", "Mac">>, <<"name", Bad>>,
     <<"port", 1>>, <<"port", MaxPort>>, <<"port", 0>>, <<"port", MaxPort + 1>>,
     <<"port", Bad>>, <<"version", 3>>}
Turns(q) == {[n \in 1 .. Len(q) |-> q[((n + k) % Len(q)) + 1]] : k \in 1 .. Len(q)}
Orders(q) == Turns(q) \cup Turns(Reverse(q))
QueriesTried ==
    LET whole == UNION {Orders(Uri(info).query) : info \in InfosTried}
        short == {Tail(q) : q \in whole}
        base == whole \cup short \cup {Tail(q) : q \in short}
    IN base \cup {InsertAt(q, n, pair) : q \in base, n \in 1 .. 4, pair \in PairsTried}
LinksTried ==
    {PairingLink(q) : q \in QueriesTried}
    \cup {[Uri(Info(s1, k1, "Mac")) EXCEPT !.scheme = "https"],
          [Uri(Info(s1, k1, "Mac")) EXCEPT !.host = "open"],
          [Uri(Info(s1, k1, "Mac")) EXCEPT !.path = "/"],
          [Uri(Info(s1, k1, "Mac")) EXCEPT !.fragment = TRUE]}
=============================================================================
