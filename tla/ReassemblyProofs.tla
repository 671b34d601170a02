-------------------------- MODULE ReassemblyProofs --------------------------
(***************************************************************************)
(* What feed makes of a direction of usbmux traffic, for any packets and   *)
(* any way to cut them into transfers: a direction captured from its start *)
(* takes only steps of a FIFO channel, and what waits in the buffer is     *)
(* less than a packet, whatever it is.                                     *)
(***************************************************************************)
EXTENDS MuxFraming, SequenceLemmas, TLAPS

-----------------------------------------------------------------------------
(* The loop of feed, as one iteration and the rest.  The recursive function *)
(* Parsed exists because a packet that is cut off leaves a shorter buffer.  *)

Results == [rest : Seq(Nat), packets : Seq([protocol : 0..TCP, body : Seq(Nat)]), lost : {0, 1}]

\* A packet is cut off the buffer; otherwise the loop ends.
Cuts(b) == Len(b) >= V1 /\ ~LostFraming(b) /\ Complete(b)
Ends(b) ==
    IF Len(b) >= V1 /\ LostFraming(b) THEN [rest |-> <<>>, packets |-> <<>>, lost |-> 1]
                                      ELSE [rest |-> b, packets |-> <<>>, lost |-> 0]
Joined(p, more) == [more EXCEPT !.packets = <<p>> \o @]
Iteration(f, b) == IF Cuts(b) THEN Joined(FirstPacket(b), f[AfterPacket(b)]) ELSE Ends(b)

\* Buffers of a bounded length, and the loop on them.
Within(n) == {b \in Seq(Nat) : Len(b) <= n}
Parses(f, n) == f = [b \in Within(n) |-> Iteration(f, b)]

\* A packet that is cut off leaves a buffer that is shorter.
LEMMA CutShortens ==
    ASSUME NEW b \in Seq(Nat), Cuts(b)
    PROVE  /\ AfterPacket(b) \in Seq(Nat)
           /\ Len(AfterPacket(b)) = Len(b) - b[2]
           /\ b[2] \in Nat /\ b[2] >= 2 /\ b[2] <= Len(b)
<1>1. Len(b) \in Nat /\ Len(b) >= 2 /\ b[1] \in Nat /\ b[2] \in Nat /\ b[2] >= 2 /\ b[2] <= Len(b)
  BY DEF Cuts, LostFraming, Complete, LengthOf, V1
<1>2. AfterPacket(b) = SubSeq(b, b[2] + 1, Len(b))
  BY DEF AfterPacket, LengthOf
<1>3. SubSeq(b, b[2] + 1, Len(b)) \in Seq(Nat) /\ Len(SubSeq(b, b[2] + 1, Len(b))) = Len(b) - b[2]
  BY <1>1
<1> QED BY <1>1, <1>2, <1>3

\* The packet that is cut off is one processPacket may be given.
LEMMA CutIsPacket ==
    ASSUME NEW b \in Seq(Nat), Cuts(b)
    PROVE  FirstPacket(b) \in [protocol : 0..TCP, body : Seq(Nat)]
<1>1. Len(b) \in Nat /\ Len(b) >= 2 /\ b[1] \in Nat /\ b[2] \in Nat /\ b[2] >= 2 /\ b[2] <= Len(b)
  BY CutShortens DEF Cuts, V1
<1>2. b[1] \in 0..TCP
  BY <1>1 DEF Cuts, LostFraming, TCP
<1>3. HeaderLength(b) \in {2, 4} /\ HeaderLength(b) <= b[2]
  BY <1>1 DEF HeaderLength, LengthOf, V1, V2
<1>4. SubSeq(b, HeaderLength(b) + 1, b[2]) \in Seq(Nat)
  <2> DEFINE h == HeaderLength(b) + 1
             l == b[2]
  <2>1. h \in Nat /\ l \in Nat /\ l <= Len(b) /\ 1 <= h /\ h <= l + 1
    BY <1>1, <1>3
  <2> HIDE DEF h, l
  <2>2. SubSeq(b, h, l) \in Seq(Nat)
    BY <2>1, PartTyped
  <2> QED BY <2>2 DEF h, l
<1> QED BY <1>2, <1>4 DEF FirstPacket, LengthOf

\* Two loops on buffers of different lengths agree where both are.
LEMMA ParsesAgree ==
    ASSUME NEW m \in Nat, NEW n \in Nat, NEW f, NEW g, Parses(f, m), Parses(g, n)
    PROVE  \A b \in Seq(Nat) : Len(b) <= m /\ Len(b) <= n => f[b] = g[b]
<1> DEFINE S == {k \in Nat : \A b \in Seq(Nat) :
                    Len(b) <= k /\ Len(b) <= m /\ Len(b) <= n => f[b] = g[b]}
<1>0. \A b \in Seq(Nat) : Len(b) <= m /\ Len(b) <= n =>
          f[b] = Iteration(f, b) /\ g[b] = Iteration(g, b)
  BY DEF Parses, Within
<1>1. 0 \in S
  <2> SUFFICES ASSUME NEW b \in Seq(Nat), Len(b) <= 0 PROVE f[b] = g[b]
    OBVIOUS
  <2>1. ~Cuts(b)
    BY DEF Cuts, V1
  <2> QED BY <2>1, <1>0 DEF Iteration
<1>2. ASSUME NEW k \in S PROVE k + 1 \in S
  <2> SUFFICES ASSUME NEW b \in Seq(Nat), Len(b) <= k + 1, Len(b) <= m, Len(b) <= n
               PROVE  f[b] = g[b]
    OBVIOUS
  <2>1. CASE ~Cuts(b)
    BY <2>1, <1>0 DEF Iteration
  <2>2. CASE Cuts(b)
    <3>1. /\ AfterPacket(b) \in Seq(Nat) /\ Len(AfterPacket(b)) <= k
          /\ Len(AfterPacket(b)) <= m /\ Len(AfterPacket(b)) <= n
      BY SMTT(40), <2>2, CutShortens
    <3>2. f[AfterPacket(b)] = g[AfterPacket(b)]
      BY <3>1
    <3> QED BY <2>2, <3>2, <1>0 DEF Iteration
  <2> QED BY <2>1, <2>2
<1>3. S = Nat
  <2> HIDE DEF S
  <2> QED BY <1>1, <1>2, SetOfNaturals, S \in SUBSET Nat DEF S
<1> QED BY <1>3

\* There is a loop on buffers of every length.
LEMMA ParsesExists ==
    \A n \in Nat : \E f : Parses(f, n)
<1> DEFINE S == {n \in Nat : \E f : Parses(f, n)}
<1>1. 0 \in S
  <2> DEFINE f == [b \in Within(0) |-> Ends(b)]
  <2>1. \A b \in Within(0) : ~Cuts(b)
    BY DEF Within, Cuts, V1
  <2>2. \A b \in Within(0) : Iteration(f, b) = Ends(b)
    BY <2>1 DEF Iteration
  <2>3. Parses(f, 0)
    BY <2>2, Zenon DEF Parses
  <2> QED BY <2>3
<1>2. ASSUME NEW n \in S PROVE n + 1 \in S
  <2>1. PICK f : Parses(f, n)
    OBVIOUS
  <2> DEFINE g == [b \in Within(n + 1) |-> Iteration(f, b)]
  <2>2. \A b \in Within(n) : b \in Within(n + 1) /\ f[b] = Iteration(f, b)
    BY <2>1 DEF Within, Parses
  <2>3. \A b \in Within(n) : g[b] = f[b]
    BY <2>2
  <2>4. ASSUME NEW b \in Within(n + 1), Cuts(b) PROVE AfterPacket(b) \in Within(n)
    BY SMTT(40), <2>4, CutShortens DEF Within
  <2>5. \A b \in Within(n + 1) : Iteration(g, b) = Iteration(f, b)
    <3> HIDE DEF g
    <3> QED BY <2>3, <2>4 DEF Iteration
  <2>6. Parses(g, n + 1)
    BY <2>5, Zenon DEF Parses
  <2> QED BY <2>6
<1>3. S = Nat
  <2> HIDE DEF S
  <2> QED BY <1>1, <1>2, SetOfNaturals, S \in SUBSET Nat DEF S
<1> QED BY <1>3

\* Parsed takes one iteration and goes on with what it leaves.
LEMMA ParsedIteration ==
    ASSUME NEW b \in Seq(Nat)
    PROVE  Parsed[b] = Iteration(Parsed, b)
<1> DEFINE Loop(f) == [c \in Seq(Nat) |->
        IF Len(c) < V1 THEN [rest |-> c, packets |-> <<>>, lost |-> 0]
        ELSE IF LostFraming(c) THEN [rest |-> ResyncAt(c), packets |-> <<>>, lost |-> 1]
        ELSE IF ~Complete(c) THEN [rest |-> c, packets |-> <<>>, lost |-> 0]
        ELSE LET more == f[AfterPacket(c)]
             IN  [more EXCEPT !.packets = <<FirstPacket(c)>> \o @]]
<1>1. ASSUME NEW f PROVE Loop(f) = [c \in Seq(Nat) |-> Iteration(f, c)]
  <2> SUFFICES ASSUME NEW c \in Seq(Nat) PROVE Loop(f)[c] = Iteration(f, c)
    BY Zenon
  <2>1. Len(c) \in Nat
    OBVIOUS
  <2> QED BY <2>1 DEF Iteration, Cuts, Ends, Joined, ResyncAt, V1
<1>2. Parsed = CHOOSE f : f = Loop(f)
  BY Zenon DEF Parsed
<1> HIDE DEF Loop
<1> DEFINE F(n) == CHOOSE f : Parses(f, n)
           g == [c \in Seq(Nat) |-> F(Len(c))[c]]
<1>3. \A n \in Nat : Parses(F(n), n)
  BY ParsesExists
<1> HIDE DEF F
<1>4. ASSUME NEW c \in Seq(Nat) PROVE g[c] = Iteration(g, c)
  <2>1. Len(c) \in Nat /\ Parses(F(Len(c)), Len(c))
    BY <1>3
  <2>2. g[c] = Iteration(F(Len(c)), c)
    BY SMTT(40), <2>1 DEF Parses, Within
  <2>3. CASE ~Cuts(c)
    BY <2>2, <2>3 DEF Iteration
  <2>4. CASE Cuts(c)
    <3> DEFINE d == AfterPacket(c)
    <3>1. d \in Seq(Nat) /\ Len(d) \in Nat /\ Len(d) <= Len(c)
      BY <2>4, CutShortens
    <3> HIDE DEF d
    <3>2. F(Len(c))[d] = F(Len(d))[d]
      BY <2>1, <3>1, <1>3, ParsesAgree
    <3>3. g[d] = F(Len(c))[d]
      BY <3>1, <3>2
    <3> HIDE DEF g
    <3> QED BY <2>2, <2>4, <3>3 DEF Iteration, d
  <2> QED BY <2>3, <2>4
<1>5. g = Loop(g)
  BY <1>1, <1>4, Zenon
<1> HIDE DEF g
<1>6. Parsed = Loop(Parsed)
  BY <1>2, <1>5, Zenon
<1>7. Parsed = [c \in Seq(Nat) |-> Iteration(Parsed, c)]
  BY <1>1, <1>6, Zenon
<1> QED BY <1>7

-----------------------------------------------------------------------------
(* What the loop leaves, and what it makes of the packets of the peer.      *)

\* A buffer the loop leaves as it is: less than a packet.
Waits(b) == Len(b) < V1 \/ (~LostFraming(b) /\ ~Complete(b))

\* Whatever is in the buffer, what goes to processPacket has a protocol and a
\* payload, framing is lost at most once, and what stays is less than a packet.
LEMMA ParsedTyped ==
    \A b \in Seq(Nat) : Parsed[b] \in Results /\ Waits(Parsed[b].rest)
<1> DEFINE Fine(b) == Parsed[b] \in Results /\ Waits(Parsed[b].rest)
           S == {n \in Nat : \A b \in Seq(Nat) : Len(b) <= n => Fine(b)}
<1>1. ASSUME NEW b \in Seq(Nat), ~Cuts(b) PROVE Fine(b)
  <2>1. Parsed[b] = Ends(b)
    BY <1>1, ParsedIteration DEF Iteration
  <2>2. Len(b) \in Nat /\ Waits(<<>>)
    BY DEF Waits, V1
  <2>3. Ends(b) \in Results /\ Waits(Ends(b).rest)
    BY <1>1, <2>2 DEF Ends, Results, Waits, Cuts, V1
  <2> QED BY <2>1, <2>3
<1>2. 0 \in S
  <2> SUFFICES ASSUME NEW b \in Seq(Nat), Len(b) <= 0 PROVE Fine(b)
    OBVIOUS
  <2> HIDE DEF Fine
  <2> QED BY <1>1 DEF Cuts, V1
<1>3. ASSUME NEW n \in S PROVE n + 1 \in S
  <2>0. n \in Nat /\ n + 1 \in Nat
    OBVIOUS
  <2> SUFFICES ASSUME NEW b \in Seq(Nat), Len(b) <= n + 1, Cuts(b) PROVE Fine(b)
    BY <2>0, <1>1
  <2> DEFINE c == AfterPacket(b)
             p == FirstPacket(b)
  <2>1. c \in Seq(Nat) /\ Len(c) <= n
    <3>1. Len(b) \in Nat
      OBVIOUS
    <3>2. c \in Seq(Nat) /\ Len(c) = Len(b) - b[2] /\ b[2] \in Nat /\ b[2] >= 2
      BY CutShortens
    <3> HIDE DEF c
    <3> QED BY <2>0, <3>1, <3>2
  <2>2. Fine(c)
    BY <2>1
  <2>3. p \in [protocol : 0..TCP, body : Seq(Nat)]
    BY CutIsPacket
  <2>4. Parsed[b] = Joined(p, Parsed[c])
    BY ParsedIteration DEF Iteration
  <2> HIDE DEF c, p
  <2>5. /\ Joined(p, Parsed[c]) \in Results
        /\ Joined(p, Parsed[c]).rest = Parsed[c].rest
    <3> DEFINE r == Parsed[c]
               M == [protocol : 0..TCP, body : Seq(Nat)]
    <3>1. r \in [rest : Seq(Nat), packets : Seq(M), lost : {0, 1}] /\ p \in M
      BY <2>2, <2>3 DEF Results
    <3> HIDE DEF r, M
    <3>2. /\ Joined(p, r) \in [rest : Seq(Nat), packets : Seq(M), lost : {0, 1}]
          /\ Joined(p, r).rest = r.rest
      <4>1. <<p>> \o r.packets \in Seq(M)
        BY <3>1
      <4> QED BY <3>1, <4>1 DEF Joined
    <3> QED BY <3>2 DEF r, M, Results
  <2> QED BY <2>2, <2>4, <2>5
<1>4. S = Nat
  <2> HIDE DEF S
  <2> QED BY <1>2, <1>3, SetOfNaturals, S \in SUBSET Nat DEF S
<1>5. ASSUME NEW b \in Seq(Nat) PROVE Fine(b)
  <2>1. Len(b) \in Nat /\ Len(b) <= Len(b)
    OBVIOUS
  <2>2. Len(b) \in S
    <3> HIDE DEF S
    <3> QED BY <1>4, <2>1
  <2> HIDE DEF Fine
  <2> QED BY <2>1, <2>2
<1> QED BY <1>5

\* A packet is never larger than the largest one, so what waits is smaller.
LEMMA WaitingIsBounded ==
    ASSUME NEW b \in Seq(Nat), Waits(b)
    PROVE  Len(b) < MaxPacket
<1>1. Len(b) \in Nat /\ MaxPacket \in Nat /\ MaxPacket >= 4
  BY FramingAssumption DEF V2
<1>2. CASE Len(b) < V1
  BY <1>1, <1>2 DEF V1
<1>3. CASE ~(Len(b) < V1)
  <2>1. b[2] \in Nat
    BY <1>1, <1>3 DEF V1
  <2> QED BY <1>1, <1>3, <2>1 DEF Waits, LostFraming, Complete, LengthOf, V1
<1> QED BY <1>2, <1>3

\* A buffer begins with a header and a body.
BeginsWith(b, h, body, x) == b = (h \o body) \o x

\* A header and a body of the length it gives are cut off what follows them.
LEMMA HeaderAndBody ==
    ASSUME NEW h \in Seq(Nat), NEW body \in Seq(Nat), NEW x \in Seq(Nat),
           NEW b, BeginsWith(b, h, body, x), (Len(h) = 2 \/ Len(h) = 4), h[1] <= 6, h[2] = Len(h) + Len(body), Len(body) + 4 <= MaxPacket
    PROVE  /\ b \in Seq(Nat) /\ b[2] = Len(h) + Len(body)
           /\ Len(h) = 4 => b[3] = h[3]
           /\ Len(h) = 2 /\ Len(body) >= 2 => b[3] = body[1]
           /\ Cuts(b)
           /\ HeaderLength(b) = Len(h) => FirstPacket(b) = [protocol |-> h[1], body |-> body]
           /\ AfterPacket(b) = x
<1> DEFINE n == Len(body)
           k == Len(h)
<1>1. n \in Nat /\ k \in Nat /\ k >= 2 /\ k <= 4 /\ Len(x) \in Nat /\ h[1] \in Nat /\ MaxPacket \in Nat
  <2>1. n \in Nat /\ k \in Nat /\ Len(x) \in Nat
    OBVIOUS
  <2>2. k >= 2 /\ k <= 4
    <3>1. k = 2 \/ k = 4
      OBVIOUS
    <3> HIDE DEF k
    <3> QED BY <3>1
  <2>3. h[1] \in Nat
    BY <2>1, <2>2
  <2>4. MaxPacket \in Nat
    BY FramingAssumption
  <2> QED BY <2>1, <2>2, <2>3, <2>4
<1>2. /\ h \o body \in Seq(Nat) /\ Len(h \o body) = k + n
      /\ (h \o body)[1] = h[1] /\ (h \o body)[2] = h[2]
      /\ k = 4 => (h \o body)[3] = h[3]
      /\ k = 2 /\ n >= 2 => (h \o body)[3] = body[1]
  <2>1. /\ h \o body \in Seq(Nat) /\ Len(h \o body) = k + n
        /\ \A i \in 1..k : (h \o body)[i] = h[i]
        /\ \A i \in 1..n : (h \o body)[k + i] = body[i]
    OBVIOUS
  <2> HIDE DEF k, n
  <2>2. /\ 1 \in 1..k /\ 2 \in 1..k /\ (k = 4 => 3 \in 1..k)
        /\ k = 2 /\ n >= 2 => 1 \in 1..n /\ k + 1 = 3
    BY <1>1
  <2> QED BY <2>1, <2>2
<1>3. /\ b \in Seq(Nat) /\ Len(b) = k + n + Len(x)
      /\ b[1] = h[1] /\ b[2] = k + n
      /\ k = 4 => b[3] = h[3]
      /\ k = 2 /\ n >= 2 => b[3] = body[1]
  <2> DEFINE c == h \o body
  <2>1. b = c \o x /\ c \in Seq(Nat) /\ Len(c) = k + n
    BY <1>2 DEF BeginsWith
  <2> HIDE DEF c, n, k
  <2>2. /\ c \o x \in Seq(Nat) /\ Len(c \o x) = k + n + Len(x)
        /\ \A i \in 1..(k + n) : (c \o x)[i] = c[i]
    BY SMTT(40), <2>1, ConcatFirst
  <2>3. 1 \in 1..(k + n) /\ 2 \in 1..(k + n) /\ (k = 4 \/ n >= 2 => 3 \in 1..(k + n))
    BY <1>1
  <2>4. /\ c[1] = h[1] /\ c[2] = k + n
        /\ k = 4 => c[3] = h[3]
        /\ k = 2 /\ n >= 2 => c[3] = body[1]
    BY <1>2 DEF c, n, k
  <2> QED BY <2>1, <2>2, <2>3, <2>4
<1>4. SubSeq(b, k + 1, k + n) = body /\ SubSeq(b, k + n + 1, Len(b)) = x
  <2> DEFINE c == (h \o body) \o x
  <2>1. SubSeq(c, k + 1, k + n) = body /\ SubSeq(c, k + n + 1, Len(c)) = x
    BY ZenonT(60), ConcatMiddle
  <2>2. b = c
    BY DEF BeginsWith
  <2> HIDE DEF c
  <2> QED BY <2>1, <2>2
<1>5. Cuts(b)
  <2>1. /\ b[1] <= 6 /\ b[1] \in Nat /\ b[2] >= 2 /\ b[2] <= MaxPacket /\ b[2] \in Nat
        /\ Len(b) \in Nat /\ Len(b) >= b[2]
    <3>1. k + n <= MaxPacket
      BY <1>1
    <3> HIDE DEF k, n
    <3> QED BY <1>1, <1>3, <3>1
  <2> QED BY SMTT(40), <1>1, <2>1 DEF Cuts, LostFraming, Complete, LengthOf, V1, TCP
<1>6. AfterPacket(b) = x
  BY <1>3, <1>4 DEF AfterPacket, LengthOf
<1>7. HeaderLength(b) = Len(h) => FirstPacket(b) = [protocol |-> h[1], body |-> body]
  BY <1>3, <1>4 DEF FirstPacket, LengthOf
<1> QED BY <1>3, <1>5, <1>6, <1>7

\* The peer's packet at the front of the buffer is cut off and no other.
LEMMA EncodedIsCut ==
    ASSUME NEW p \in Packets, NEW x \in Seq(Nat)
    PROVE  /\ Encoded(p) \in Seq(Nat) /\ Encoded(p) \o x \in Seq(Nat)
           /\ Cuts(Encoded(p) \o x)
           /\ FirstPacket(Encoded(p) \o x) = Content(p)
           /\ AfterPacket(Encoded(p) \o x) = x
<1> DEFINE b == Encoded(p) \o x
           body == p.body
           protocol == p.protocol
           n == Len(body)
<1>1. /\ protocol \in 0..6 /\ p.v2 \in BOOLEAN /\ body \in Seq(Nat)
      /\ n \in Nat /\ n + 4 <= MaxPacket /\ Magic \in Nat
      /\ ~p.v2 /\ n >= 2 => body[1] # Magic
  BY FramingAssumption DEF V1, V2, TCP
<1>2. Content(p) = [protocol |-> protocol, body |-> body]
  BY DEF Content
<1>3. CASE p.v2
  <2> DEFINE h == <<protocol, 4 + n, Magic, 0>>
  <2>1. Encoded(p) = h \o body
    BY <1>3 DEF Encoded, V2
  <2> HIDE DEF protocol, body
  <2>2. /\ h \in Seq(Nat) /\ Len(h) = 4 /\ h[1] = protocol /\ h[2] = 4 + n /\ h[3] = Magic
    BY <1>1
  <2> HIDE DEF h
  <2>3. h \in Seq(Nat) /\ (Len(h) = 2 \/ Len(h) = 4) /\ h[1] <= 6 /\ h[2] = Len(h) + Len(body)
    BY <1>1, <2>2
  <2>4. /\ b \in Seq(Nat) /\ b[2] = 4 + n /\ b[3] = Magic /\ Cuts(b) /\ AfterPacket(b) = x
        /\ HeaderLength(b) = 4 => FirstPacket(b) = Content(p)
    <3>1. BeginsWith(b, h, body, x)
      BY <2>1 DEF BeginsWith
    <3>2. h \in Seq(Nat) /\ body \in Seq(Nat) /\ x \in Seq(Nat) /\ Len(body) + 4 <= MaxPacket
      BY <1>1, <2>2
    <3> HIDE DEF b, n
    <3>3. /\ b \in Seq(Nat) /\ b[2] = Len(h) + Len(body)
          /\ Len(h) = 4 => b[3] = h[3]
          /\ Len(h) = 2 /\ Len(body) >= 2 => b[3] = body[1]
          /\ Cuts(b)
          /\ HeaderLength(b) = Len(h) => FirstPacket(b) = [protocol |-> h[1], body |-> body]
          /\ AfterPacket(b) = x
      BY <2>3, <3>1, <3>2, HeaderAndBody
    <3> QED BY <1>2, <2>2, <3>3 DEF n
  <2> HIDE DEF b
  <2>5. HeaderLength(b) = 4
    BY <1>1, <2>4 DEF HeaderLength, LengthOf, V2
  <2>6. Encoded(p) \in Seq(Nat)
    BY <1>1, <2>1, <2>2
  <2> QED BY <2>4, <2>5, <2>6 DEF b
<1>4. CASE ~p.v2
  <2> DEFINE h == <<protocol, 2 + n>>
  <2>1. Encoded(p) = h \o body
    BY <1>4 DEF Encoded, V1
  <2> HIDE DEF protocol, body
  <2>2. /\ h \in Seq(Nat) /\ Len(h) = 2 /\ h[1] = protocol /\ h[2] = 2 + n
    BY <1>1
  <2> HIDE DEF h
  <2>3. h \in Seq(Nat) /\ (Len(h) = 2 \/ Len(h) = 4) /\ h[1] <= 6 /\ h[2] = Len(h) + Len(body)
    BY <1>1, <2>2
  <2>4. /\ b \in Seq(Nat) /\ b[2] = 2 + n /\ (n >= 2 => b[3] = body[1])
        /\ Cuts(b) /\ AfterPacket(b) = x
        /\ HeaderLength(b) = 2 => FirstPacket(b) = Content(p)
    <3>1. BeginsWith(b, h, body, x)
      BY <2>1 DEF BeginsWith
    <3>2. h \in Seq(Nat) /\ body \in Seq(Nat) /\ x \in Seq(Nat) /\ Len(body) + 4 <= MaxPacket
      BY <1>1, <2>2
    <3> HIDE DEF b, n
    <3>3. /\ b \in Seq(Nat) /\ b[2] = Len(h) + Len(body)
          /\ Len(h) = 4 => b[3] = h[3]
          /\ Len(h) = 2 /\ Len(body) >= 2 => b[3] = body[1]
          /\ Cuts(b)
          /\ HeaderLength(b) = Len(h) => FirstPacket(b) = [protocol |-> h[1], body |-> body]
          /\ AfterPacket(b) = x
      BY <2>3, <3>1, <3>2, HeaderAndBody
    <3> QED BY <1>2, <2>2, <3>3 DEF n
  <2> HIDE DEF b
  <2>5. HeaderLength(b) = 2
    BY SMTT(40), <1>1, <1>4, <2>4 DEF HeaderLength, LengthOf, V1, V2
  <2>6. Encoded(p) \in Seq(Nat)
    BY <1>1, <2>1, <2>2
  <2> QED BY <2>4, <2>5, <2>6 DEF b
<1> QED BY <1>1, <1>3, <1>4

-----------------------------------------------------------------------------
(* Packets as the peer writes them, one after the other, come out of the    *)
(* loop one after the other, wherever the transfers cut them.               *)

Bytes(q) == FlattenSeq([i \in 1..Len(q) |-> Encoded(q[i])])
Contents(q) == [i \in 1..Len(q) |-> Content(q[i])]

\* The words of packets, one packet more, and one packet before them.
LEMMA BytesOfPackets ==
    ASSUME NEW q \in Seq(Packets), NEW p \in Packets
    PROVE  /\ Bytes(q) \in Seq(Nat)
           /\ Bytes(<<p>> \o q) = Encoded(p) \o Bytes(q)
           /\ Bytes(Append(q, p)) = Bytes(q) \o Encoded(p)
<1> DEFINE e(s) == [i \in 1..Len(s) |-> Encoded(s[i])]
           B == Seq(Nat)
<1>0. \A r \in Packets : Encoded(r) \in B
  BY EncodedIsCut, <<>> \in Seq(Nat)
<1>1. e(q) \in Seq(B) /\ Encoded(p) \in B
  <2> HIDE DEF B
  <2> QED BY <1>0
<1>2. e(<<p>> \o q) = <<Encoded(p)>> \o e(q)
  <2> HIDE DEF B
  <2>1. Len(<<p>> \o q) = Len(q) + 1 /\ Len(q) \in Nat
    OBVIOUS
  <2>2. e(q) \in Seq(B) /\ Len(e(q)) = Len(q) /\ \A i \in 1..Len(q) : e(q)[i] = Encoded(q[i])
    BY <1>1
  <2> DEFINE f == e(q)
  <2>3. <<Encoded(p)>> \o f = [i \in 1..(Len(q) + 1) |->
                                   IF i = 1 THEN Encoded(p) ELSE f[i - 1]]
    <3> HIDE DEF f
    <3> QED BY <1>1, <2>1, <2>2 DEF f
  <2>4. ASSUME NEW i \in 1..(Len(q) + 1)
        PROVE  Encoded((<<p>> \o q)[i]) = IF i = 1 THEN Encoded(p) ELSE f[i - 1]
    <3>1. CASE i = 1
      BY <3>1
    <3>2. CASE i # 1
      <4>1. i - 1 \in 1..Len(q) /\ (<<p>> \o q)[i] = q[i - 1]
        BY <2>1, <3>2
      <4> QED BY <4>1, <3>2
    <3> QED BY <3>1, <3>2
  <2> QED BY <2>1, <2>3, <2>4, Zenon
<1>3. e(Append(q, p)) = Append(e(q), Encoded(p))
  <2> HIDE DEF B
  <2>1. Len(Append(q, p)) = Len(q) + 1 /\ Len(q) \in Nat
    OBVIOUS
  <2>2. Append(e(q), Encoded(p)) = [i \in 1..(Len(q) + 1) |->
                                        IF i = Len(q) + 1 THEN Encoded(p) ELSE e(q)[i]]
    BY <2>1
  <2>3. ASSUME NEW i \in 1..(Len(q) + 1)
        PROVE  Encoded(Append(q, p)[i]) = IF i = Len(q) + 1 THEN Encoded(p) ELSE e(q)[i]
    BY <2>1
  <2> QED BY <2>1, <2>2, <2>3, Zenon
<1> HIDE DEF e
<1>4. /\ Bytes(q) = FlattenSeq(e(q))
      /\ Bytes(<<p>> \o q) = FlattenSeq(e(<<p>> \o q))
      /\ Bytes(Append(q, p)) = FlattenSeq(e(Append(q, p)))
  BY DEF Bytes, e
<1>5. FlattenSeq(e(q)) \in Seq(Nat)
  BY <1>1, FlattenTyped
<1>6. FlattenSeq(<<Encoded(p)>> \o e(q)) = Encoded(p) \o FlattenSeq(e(q))
  BY <1>1, FlattenBefore
<1>7. FlattenSeq(Append(e(q), Encoded(p))) = FlattenSeq(e(q)) \o Encoded(p)
  BY <1>1, FlattenAppend
<1> QED BY <1>2, <1>3, <1>4, <1>5, <1>6, <1>7

\* What processPacket is given of them.
LEMMA ContentsOfPackets ==
    ASSUME NEW q \in Seq(Packets), NEW p \in Packets
    PROVE  /\ Contents(q) \in Seq({Content(r) : r \in Packets}) /\ Len(Contents(q)) = Len(q)
           /\ Contents(<<p>> \o q) = <<Content(p)>> \o Contents(q)
           /\ Contents(Append(q, p)) = Append(Contents(q), Content(p))
<1> DEFINE f == Contents(q)
<1>1. /\ f \in Seq({Content(r) : r \in Packets}) /\ Len(f) = Len(q) /\ Len(q) \in Nat
      /\ \A i \in 1..Len(q) : f[i] = Content(q[i])
  BY DEF Contents
<1>2. Contents(<<p>> \o q) = <<Content(p)>> \o f
  <2>1. Len(<<p>> \o q) = Len(q) + 1
    OBVIOUS
  <2>2. <<Content(p)>> \o f = [i \in 1..(Len(q) + 1) |-> IF i = 1 THEN Content(p) ELSE f[i - 1]]
    <3> HIDE DEF f
    <3> QED BY <1>1
  <2>3. ASSUME NEW i \in 1..(Len(q) + 1)
        PROVE  Content((<<p>> \o q)[i]) = IF i = 1 THEN Content(p) ELSE f[i - 1]
    <3>1. CASE i = 1
      BY <3>1
    <3>2. CASE i # 1
      <4>1. i - 1 \in 1..Len(q) /\ (<<p>> \o q)[i] = q[i - 1]
        BY <1>1, <3>2
      <4> HIDE DEF f
      <4> QED BY <1>1, <4>1, <3>2
    <3> QED BY <3>1, <3>2
  <2> QED BY <2>1, <2>2, <2>3, Zenon DEF Contents
<1>3. Contents(Append(q, p)) = Append(f, Content(p))
  <2>1. Len(Append(q, p)) = Len(q) + 1
    OBVIOUS
  <2>2. Append(f, Content(p)) = [i \in 1..(Len(q) + 1) |-> IF i = Len(q) + 1 THEN Content(p) ELSE f[i]]
    BY <1>1 DEF Contents
  <2>3. ASSUME NEW i \in 1..(Len(q) + 1)
        PROVE  Content(Append(q, p)[i]) = IF i = Len(q) + 1 THEN Content(p) ELSE f[i]
    <3> HIDE DEF f
    <3> QED BY <1>1
  <2> QED BY <2>1, <2>2, <2>3, Zenon DEF Contents
<1> QED BY <1>1, <1>2, <1>3

\* Less than a packet of the peer waits for the rest of it.
LEMMA PartWaits ==
    ASSUME NEW p \in Packets, NEW x \in Seq(Nat), NEW b \in Seq(Nat), NEW w \in Seq(Nat),
           b \o w = Encoded(p) \o x, Len(b) < Len(Encoded(p))
    PROVE  Waits(b)
<1> DEFINE c == Encoded(p) \o x
           e == Encoded(p)
<1>1. e \in Seq(Nat) /\ c \in Seq(Nat) /\ Cuts(c) /\ AfterPacket(c) = x
  BY EncodedIsCut
<1>2. Len(e) \in Nat /\ Len(x) \in Nat /\ Len(c) = Len(e) + Len(x)
  <2>1. Len(e) \in Nat /\ Len(x) \in Nat
    BY <1>1
  <2> QED BY <1>1, <2>1, ConcatFirst
<1>3. c[2] = Len(e) /\ c[2] \in Nat
  <2>1. Len(AfterPacket(c)) = Len(c) - c[2] /\ c[2] \in Nat
    BY <1>1, CutShortens
  <2> HIDE DEF c, e
  <2> QED BY SMTT(40), <1>1, <1>2, <2>1
<1>4. Len(b) \in Nat /\ \A i \in 1..Len(b) : c[i] = b[i]
  <2> DEFINE d == b \o w
  <2>1. c = d /\ \A i \in 1..Len(b) : d[i] = b[i]
    OBVIOUS
  <2> HIDE DEF c, d
  <2> QED BY <2>1
<1>5. Len(b) < Len(e)
  OBVIOUS
<1>6. CASE Len(b) >= 2
  <2>1. b[1] = c[1] /\ b[2] = c[2]
    BY <1>4, <1>6
  <2> HIDE DEF c, e
  <2> QED BY <1>1, <1>2, <1>3, <1>4, <1>5, <2>1 DEF Waits, Cuts, LostFraming, Complete, LengthOf
<1>7. CASE ~(Len(b) >= 2)
  BY <1>4, <1>7 DEF Waits, V1
<1> QED BY <1>6, <1>7

\* The words of packets, as the transfers divide them.
Divides(b, w, q) == b \o w = Bytes(q)

\* What the loop makes of the beginning "b" of the words of packets, when "w"
\* is what the transfers did not bring yet: the first packets, and it keeps what
\* there is of the next one.
ComeOut(q, b, w) ==
    \E p, r \in Seq(Packets) :
        /\ q = p \o r
        /\ Parsed[b].packets = Contents(p) /\ Parsed[b].lost = 0
        /\ Parsed[b].rest \o w = Bytes(r)

LEMMA PacketsComeOut ==
    \A q \in Seq(Packets), b, w \in Seq(Nat) : Divides(b, w, q) => ComeOut(q, b, w)
<1> DEFINE S == {n \in Nat : \A q \in Seq(Packets), b, w \in Seq(Nat) :
                                 Len(q) = n /\ Divides(b, w, q) => ComeOut(q, b, w)}
<1>1. ASSUME NEW q \in Seq(Packets), NEW b \in Seq(Nat), NEW w \in Seq(Nat),
             Divides(b, w, q), Waits(b)
      PROVE  ComeOut(q, b, w)
  <2>1. Len(b) \in Nat /\ Parsed[b] = [rest |-> b, packets |-> <<>>, lost |-> 0]
    BY <1>1, ParsedIteration DEF Iteration, Cuts, Ends, Waits, V1
  <2>2. <<>> \in Seq(Packets) /\ q = <<>> \o q /\ Contents(<<>>) = <<>>
    BY DEF Contents
  <2>3. Parsed[b].packets = <<>> /\ Parsed[b].lost = 0 /\ Parsed[b].rest = b
    BY <2>1
  <2>4. Parsed[b].rest \o w = Bytes(q)
    BY <1>1, <2>3 DEF Divides
  <2> QED BY <2>2, <2>3, <2>4 DEF ComeOut
<1>2. 0 \in S
  <2> SUFFICES ASSUME NEW q \in Seq(Packets), NEW b \in Seq(Nat), NEW w \in Seq(Nat),
                      Len(q) = 0, Divides(b, w, q)
               PROVE  ComeOut(q, b, w)
    OBVIOUS
  <2>1. Bytes(q) = <<>>
    BY DEF Bytes, FlattenSeq
  <2>2. Len(b \o w) = Len(b) + Len(w) /\ Len(b) \in Nat /\ Len(w) \in Nat
    OBVIOUS
  <2>3. Waits(b)
    BY <2>1, <2>2 DEF Waits, V1, Divides
  <2> QED BY <1>1, <2>3
<1>3. ASSUME NEW n \in S PROVE n + 1 \in S
  <2>0. n \in Nat /\ n + 1 \in Nat
    OBVIOUS
  <2> SUFFICES ASSUME NEW q \in Seq(Packets), NEW b \in Seq(Nat), NEW w \in Seq(Nat),
                      Len(q) = n + 1, Divides(b, w, q)
               PROVE  ComeOut(q, b, w)
    BY <2>0
  <2>1. PICK a \in Packets, t \in Seq(Packets) : q = <<a>> \o t /\ Len(t) = n
    <3>1. q # <<>> /\ q[1] \in Packets /\ Tail(q) \in Seq(Packets)
      BY <2>0
    <3>2. q = <<q[1]>> \o Tail(q) /\ Len(Tail(q)) = n
      BY <2>0
    <3> QED BY <3>1, <3>2
  <2> DEFINE e == Encoded(a)
             x == Bytes(t)
  <2>2. x \in Seq(Nat) /\ Bytes(q) = e \o x /\ e \in Seq(Nat)
    BY <2>1, BytesOfPackets, EncodedIsCut
  <2>6. b \o w = e \o x
    <3> HIDE DEF e, x
    <3> QED BY <2>2 DEF Divides
  <2>3. CASE Len(b) < Len(e)
    BY <1>1, <2>2, <2>6, <2>3, PartWaits
  <2>4. CASE Len(e) <= Len(b)
    <3> HIDE DEF e, x
    <3>0. SameWhole(b, w, e, x)
      BY <2>6 DEF SameWhole
    <3>1. PICK y \in Seq(Nat) : IsRest(y, b, w, e, x)
      BY <2>2, <2>4, <3>0, ConcatTwice
    <3>8. b = e \o y /\ y \o w = x
      BY <3>1 DEF IsRest
    <3>2. ComeOut(t, y, w)
      BY <2>1, <3>8 DEF x, Divides
    <3>3. PICK p, r \in Seq(Packets) :
              /\ t = p \o r
              /\ Parsed[y].packets = Contents(p) /\ Parsed[y].lost = 0
              /\ Parsed[y].rest \o w = Bytes(r)
      BY <3>2 DEF ComeOut
    <3>4. Parsed[b] = Joined(Content(a), Parsed[y])
      BY <2>1, <3>8, EncodedIsCut, ParsedIteration DEF Iteration, e
    <3>5. /\ Parsed[b].packets = <<Content(a)>> \o Contents(p)
          /\ Parsed[b].lost = 0 /\ Parsed[b].rest = Parsed[y].rest
      <4>1. Parsed[y] \in Results
        BY ParsedTyped
      <4> QED BY <3>3, <3>4, <4>1 DEF Joined, Results
    <3>6. <<a>> \o p \in Seq(Packets) /\ q = (<<a>> \o p) \o r
      BY SMTT(40), <2>1, <3>3
    <3>7. Contents(<<a>> \o p) = <<Content(a)>> \o Contents(p)
      BY <2>1, <3>3, ContentsOfPackets
    <3> QED BY <3>3, <3>5, <3>6, <3>7 DEF ComeOut
  <2>5. Len(e) \in Nat /\ Len(b) \in Nat
    <3> HIDE DEF e
    <3> QED BY <2>2
  <2> QED BY <2>3, <2>4, <2>5
<1>4. S = Nat
  <2> HIDE DEF S
  <2> QED BY <1>2, <1>3, SetOfNaturals, S \in SUBSET Nat DEF S
<1>5. ASSUME NEW q \in Seq(Packets), NEW b \in Seq(Nat), NEW w \in Seq(Nat), Divides(b, w, q)
      PROVE  ComeOut(q, b, w)
  <2>1. Len(q) \in Nat
    OBVIOUS
  <2>2. Len(q) \in S
    <3> HIDE DEF S
    <3> QED BY <1>4, <2>1
  <2> QED BY <1>5, <2>2
<1> QED BY <1>5

-----------------------------------------------------------------------------
(* The direction.  While it is captured from its start there are packets of *)
(* the peer that the buffer and the wire are the words of, and those with   *)
(* the ones delivered are all that were sent.                               *)

UnderWay == \E q \in Seq(Packets) : Divides(buffer, wire, q) /\ sent = delivered \o Contents(q)

FramingInv ==
    /\ TypeOK
    /\ Waits(buffer)
    /\ ~late => UnderWay

LEMMA FramingInit == Init => FramingInv
<1> SUFFICES ASSUME Init PROVE FramingInv
  OBVIOUS
<1>1. /\ wire \in Seq(Nat) /\ late \in BOOLEAN /\ (~late => wire = <<>>)
      /\ buffer = <<>> /\ resyncs = 0 /\ sent = <<>> /\ delivered = <<>>
  <2>1. CASE late
    <3>1. wire \in Tails
      BY <2>1 DEF Init
    <3> QED BY <2>1, <3>1, FramingAssumption DEF Init
  <2>2. CASE ~late
    <3>1. wire = <<>>
      BY <2>2 DEF Init
    <3> QED BY <2>2, <3>1 DEF Init
  <2> QED BY <2>1, <2>2
<1>2. Waits(buffer)
  BY <1>1 DEF Waits, V1
<1>3. TypeOK
  <2>1. \A A : <<>> \in Seq(A)
    OBVIOUS
  <2>2. Len(buffer) < MaxPacket
    BY <1>1, <1>2, <2>1, WaitingIsBounded
  <2> QED BY <1>1, <2>1, <2>2 DEF TypeOK
<1>4. ~late => UnderWay
  <2>1. <<>> \in Seq(Packets) /\ Bytes(<<>>) = <<>> /\ Contents(<<>>) = <<>>
    BY DEF Bytes, Contents, FlattenSeq
  <2>2. <<>> \o <<>> = <<>>
    OBVIOUS
  <2>3. Divides(buffer, wire, <<>>) \/ late
    BY <1>1, <2>1, <2>2 DEF Divides
  <2>4. sent = delivered \o Contents(<<>>)
    BY <1>1, <2>1, <2>2
  <2> QED BY <2>1, <2>3, <2>4 DEF UnderWay
<1> QED BY <1>2, <1>3, <1>4 DEF FramingInv

\* A packet more on the wire.
LEMMA SendKeeps ==
    ASSUME FramingInv, Send
    PROVE  FramingInv' /\ (~late => Channel!Send)
<1>1. PICK p \in Packets :
          /\ wire' = wire \o Encoded(p) /\ sent' = Append(sent, Content(p))
          /\ buffer' = buffer /\ resyncs' = resyncs /\ late' = late /\ delivered' = delivered
  BY FramingAssumption DEF Send
<1>2. Encoded(p) \in Seq(Nat)
  BY EncodedIsCut, <<>> \in Seq(Nat)
<1>3. TypeOK /\ Waits(buffer)
  BY DEF FramingInv
<1>4. TypeOK'
  BY <1>1, <1>2, <1>3 DEF TypeOK
<1>5. Waits(buffer)'
  BY <1>1, <1>3
<1>6. ASSUME ~late PROVE UnderWay'
  <2>1. PICK q \in Seq(Packets) : Divides(buffer, wire, q) /\ sent = delivered \o Contents(q)
    BY <1>6 DEF FramingInv, UnderWay
  <2> DEFINE r == Append(q, p)
  <2>2. r \in Seq(Packets) /\ Bytes(r) = Bytes(q) \o Encoded(p)
    <3>1. r \in Seq(Packets)
      OBVIOUS
    <3> QED BY <3>1, BytesOfPackets
  <2>3. Contents(r) = Append(Contents(q), Content(p)) /\ Contents(q) \in Seq({Content(o) : o \in Packets})
    BY ContentsOfPackets
  <2> HIDE DEF r
  <2>4. Divides(buffer', wire', r)
    <3> DEFINE e == Encoded(p)
    <3>1. buffer \in Seq(Nat) /\ wire \in Seq(Nat)
      BY <1>3 DEF TypeOK
    <3> HIDE DEF e
    <3>2. (buffer \o wire) \o e = buffer \o (wire \o e)
      BY <3>1, <1>2 DEF e
    <3> QED BY <1>1, <2>1, <2>2, <3>2 DEF Divides, e
  <2>5. sent' = delivered' \o Contents(r)
    <3> DEFINE c == Content(p)
               s == Contents(q)
               M == [protocol : 0..TCP, body : Seq(Nat)]
    <3>1. c \in M /\ s \in Seq(M) /\ delivered \in Seq(M)
      <4>1. \A o \in Packets : Content(o) \in M
        BY FramingAssumption DEF Content
      <4>2. Len(s) \in Nat /\ \A i \in 1..Len(s) : s[i] \in M
        BY <2>3, <4>1
      <4>3. delivered \in Seq(M)
        BY <1>3 DEF TypeOK
      <4> HIDE DEF M, s
      <4>4. s \in Seq(M)
        BY <2>3, <4>2 DEF s
      <4> QED BY <4>1, <4>3, <4>4
    <3> HIDE DEF c, s, M
    <3>2. Append(delivered \o s, c) = delivered \o Append(s, c)
      BY SMTT(40), <3>1
    <3> QED BY <1>1, <2>1, <2>3, <3>2 DEF c, s
  <2> QED BY <2>2, <2>4, <2>5 DEF UnderWay
<1>7. ~late => Channel!Send
  BY <1>1 DEF Channel!Send, FromStart
<1> QED BY <1>1, <1>4, <1>5, <1>6, <1>7 DEF FramingInv


\* What a transfer takes of the wire and what feed makes of it.
Takes(n) ==
    /\ n > 0 /\ n <= Len(wire) /\ Feed(SubSeq(wire, 1, n))
    /\ wire' = SubSeq(wire, n + 1, Len(wire))
    /\ late' = late /\ sent' = sent

LEMMA TransferTakes ==
    ASSUME TypeOK, Transfer
    PROVE  \E n \in Nat : Takes(n)
<1>1. wire \in Seq(Nat) /\ Len(wire) \in Nat
  BY DEF TypeOK
<1>2. PICK n \in (IF late THEN {Len(wire)} ELSE 1..Len(wire)) :
          /\ n > 0 /\ Feed(SubSeq(wire, 1, n))
          /\ wire' = SubSeq(wire, n + 1, Len(wire))
  BY DEF Transfer
<1>3. n \in Nat /\ n <= Len(wire)
  <2>1. CASE late
    BY <1>1, <1>2, <2>1
  <2>2. CASE ~late
    BY <1>1, <1>2, <2>2
  <2> QED BY <2>1, <2>2
<1> QED BY <1>2, <1>3 DEF Transfer, Takes

\* Any transfer, also of what is no packet.
LEMMA TransferTypes ==
    ASSUME FramingInv, Transfer
    PROVE  TypeOK' /\ Waits(buffer')
<1>1. PICK n \in Nat : Takes(n)
  BY TransferTakes DEF FramingInv
<1> DEFINE d == SubSeq(wire, 1, n)
           b == buffer \o d
           M == [protocol : 0..TCP, body : Seq(Nat)]
<1>2. TypeOK
  BY DEF FramingInv
<1>3. d \in Seq(Nat) /\ wire' \in Seq(Nat) /\ b \in Seq(Nat)
  BY SMTT(40), <1>1, <1>2 DEF TypeOK, Takes
<1>4. Parsed[b] \in Results /\ Waits(Parsed[b].rest)
  BY <1>3, ParsedTyped
<1>5. /\ buffer' = Parsed[b].rest /\ delivered' = delivered \o Parsed[b].packets
      /\ resyncs' = resyncs + Parsed[b].lost
  BY <1>1 DEF Feed, Takes
<1> HIDE DEF b, d
<1>6. /\ Parsed[b].rest \in Seq(Nat) /\ Parsed[b].packets \in Seq(M) /\ Parsed[b].lost \in {0, 1}
  BY <1>4 DEF Results
<1> DEFINE r == Parsed[b]
<1>7. delivered' \in Seq(M)
  <2>1. delivered \in Seq(M) /\ r.packets \in Seq(M)
    BY <1>2, <1>6 DEF TypeOK
  <2> HIDE DEF r, M
  <2> QED BY <1>5, <2>1 DEF r
<1>8. Len(buffer') < MaxPacket /\ buffer' \in Seq(Nat) /\ Waits(buffer')
  BY <1>4, <1>5, <1>6, WaitingIsBounded
<1>9. resyncs' \in Nat
  BY <1>2, <1>5, <1>6 DEF TypeOK
<1>10. ~late => resyncs' = 0
  <2> SUFFICES ASSUME ~late PROVE Parsed[b].lost = 0
    BY <1>2, <1>5, <1>6 DEF TypeOK
  <2>1. PICK q \in Seq(Packets) : Divides(buffer, wire, q)
    BY DEF FramingInv, UnderWay
  <2>2. Divides(b, wire', q)
    BY <1>1, <1>2, <2>1, MovedFront DEF Divides, b, d, TypeOK, Takes
  <2> QED BY <1>3, <2>1, <2>2, PacketsComeOut DEF ComeOut
<1> QED BY <1>1, <1>2, <1>3, <1>7, <1>8, <1>9, <1>10 DEF TypeOK, Takes


MuxPackets == [protocol : 0..TCP, body : Seq(Nat)]

LEMMA ContentsConcat ==
    ASSUME NEW p \in Seq(Packets), NEW r \in Seq(Packets)
    PROVE  /\ Contents(p \o r) = Contents(p) \o Contents(r)
           /\ Contents(p) \in Seq(MuxPackets) /\ Contents(r) \in Seq(MuxPackets)
           /\ Contents(p \o r) \in Seq(MuxPackets) /\ Len(Contents(r)) = Len(r)
<1>1. \A o \in Packets : Content(o) \in MuxPackets
  BY FramingAssumption DEF Content, MuxPackets
<1>2. ASSUME NEW q \in Seq(Packets)
      PROVE  /\ Contents(q) \in Seq(MuxPackets) /\ Len(Contents(q)) = Len(q) /\ Len(q) \in Nat
             /\ \A i \in 1..Len(q) : Contents(q)[i] = Content(q[i])
  BY <1>1 DEF Contents
<1> DEFINE q == p \o r
           c == Contents(p) \o Contents(r)
<1>3. /\ q \in Seq(Packets) /\ Len(q) = Len(p) + Len(r)
      /\ \A i \in 1..Len(p) : q[i] = p[i]
      /\ \A i \in 1..Len(r) : q[Len(p) + i] = r[i]
  OBVIOUS
<1>4. /\ Contents(p) \in Seq(MuxPackets) /\ Contents(r) \in Seq(MuxPackets)
      /\ Contents(q) \in Seq(MuxPackets) /\ Len(Contents(r)) = Len(r) /\ Len(Contents(p)) = Len(p)
      /\ Len(Contents(q)) = Len(q) /\ Len(p) \in Nat /\ Len(r) \in Nat
  BY <1>2, <1>3
<1> DEFINE s == Contents(p)
           t == Contents(r)
           u == Contents(q)
<1>5. /\ s \o t \in Seq(MuxPackets) /\ Len(s \o t) = Len(q)
      /\ \A i \in 1..Len(p) : (s \o t)[i] = s[i]
      /\ \A i \in 1..Len(r) : (s \o t)[Len(p) + i] = t[i]
  <2>1. s \in Seq(MuxPackets) /\ t \in Seq(MuxPackets) /\ Len(s) = Len(p) /\ Len(t) = Len(r)
    BY <1>4
  <2> HIDE DEF s, t, q
  <2>2. Len(s \o t) = Len(s) + Len(t) /\ \A i \in 1..Len(t) : (s \o t)[Len(s) + i] = t[i]
    BY <2>1
  <2>3. s \o t \in Seq(MuxPackets) /\ \A i \in 1..Len(s) : (s \o t)[i] = s[i]
    BY <2>1, ConcatFirst
  <2> QED BY <1>3, <2>1, <2>2, <2>3
<1>6. ASSUME NEW i \in 1..Len(q) PROVE u[i] = (s \o t)[i]
  <2> HIDE DEF s, t, u, q
  <2>0. u[i] = Content(q[i])
    BY <1>2, <1>3 DEF u
  <2>1. CASE i \in 1..Len(p)
    BY <2>0, <2>1, <1>2, <1>3, <1>5 DEF s
  <2>2. CASE i \notin 1..Len(p)
    <3> DEFINE k == i - Len(p)
    <3>1. k \in 1..Len(r) /\ i = Len(p) + k
      BY <2>2, <1>3, <1>4
    <3> HIDE DEF k
    <3> QED BY <2>0, <3>1, <1>2, <1>3, <1>5 DEF t
  <2> QED BY <2>1, <2>2
<1> HIDE DEF s, t, u, q
<1>7. u = s \o t
  BY <1>4, <1>5, <1>6, SameElements DEF u
<1> QED BY <1>4, <1>7 DEF s, t, u, q

\* A transfer of a direction captured from its start hands on the next packets
\* that were sent, or none.
LEMMA TransferDelivers ==
    ASSUME FramingInv, Transfer, ~late
    PROVE  UnderWay' /\ (Channel!Deliver \/ delivered' = delivered)
<1>1. PICK n \in Nat : Takes(n)
  BY TransferTakes DEF FramingInv
<1>2. PICK q \in Seq(Packets) : Divides(buffer, wire, q) /\ sent = delivered \o Contents(q)
  BY DEF FramingInv, UnderWay
<1> DEFINE d == SubSeq(wire, 1, n)
           b == buffer \o d
           M == MuxPackets
<1>3. TypeOK
  BY DEF FramingInv
<1>4. d \in Seq(Nat) /\ wire' \in Seq(Nat) /\ b \in Seq(Nat)
  BY SMTT(40), <1>1, <1>3 DEF TypeOK, Takes
<1>5. buffer' = Parsed[b].rest /\ delivered' = delivered \o Parsed[b].packets
  BY <1>1 DEF Feed, Takes
<1>6. Divides(b, wire', q)
  BY <1>1, <1>2, <1>3, MovedFront DEF Divides, TypeOK, Takes
<1> HIDE DEF b, d
<1>7. PICK p, r \in Seq(Packets) :
          /\ q = p \o r
          /\ Parsed[b].packets = Contents(p)
          /\ Parsed[b].rest \o wire' = Bytes(r)
  <2>1. ComeOut(q, b, wire')
    BY <1>4, <1>6, PacketsComeOut
  <2> QED BY <2>1 DEF ComeOut
<1> DEFINE c == Contents(p)
           e == Contents(r)
<1>8. Contents(q) = c \o e /\ c \in Seq(M) /\ e \in Seq(M)
  BY <1>7, ContentsConcat
<1>9. delivered \in Seq(M) /\ delivered' = delivered \o c /\ sent = delivered \o (c \o e)
  BY <1>2, <1>3, <1>5, <1>7, <1>8 DEF TypeOK, MuxPackets
<1>10. sent' = sent /\ late' = late
  BY <1>1 DEF Takes
<1> HIDE DEF c, e, M
<1>11. delivered' \in Seq(M) /\ sent = delivered' \o e /\ sent \in Seq(M)
  BY SMTT(40), <1>8, <1>9
<1>12. UnderWay'
  <2>1. Divides(buffer', wire', r)
    BY <1>5, <1>7 DEF Divides
  <2> QED BY <1>10, <1>11, <2>1 DEF UnderWay, e
<1>13. CASE c = <<>>
  BY <1>9, <1>12, <1>13
<1>14. CASE c # <<>>
  <2> DEFINE k == Len(delivered')
  <2>1. /\ Len(delivered) \in Nat /\ Len(c) \in Nat \ {0} /\ Len(e) \in Nat
        /\ Len(delivered') = Len(delivered) + Len(c)
        /\ Len(sent) = Len(delivered') + Len(e)
    <3>1. Len(c) \in Nat \ {0} /\ Len(e) \in Nat /\ Len(delivered) \in Nat
      BY <1>8, <1>9, <1>14
    <3>2. Len(delivered') = Len(delivered) + Len(c)
      BY <1>8, <1>9, ConcatFirst
    <3>3. Len(sent) = Len(delivered') + Len(e)
      BY <1>8, <1>11, ConcatFirst
    <3> QED BY <3>1, <3>2, <3>3
  <2>2. k \in Len(delivered) + 1 .. Len(sent)
    BY <2>1
  <2>3. delivered' = SubSeq(sent, 1, k)
    BY <1>8, <1>11, ConcatFront
  <2> QED BY <1>10, <1>12, <2>2, <2>3 DEF Channel!Deliver, FromStart
<1> QED BY <1>13, <1>14

\* The invariant and the channel hold of every step.
LEMMA FramingStep ==
    ASSUME FramingInv, [Next]_vars
    PROVE  FramingInv' /\ [Channel!Next]_(Channel!channelVars)
<1>1. CASE Send
  <2>1. late' = late
    BY <1>1 DEF Send
  <2>2. late => UNCHANGED Channel!channelVars
    BY <2>1 DEF Channel!channelVars, FromStart
  <2> QED BY <1>1, <2>2, SendKeeps DEF Channel!Next
<1>2. CASE Transfer
  <2>1. late' = late /\ sent' = sent
    BY <1>2 DEF Transfer
  <2>2. late => UNCHANGED Channel!channelVars
    BY <2>1 DEF Channel!channelVars, FromStart
  <2>3. delivered' = delivered => UNCHANGED Channel!channelVars
    BY <2>1 DEF Channel!channelVars, FromStart
  <2>4. FramingInv'
    BY <1>2, <2>1, TransferTypes, TransferDelivers DEF FramingInv
  <2> QED BY <1>2, <2>2, <2>3, <2>4, TransferDelivers DEF Channel!Next
<1>3. CASE UNCHANGED vars
  <2>1. FramingInv'
    BY <1>3 DEF FramingInv, TypeOK, UnderWay, vars
  <2>2. UNCHANGED Channel!channelVars
    BY <1>3 DEF Channel!channelVars, FromStart, vars
  <2> QED BY <2>1, <2>2
<1> QED BY <1>1, <1>2, <1>3 DEF Next

\* The buffer holds less than a packet between two transfers, whatever the
\* transfers bring, and framing is not lost in a direction captured whole.
THEOREM FramingTypes == Spec => []TypeOK
<1>1. FramingInv /\ [Next]_vars => FramingInv'
  BY FramingStep
<1>2. FramingInv => TypeOK
  BY DEF FramingInv
<1> QED BY <1>1, <1>2, FramingInit, PTL DEF Spec

\* feed is a FIFO channel: every behaviour of the direction is one in which
\* packets are sent and handed on whole, in order and once.
THEOREM FramingIsSafeChannel ==
    Spec => Channel!Init /\ [][Channel!Next]_(Channel!channelVars)
<1>1. FramingInv /\ [Next]_vars => FramingInv' /\ [Channel!Next]_(Channel!channelVars)
  BY FramingStep
<1>2. Init => Channel!Init
  BY DEF Init, Channel!Init, FromStart
<1> QED BY <1>1, <1>2, FramingInit, PTL DEF Spec

-----------------------------------------------------------------------------
(* A late start.  What is left of the packet the capture begins inside is   *)
(* dropped by the transfer that brings it or, when it is too short to look  *)
(* at, by the one after it, together with the packet in that transfer.      *)

\* A word that is no protocol, and that waits for the next one.
Stray(b) == b \in Seq(Nat) /\ Len(b) = 1 /\ b[1] > TCP

\* Where a late direction is: before the first transfer; with a stray word, of
\* what is left, in the buffer; or in step with the peer, having lost "lost".
AtTail == sent = <<>> /\ delivered = <<>> /\ buffer = <<>> /\ wire \in Tails
AtStray ==
    /\ Stray(buffer) /\ delivered = <<>>
    /\ \/ sent = <<>> /\ wire = <<>>
       \/ \E p \in Packets : sent = <<Content(p)>> /\ wire = Encoded(p)
InStep ==
    /\ buffer = <<>>
    /\ \E lost \in Seq(MuxPackets) :
          /\ Len(lost) <= 1
          /\ \/ sent = lost \o delivered /\ wire = <<>>
             \/ \E p \in Packets : /\ sent = Append(lost \o delivered, Content(p))
                                   /\ wire = Encoded(p)

LateInv == late => AtTail \/ AtStray \/ InStep

\* A late direction's transfer takes all of the wire.
LEMMA LateTransfer ==
    ASSUME TypeOK, Transfer, late
    PROVE  /\ wire # <<>> /\ wire' = <<>> /\ late' /\ sent' = sent
           /\ buffer' = Parsed[buffer \o wire].rest
           /\ delivered' = delivered \o Parsed[buffer \o wire].packets
<1>1. wire \in Seq(Nat) /\ Len(wire) \in Nat
  BY DEF TypeOK
<1>2. /\ Len(wire) > 0 /\ Feed(SubSeq(wire, 1, Len(wire)))
      /\ wire' = SubSeq(wire, Len(wire) + 1, Len(wire))
      /\ late' = late /\ sent' = sent
  BY DEF Transfer
<1>3. SubSeq(wire, 1, Len(wire)) = wire /\ SubSeq(wire, Len(wire) + 1, Len(wire)) = <<>>
  BY <1>1
<1>4. Feed(wire) /\ wire' = <<>>
  BY <1>2, <1>3
<1> QED BY <1>1, <1>2, <1>4 DEF Feed

\* What is no header is dropped with all that is behind it.
LEMMA Dropped ==
    ASSUME NEW b \in Seq(Nat), Len(b) >= V1, LostFraming(b)
    PROVE  Parsed[b].rest = <<>> /\ Parsed[b].packets = <<>>
<1>1. Parsed[b] = Ends(b)
  BY ParsedIteration DEF Iteration, Cuts
<1> QED BY <1>1 DEF Ends

\* What is too short for a header waits.
LEMMA TooShort ==
    ASSUME NEW b \in Seq(Nat), Len(b) <= 1
    PROVE  Parsed[b].rest = b /\ Parsed[b].packets = <<>>
<1>1. ~(Len(b) >= V1)
  BY DEF V1
<1>2. Parsed[b] = Ends(b)
  BY <1>1, ParsedIteration DEF Iteration, Cuts
<1> QED BY <1>1, <1>2 DEF Ends

\* One packet is handed on and leaves nothing.
LEMMA OnePacket ==
    ASSUME NEW p \in Packets
    PROVE  Parsed[Encoded(p)].rest = <<>> /\ Parsed[Encoded(p)].packets = <<Content(p)>>
<1>1. /\ Encoded(p) \in Seq(Nat) /\ Encoded(p) = Encoded(p) \o <<>> /\ <<>> \in Seq(Nat)
  <2>1. Encoded(p) \in Seq(Nat)
    BY EncodedIsCut, <<>> \in Seq(Nat)
  <2>2. \A e \in Seq(Nat) : e = e \o <<>>
    OBVIOUS
  <2> QED BY <2>1, <2>2
<1>2. /\ Cuts(Encoded(p)) /\ FirstPacket(Encoded(p)) = Content(p)
      /\ AfterPacket(Encoded(p)) = <<>>
  <2> DEFINE e == Encoded(p)
             f == e \o <<>>
  <2>1. Cuts(f) /\ FirstPacket(f) = Content(p) /\ AfterPacket(f) = <<>>
    BY <1>1, EncodedIsCut
  <2>2. e = f
    BY <1>1
  <2> HIDE DEF e, f
  <2> QED BY <2>1, <2>2 DEF e
<1>3. Parsed[<<>>].rest = <<>> /\ Parsed[<<>>].packets = <<>> /\ Parsed[<<>>] \in Results
  BY <1>1, TooShort, ParsedTyped, Len(<<>>) <= 1
<1>4. Parsed[Encoded(p)] = Joined(Content(p), Parsed[<<>>])
  BY <1>1, <1>2, ParsedIteration DEF Iteration
<1> DEFINE c == Content(p)
           m == Parsed[<<>>]
<1>5. <<c>> \o <<>> = <<c>>
  OBVIOUS
<1> HIDE DEF c, m
<1>6. Joined(c, m).rest = m.rest /\ Joined(c, m).packets = <<c>> \o m.packets
  BY <1>3 DEF m, Joined, Results
<1> QED BY <1>3, <1>4, <1>5, <1>6 DEF c, m

LEMMA LateSend ==
    ASSUME TypeOK, LateInv, Send, late
    PROVE  LateInv'
<1>1. PICK p \in Packets :
          /\ wire' = wire \o Encoded(p) /\ sent' = Append(sent, Content(p))
          /\ buffer' = buffer /\ delivered' = delivered /\ wire = <<>>
  BY FramingAssumption DEF Send
<1>2. wire' = Encoded(p)
  <2>1. Encoded(p) \in Seq(Nat)
    BY EncodedIsCut, <<>> \in Seq(Nat)
  <2> DEFINE e == Encoded(p)
  <2>2. <<>> \o e = e
    <3> HIDE DEF e
    <3> QED BY <2>1 DEF e
  <2> QED BY <1>1, <2>2
<1>3. CASE AtTail
  <2>1. <<>> \in Seq(MuxPackets) /\ <<>> \o <<>> = <<>> /\ Len(<<>>) <= 1
    OBVIOUS
  <2> DEFINE none == <<>>
  <2>2. /\ none \in Seq(MuxPackets) /\ Len(none) <= 1
        /\ sent' = Append(none \o delivered', Content(p)) /\ buffer' = <<>>
    BY <1>1, <1>3, <2>1 DEF AtTail
  <2> HIDE DEF none
  <2> QED BY <1>2, <2>2 DEF LateInv, InStep
<1>4. CASE AtStray
  <2>1. sent = <<>>
    <3> SUFFICES ASSUME NEW q \in Packets, wire = Encoded(q) PROVE FALSE
      BY <1>4 DEF AtStray
    <3>1. Cuts(Encoded(q) \o <<>>) /\ AfterPacket(Encoded(q) \o <<>>) = <<>>
      BY EncodedIsCut, <<>> \in Seq(Nat)
    <3>2. Encoded(q) \o <<>> = <<>>
      BY <1>1
    <3>3. ~Cuts(<<>>)
      BY DEF Cuts, V1
    <3> QED BY <3>1, <3>2, <3>3
  <2>2. sent' = <<Content(p)>>
    BY <1>1, <2>1
  <2> QED BY <1>1, <1>2, <1>4, <2>2 DEF AtStray, LateInv
<1>5. CASE InStep
  <2>1. PICK lost \in Seq(MuxPackets) :
            /\ Len(lost) <= 1
            /\ \/ sent = lost \o delivered /\ wire = <<>>
               \/ \E q \in Packets : wire = Encoded(q)
    BY <1>5 DEF InStep
  <2>2. sent = lost \o delivered
    <3> SUFFICES ASSUME NEW q \in Packets, wire = Encoded(q) PROVE FALSE
      BY <2>1
    <3>1. Cuts(Encoded(q) \o <<>>)
      BY EncodedIsCut, <<>> \in Seq(Nat)
    <3>2. Encoded(q) \o <<>> = <<>>
      BY <1>1
    <3>3. ~Cuts(<<>>)
      BY DEF Cuts, V1
    <3> QED BY <3>1, <3>2, <3>3
  <2>3. sent' = Append(lost \o delivered', Content(p)) /\ buffer' = <<>>
    BY <1>1, <1>5, <2>2 DEF InStep
  <2> QED BY <1>2, <2>1, <2>3 DEF LateInv, InStep
<1> QED BY <1>3, <1>4, <1>5 DEF LateInv

LEMMA LateTransferKeeps ==
    ASSUME TypeOK, LateInv, Transfer, late
    PROVE  LateInv'
<1>0. /\ buffer \in Seq(Nat) /\ wire \in Seq(Nat) /\ delivered \in Seq(MuxPackets)
      /\ Len(wire) \in Nat
  BY DEF TypeOK, MuxPackets
<1>1. /\ wire # <<>> /\ wire' = <<>> /\ late' /\ sent' = sent
      /\ buffer' = Parsed[buffer \o wire].rest
      /\ delivered' = delivered \o Parsed[buffer \o wire].packets
  BY LateTransfer
<1>2. CASE AtTail
  <2>1. buffer \o wire = wire
    BY <1>0, <1>2 DEF AtTail
  <2>2. CASE Len(wire) = 1
    <3>1. Stray(wire)
      BY <1>0, <1>2, <2>2, TailsAssumption DEF Stray, AtTail
    <3>2. Len(wire) <= 1
      BY <2>2
    <3>3. Parsed[wire].rest = wire /\ Parsed[wire].packets = <<>>
      BY <1>0, <3>2, TooShort
    <3>4. buffer' = wire /\ delivered' = <<>> /\ sent' = <<>>
      BY <1>1, <1>2, <2>1, <3>3 DEF AtTail
    <3> QED BY <1>1, <3>1, <3>4 DEF AtStray, LateInv
  <2>3. CASE Len(wire) # 1
    <3>1. Len(wire) >= 2
      <4>1. Len(wire) # 0
        BY <1>0, <1>1
      <4> DEFINE n == Len(wire)
      <4>2. n \in Nat /\ n # 0 /\ n # 1
        BY <1>0, <2>3, <4>1
      <4> HIDE DEF n
      <4>3. n >= 2
        BY <4>2
      <4> QED BY <4>3 DEF n
    <3>2. wire \in Tails /\ Len(wire) >= V1 /\ wire[2] \in Nat
      BY <1>0, <1>2, <3>1 DEF AtTail, V1
    <3>3. LostFraming(wire)
      BY <3>2, TailsAssumption, FramingAssumption DEF LostFraming, LengthOf, V1
    <3>4. Parsed[wire].rest = <<>> /\ Parsed[wire].packets = <<>>
      BY <1>0, <3>2, <3>3, Dropped
    <3> DEFINE none == <<>>
    <3>5. none \in Seq(MuxPackets) /\ Len(none) <= 1
      OBVIOUS
    <3>6. buffer' = <<>> /\ sent' = none \o delivered'
      BY <1>1, <1>2, <2>1, <3>4 DEF AtTail
    <3> HIDE DEF none
    <3> QED BY <1>1, <3>5, <3>6 DEF InStep, LateInv
  <2> QED BY <2>2, <2>3
<1>3. CASE AtStray
  <2>1. PICK p \in Packets : sent = <<Content(p)>> /\ wire = Encoded(p)
    BY <1>1, <1>3 DEF AtStray
  <2> DEFINE b == buffer \o wire
  <2>2. b \in Seq(Nat) /\ Len(b) >= 2 /\ b[1] = buffer[1]
    <3>1. Len(buffer) = 1 /\ 1 \in 1..Len(buffer)
      BY <1>3 DEF AtStray, Stray
    <3>2. Len(wire) # 0
      BY <1>0, <1>1
    <3>3. b \in Seq(Nat) /\ Len(b) = Len(buffer) + Len(wire) /\ \A i \in 1..Len(buffer) : b[i] = buffer[i]
      BY <1>0, ConcatFirst
    <3> HIDE DEF b
    <3> QED BY <1>0, <3>1, <3>2, <3>3
  <2>3. LostFraming(b)
    BY <1>3, <2>2 DEF AtStray, Stray, LostFraming
  <2> HIDE DEF b
  <2>4. Parsed[b].rest = <<>> /\ Parsed[b].packets = <<>>
    BY <2>2, <2>3, Dropped DEF V1
  <2>5. buffer' = <<>> /\ delivered' = <<>>
    BY <1>1, <1>3, <2>4 DEF b, AtStray
  <2> DEFINE lost == <<Content(p)>>
  <2>6. lost \in Seq(MuxPackets) /\ Len(lost) = 1
    BY FramingAssumption DEF Content, MuxPackets
  <2>7. sent' = lost \o <<>>
    <3> HIDE DEF lost
    <3> QED BY <1>1, <2>1, <2>6 DEF lost
  <2>8. sent' = lost \o delivered'
    BY <2>5, <2>7
  <2> HIDE DEF lost
  <2>9. lost \in Seq(MuxPackets) /\ Len(lost) <= 1
    BY <2>6
  <2>10. InStep'
    BY <1>1, <2>5, <2>8, <2>9 DEF InStep
  <2> QED BY <2>10 DEF LateInv
<1>4. CASE InStep
  <2>1. PICK lost \in Seq(MuxPackets) :
            /\ Len(lost) <= 1
            /\ \E p \in Packets : /\ sent = Append(lost \o delivered, Content(p))
                                  /\ wire = Encoded(p)
    BY <1>1, <1>4 DEF InStep
  <2>2. PICK p \in Packets : /\ sent = Append(lost \o delivered, Content(p))
                             /\ wire = Encoded(p)
    BY <2>1
  <2>3. buffer \o wire = Encoded(p)
    BY <1>0, <1>4, <2>2 DEF InStep
  <2>4. buffer' = <<>> /\ delivered' = delivered \o <<Content(p)>>
    BY <1>1, <2>3, OnePacket
  <2> DEFINE c == Content(p)
  <2>5. c \in MuxPackets
    BY FramingAssumption DEF Content, MuxPackets
  <2> HIDE DEF c
  <2>6. Append(lost \o delivered, c) = lost \o (delivered \o <<c>>)
    BY <1>0, <2>5, AppendToSecond
  <2>7. sent' = lost \o delivered'
    BY <1>1, <2>2, <2>4, <2>6 DEF c
  <2> QED BY <1>1, <2>1, <2>4, <2>7 DEF InStep, LateInv
<1> QED BY <1>2, <1>3, <1>4 DEF LateInv

\* In each of these places what was handed on begins what was sent, after at most
\* one packet of it.
LEMMA LateLosesOne ==
    ASSUME TypeOK, LateInv
    PROVE  LateStartLosesOnePacket
<1> SUFFICES ASSUME late
             PROVE  \E k \in {0, 1} : IsPrefix(delivered, SubSeq(sent, k + 1, Len(sent)))
  BY DEF LateStartLosesOnePacket
<1>1. delivered \in Seq(MuxPackets)
  BY DEF TypeOK, MuxPackets
<1>2. CASE delivered = <<>>
  <2>1. \A s : Len(s) \in Nat => IsPrefix(<<>>, s)
    BY DEF IsPrefix
  <2>2. Len(sent) \in Nat /\ Len(SubSeq(sent, 1, Len(sent))) \in Nat
    BY DEF TypeOK
  <2> QED BY <1>2, <2>1, <2>2
<1>3. CASE InStep
  <2>1. PICK lost \in Seq(MuxPackets), more \in Seq(MuxPackets) :
            Len(lost) <= 1 /\ sent = (lost \o delivered) \o more
    <3>1. PICK lost \in Seq(MuxPackets) :
              /\ Len(lost) <= 1
              /\ \/ sent = lost \o delivered
                 \/ \E p \in Packets : sent = Append(lost \o delivered, Content(p))
      BY <1>3 DEF InStep
    <3>2. CASE sent = lost \o delivered
      <4>1. sent = (lost \o delivered) \o <<>> /\ <<>> \in Seq(MuxPackets)
        BY <1>1, <3>2
      <4> QED BY <3>1, <4>1
    <3>3. ASSUME NEW p \in Packets, sent = Append(lost \o delivered, Content(p))
          PROVE  sent = (lost \o delivered) \o <<Content(p)>> /\ <<Content(p)>> \in Seq(MuxPackets)
      <4> DEFINE c == Content(p)
      <4>1. c \in MuxPackets
        BY FramingAssumption DEF Content, MuxPackets
      <4> HIDE DEF c
      <4>2. Append(lost \o delivered, c) = (lost \o delivered) \o <<c>> /\ <<c>> \in Seq(MuxPackets)
        BY <1>1, <4>1
      <4> QED BY <3>3, <4>2 DEF c
    <3> QED BY <3>1, <3>2, <3>3
  <2>2. IsPrefix(delivered, SubSeq(sent, Len(lost) + 1, Len(sent)))
    BY <1>1, <2>1, PrefixAfter
  <2>3. Len(lost) \in {0, 1}
    <3> DEFINE n == Len(lost)
    <3>1. n \in Nat
      OBVIOUS
    <3>2. n <= 1
      BY <2>1
    <3> HIDE DEF n
    <3>3. n = 0 \/ n = 1
      BY <3>1, <3>2
    <3> QED BY <3>3 DEF n
  <2> QED BY <2>2, <2>3
<1> QED BY <1>2, <1>3 DEF LateInv, AtTail, AtStray

\* A capture that begins inside a packet costs that packet and at most the one
\* after it, for a peer that writes a packet in each transfer.
THEOREM LateStartCostsOnePacket == Spec => []LateStartLosesOnePacket
<1>1. Init => LateInv
  BY DEF Init, LateInv, AtTail
<1>2. TypeOK /\ LateInv /\ [Next]_vars => LateInv'
  <2> SUFFICES ASSUME TypeOK, LateInv, [Next]_vars PROVE LateInv'
    OBVIOUS
  <2>1. CASE ~late
    BY <2>1 DEF Next, Send, Transfer, vars, LateInv
  <2>2. CASE late /\ UNCHANGED vars
    BY <2>2 DEF vars, LateInv, AtTail, AtStray, InStep
  <2> QED BY <2>1, <2>2, LateSend, LateTransferKeeps DEF Next
<1>3. TypeOK /\ LateInv => LateStartLosesOnePacket
  BY LateLosesOne
<1> QED BY <1>1, <1>2, <1>3, FramingTypes, PTL DEF Spec
=============================================================================
