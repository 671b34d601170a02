-------------------------- MODULE MuxStreamProofs --------------------------
(***************************************************************************)
(* What drain makes of one direction of a connection.                      *)
(***************************************************************************)
EXTENDS MuxStream, SequenceLemmas, TLAPS

-----------------------------------------------------------------------------
(* The loop of drain, as one iteration and the rest.  The recursive         *)
(* function Drained exists because a message that is cut off leaves a       *)
(* shorter buffer.                                                          *)

Drains == [encoding : Encodings, rest : Seq(Nat), messages : Seq(Seq(Nat))]

\* The framing is known, or what has arrived shows it.
Shows(e, b) == e = "Unknown" => Len(b) - 1 >= Needed(b[1]) /\ StartsPlist(Tail(b))

\* A message is cut off the buffer; otherwise the loop ends.
TakesOne(e, b) ==
    /\ b # <<>> /\ ~LooksLikeTLS(e, b) /\ Plausible(b[1]) /\ Shows(e, b)
    /\ Len(b) - 1 >= b[1]
Leaves(e, b) ==
    IF b = <<>> THEN Waiting(e, b)
    ELSE IF LooksLikeTLS(e, b) THEN GivenUp("TLS", b)
    ELSE IF ~Plausible(b[1]) THEN GivenUp("Raw", b)
    ELSE IF e = "Unknown" /\ Len(b) - 1 < Needed(b[1]) THEN Waiting(e, b)
    ELSE IF e = "Unknown" /\ ~StartsPlist(Tail(b)) THEN GivenUp("Raw", b)
    ELSE Waiting("Plist", b)
Message(b) == SubSeq(b, 2, b[1] + 1)
AfterMessage(b) == SubSeq(b, b[1] + 2, Len(b))
MessageFirst(p, more) == [more EXCEPT !.messages = <<p>> \o @]
Round(f, b, e) ==
    IF TakesOne(e, b) THEN MessageFirst(Message(b), f[AfterMessage(b)]["Plist"])
                      ELSE Leaves(e, b)
Rounds(f, b) == [e \in Encodings |-> Round(f, b, e)]

\* Buffers of a bounded length, and the loop on them.
UpTo(n) == {b \in Seq(Nat) : Len(b) <= n}
DrainsUpTo(f, n) == f = [b \in UpTo(n) |-> Rounds(f, b)]

\* A message that is cut off leaves a buffer that is shorter.
LEMMA MessageShortens ==
    ASSUME NEW b \in Seq(Nat), NEW e, TakesOne(e, b)
    PROVE  /\ AfterMessage(b) \in Seq(Nat) /\ Message(b) \in Seq(Nat)
           /\ Len(AfterMessage(b)) = Len(b) - b[1] - 1
           /\ b[1] \in Nat /\ b[1] >= 1 /\ b[1] + 1 <= Len(b)
<1>1. Len(b) \in Nat /\ Len(b) >= 1 /\ b[1] \in Nat /\ b[1] >= 1 /\ b[1] + 1 <= Len(b)
  <2>1. Len(b) \in Nat /\ Len(b) >= 1 /\ b[1] \in Nat
    BY DEF TakesOne
  <2> QED BY <2>1 DEF TakesOne, Plausible
<1>2. SubSeq(b, b[1] + 2, Len(b)) \in Seq(Nat)
      /\ Len(SubSeq(b, b[1] + 2, Len(b))) = Len(b) - b[1] - 1
  <2>1. b[1] + 2 \in Nat \ {0} /\ b[1] + 2 <= Len(b) + 1
    BY <1>1
  <2>2. SubSeq(b, b[1] + 2, Len(b)) \in Seq(Nat)
        /\ Len(SubSeq(b, b[1] + 2, Len(b))) = Len(b) - (b[1] + 2) + 1
    <3> DEFINE m == b[1] + 2
               n == Len(b)
    <3>1. m \in Nat \ {0} /\ n \in Nat /\ n <= Len(b) /\ m <= n + 1
      BY <1>1, <2>1
    <3> HIDE DEF m, n
    <3>2. SubSeq(b, m, n) \in Seq(Nat) /\ Len(SubSeq(b, m, n)) = n - m + 1
      BY <3>1, PartTyped
    <3> QED BY <3>2 DEF m, n
  <2>3. Len(b) - (b[1] + 2) + 1 = Len(b) - b[1] - 1
    BY <1>1
  <2> QED BY <2>2, <2>3
<1>3. SubSeq(b, 2, b[1] + 1) \in Seq(Nat)
  BY <1>1
<1> QED BY <1>1, <1>2, <1>3 DEF AfterMessage, Message

LEMMA NothingTaken ==
    ASSUME NEW b \in Seq(Nat), NEW e, Len(b) <= 0
    PROVE  ~TakesOne(e, b)
BY DEF TakesOne

\* Two loops on buffers of different lengths agree where both are.
LEMMA DrainsAgree ==
    ASSUME NEW m \in Nat, NEW n \in Nat, NEW f, NEW g, DrainsUpTo(f, m), DrainsUpTo(g, n)
    PROVE  \A b \in Seq(Nat) : Len(b) <= m /\ Len(b) <= n => f[b] = g[b]
<1> DEFINE S == {k \in Nat : \A b \in Seq(Nat) :
                    Len(b) <= k /\ Len(b) <= m /\ Len(b) <= n => f[b] = g[b]}
<1>0. \A b \in Seq(Nat) : Len(b) <= m /\ Len(b) <= n => f[b] = Rounds(f, b) /\ g[b] = Rounds(g, b)
  BY DEF DrainsUpTo, UpTo
<1>1. 0 \in S
  <2> SUFFICES ASSUME NEW b \in Seq(Nat), Len(b) <= 0 PROVE f[b] = g[b]
    OBVIOUS
  <2>1. \A e \in Encodings : Round(f, b, e) = Round(g, b, e)
    BY NothingTaken DEF Round
  <2>2. Rounds(f, b) = Rounds(g, b)
    BY <2>1, Zenon DEF Rounds
  <2> QED BY <2>2, <1>0
<1>2. ASSUME NEW k \in S PROVE k + 1 \in S
  <2> SUFFICES ASSUME NEW b \in Seq(Nat), Len(b) <= k + 1, Len(b) <= m, Len(b) <= n
               PROVE  f[b] = g[b]
    OBVIOUS
  <2>1. ASSUME NEW e \in Encodings PROVE Round(f, b, e) = Round(g, b, e)
    <3>1. CASE ~TakesOne(e, b)
      BY <3>1 DEF Round
    <3>2. CASE TakesOne(e, b)
      <4>1. /\ AfterMessage(b) \in Seq(Nat) /\ Len(AfterMessage(b)) <= k
            /\ Len(AfterMessage(b)) <= m /\ Len(AfterMessage(b)) <= n
        BY SMTT(40), <3>2, MessageShortens
      <4>2. f[AfterMessage(b)] = g[AfterMessage(b)]
        BY <4>1
      <4> QED BY <3>2, <4>2 DEF Round
    <3> QED BY <3>1, <3>2
  <2>2. Rounds(f, b) = Rounds(g, b)
    BY <2>1, Zenon DEF Rounds
  <2> QED BY <2>2, <1>0
<1>3. S = Nat
  <2> HIDE DEF S
  <2> QED BY <1>1, <1>2, SetOfNaturals, S \in SUBSET Nat DEF S
<1> QED BY <1>3

\* There is a loop on buffers of every length.
LEMMA DrainsExist ==
    \A n \in Nat : \E f : DrainsUpTo(f, n)
<1> DEFINE S == {n \in Nat : \E f : DrainsUpTo(f, n)}
<1>1. 0 \in S
  <2> DEFINE f == [b \in UpTo(0) |-> [e \in Encodings |-> Leaves(e, b)]]
  <2>1. \A b \in UpTo(0) : \A e \in Encodings : Round(f, b, e) = Leaves(e, b)
    BY NothingTaken DEF UpTo, Round
  <2>2. \A b \in UpTo(0) : Rounds(f, b) = [e \in Encodings |-> Leaves(e, b)]
    BY <2>1, Zenon DEF Rounds
  <2>3. DrainsUpTo(f, 0)
    BY <2>2, Zenon DEF DrainsUpTo
  <2> QED BY <2>3
<1>2. ASSUME NEW n \in S PROVE n + 1 \in S
  <2>1. PICK f : DrainsUpTo(f, n)
    OBVIOUS
  <2> DEFINE g == [b \in UpTo(n + 1) |-> Rounds(f, b)]
  <2>2. \A b \in UpTo(n) : b \in UpTo(n + 1) /\ f[b] = Rounds(f, b)
    BY <2>1 DEF UpTo, DrainsUpTo
  <2>3. \A b \in UpTo(n) : g[b] = f[b]
    BY <2>2
  <2>4. ASSUME NEW b \in UpTo(n + 1), NEW e, TakesOne(e, b) PROVE AfterMessage(b) \in UpTo(n)
    BY SMTT(40), <2>4, MessageShortens DEF UpTo
  <2>5. \A b \in UpTo(n + 1) : \A e \in Encodings : Round(g, b, e) = Round(f, b, e)
    <3> HIDE DEF g
    <3> QED BY <2>3, <2>4 DEF Round
  <2>6. \A b \in UpTo(n + 1) : Rounds(g, b) = Rounds(f, b)
    BY <2>5, Zenon DEF Rounds
  <2>7. DrainsUpTo(g, n + 1)
    BY <2>6, Zenon DEF DrainsUpTo
  <2> QED BY <2>7
<1>3. S = Nat
  <2> HIDE DEF S
  <2> QED BY <1>1, <1>2, SetOfNaturals, S \in SUBSET Nat DEF S
<1> QED BY <1>3

\* Drained takes one round and goes on with what it leaves.
LEMMA DrainedRound ==
    ASSUME NEW b \in Seq(Nat), NEW e \in Encodings
    PROVE  Drained[b][e] = Round(Drained, b, e)
<1> DEFINE Arms(f, c) == [d \in Encodings |->
        IF c = <<>> THEN Waiting(d, c)
        ELSE IF LooksLikeTLS(d, c) THEN GivenUp("TLS", c)
        ELSE IF ~Plausible(c[1]) THEN GivenUp("Raw", c)
        ELSE IF d = "Unknown" /\ Len(c) - 1 < Needed(c[1]) THEN Waiting(d, c)
        ELSE IF d = "Unknown" /\ ~StartsPlist(Tail(c)) THEN GivenUp("Raw", c)
        ELSE IF Len(c) - 1 < c[1] THEN Waiting("Plist", c)
        ELSE LET more == f[SubSeq(c, c[1] + 2, Len(c))]["Plist"]
             IN  [more EXCEPT !.messages = <<SubSeq(c, 2, c[1] + 1)>> \o @]]
           Loop(f) == [c \in Seq(Nat) |-> Arms(f, c)]
<1>1. ASSUME NEW f, NEW c \in Seq(Nat) PROVE Arms(f, c) = Rounds(f, c)
  <2> SUFFICES ASSUME NEW d \in Encodings PROVE Arms(f, c)[d] = Round(f, c, d)
    BY Zenon DEF Rounds
  <2>0. Len(c) \in Nat /\ (c # <<>> => c[1] \in Nat)
    OBVIOUS
  <2>1. CASE c = <<>>
    BY <2>1 DEF Round, TakesOne, Leaves
  <2>2. CASE c # <<>>
    <3>1. Needed(c[1]) \in Nat
      BY <2>0, <2>2 DEF Needed
    <3> QED BY <2>0, <2>2, <3>1 DEF Round, TakesOne, Shows, Leaves, Message, AfterMessage, MessageFirst
  <2> QED BY <2>1, <2>2
<1>2. Drained = CHOOSE f : f = Loop(f)
  BY Zenon DEF Drained
<1> HIDE DEF Arms
<1>3. ASSUME NEW f PROVE Loop(f) = [c \in Seq(Nat) |-> Rounds(f, c)]
  BY <1>1, Zenon
<1> HIDE DEF Loop
<1> DEFINE F(n) == CHOOSE f : DrainsUpTo(f, n)
           g == [c \in Seq(Nat) |-> F(Len(c))[c]]
<1>4. \A n \in Nat : DrainsUpTo(F(n), n)
  BY DrainsExist
<1> HIDE DEF F
<1>5. ASSUME NEW c \in Seq(Nat) PROVE g[c] = Rounds(g, c)
  <2>1. Len(c) \in Nat /\ DrainsUpTo(F(Len(c)), Len(c))
    BY <1>4
  <2>2. g[c] = Rounds(F(Len(c)), c)
    BY SMTT(40), <2>1 DEF DrainsUpTo, UpTo
  <2>3. ASSUME NEW d \in Encodings PROVE Round(F(Len(c)), c, d) = Round(g, c, d)
    <3>1. CASE ~TakesOne(d, c)
      BY <3>1 DEF Round
    <3>2. CASE TakesOne(d, c)
      <4> DEFINE a == AfterMessage(c)
      <4>0. /\ a \in Seq(Nat) /\ Len(a) = Len(c) - c[1] - 1
            /\ c[1] \in Nat /\ c[1] >= 1 /\ c[1] + 1 <= Len(c)
        BY <3>2, MessageShortens
      <4> HIDE DEF a
      <4>1. a \in Seq(Nat) /\ Len(a) \in Nat /\ Len(a) <= Len(c)
        BY <2>1, <4>0
      <4>2. F(Len(c))[a] = F(Len(a))[a]
        BY <2>1, <4>1, <1>4, DrainsAgree
      <4>3. g[a] = F(Len(c))[a]
        BY <4>1, <4>2
      <4> HIDE DEF g
      <4> QED BY <3>2, <4>3 DEF Round, a
    <3> QED BY <3>1, <3>2
  <2>4. Rounds(F(Len(c)), c) = Rounds(g, c)
    BY <2>3, Zenon DEF Rounds
  <2> QED BY <2>2, <2>4
<1>6. g = Loop(g)
  BY <1>3, <1>5, Zenon
<1> HIDE DEF g
<1>7. Drained = Loop(Drained)
  BY <1>2, <1>6, Zenon
<1>8. Drained = [c \in Seq(Nat) |-> Rounds(Drained, c)]
  BY <1>3, <1>7, Zenon
<1>9. Drained[b] = Rounds(Drained, b)
  BY <1>8
<1> QED BY <1>9 DEF Rounds

-----------------------------------------------------------------------------
(* What the loop leaves, and what it makes of the messages of the peer.     *)

\* What drain leaves of a buffer is less than a message, and nothing when it has
\* given up; it leaves the framing open only if it was, and has seen too little.
Left(e, b, d) ==
    /\ d \in Drains
    /\ Len(d.rest) <= MaxMessage
    /\ d.encoding \in {"Raw", "TLS"} => d.rest = <<>>
    /\ d.encoding = "Unknown" => e = "Unknown" /\ d.rest = b /\ Len(b) < 3

LEMMA MessageComesFirst ==
    ASSUME NEW p \in Seq(Nat), NEW d \in Drains
    PROVE  /\ MessageFirst(p, d) \in Drains
           /\ MessageFirst(p, d).encoding = d.encoding
           /\ MessageFirst(p, d).rest = d.rest
           /\ MessageFirst(p, d).messages = <<p>> \o d.messages
<1>1. d.messages \in Seq(Seq(Nat)) /\ <<p>> \in Seq(Seq(Nat))
  BY DEF Drains
<1>2. <<p>> \o d.messages \in Seq(Seq(Nat))
  <2> DEFINE m == d.messages
             q == <<p>>
             B == Seq(Nat)
  <2>1. m \in Seq(B) /\ q \in Seq(B)
    BY <1>1
  <2> HIDE DEF m, q, B
  <2>2. q \o m \in Seq(B)
    BY <2>1
  <2> QED BY <2>2 DEF m, q, B
<1> QED BY <1>2 DEF MessageFirst, Drains

LEMMA LeavesTyped ==
    ASSUME NEW b \in Seq(Nat), NEW e \in {"Unknown", "Plist"}, ~TakesOne(e, b)
    PROVE  Left(e, b, Leaves(e, b))
<1>1. MaxMessage \in Nat /\ Len(b) \in Nat /\ <<>> \in Seq(Nat) /\ <<>> \in Seq(Seq(Nat)) /\ Len(<<>>) = 0
  BY StreamAssumption
<1>2. CASE b = <<>>
  BY <1>1, <1>2 DEF Left, Leaves, Waiting, Drains, Encodings
<1>3. CASE b # <<>> /\ (LooksLikeTLS(e, b) \/ ~Plausible(b[1]))
  BY <1>1, <1>3 DEF Left, Leaves, GivenUp, Drains, Encodings
<1>4. CASE b # <<>> /\ ~LooksLikeTLS(e, b) /\ Plausible(b[1])
  <2>1. b[1] \in Nat /\ b[1] <= MaxMessage /\ Len(b) >= 1
    BY <1>4 DEF Plausible
  <2>2. Needed(b[1]) \in Nat /\ Needed(b[1]) <= b[1] /\ Needed(b[1]) <= 2
    BY <2>1 DEF Needed
  <2>3. CASE e = "Unknown" /\ Len(b) - 1 < Needed(b[1])
    <3>1. Leaves(e, b) = [encoding |-> e, rest |-> b, messages |-> <<>>]
      BY <1>4, <2>3 DEF Leaves, Waiting
    <3>2. Len(b) <= MaxMessage /\ Len(b) < 3
      BY <1>1, <2>1, <2>2, <2>3
    <3>3. /\ Leaves(e, b) \in Drains /\ Leaves(e, b).rest = b
          /\ Leaves(e, b).encoding = e
      BY <1>1, <3>1 DEF Drains, Encodings
    <3> QED BY <2>3, <3>2, <3>3 DEF Left
  <2>4. CASE e = "Unknown" /\ ~(Len(b) - 1 < Needed(b[1])) /\ ~StartsPlist(Tail(b))
    <3>1. Leaves(e, b) = [encoding |-> "Raw", rest |-> <<>>, messages |-> <<>>]
      BY <1>4, <2>4 DEF Leaves, GivenUp
    <3> QED BY <1>1, <3>1 DEF Left, Drains, Encodings
  <2>5. CASE e = "Unknown" => ~(Len(b) - 1 < Needed(b[1])) /\ StartsPlist(Tail(b))
    <3>1. Leaves(e, b) = [encoding |-> "Plist", rest |-> b, messages |-> <<>>]
      BY <1>4, <2>5 DEF Leaves, Waiting
    <3>2. Shows(e, b)
      BY <1>1, <2>2, <2>5 DEF Shows
    <3>3. ~(Len(b) - 1 >= b[1])
      BY <1>4, <3>2 DEF TakesOne
    <3>4. Len(b) <= MaxMessage
      BY <1>1, <2>1, <3>3
    <3> QED BY <1>1, <3>1, <3>4 DEF Left, Drains, Encodings
  <2> QED BY <2>3, <2>4, <2>5
<1> QED BY <1>2, <1>3, <1>4

LEMMA DrainedTyped ==
    \A b \in Seq(Nat) : \A e \in {"Unknown", "Plist"} : Left(e, b, Drained[b][e])
<1> DEFINE S == {n \in Nat : \A b \in Seq(Nat) : Len(b) <= n =>
                                 \A e \in {"Unknown", "Plist"} : Left(e, b, Drained[b][e])}
<1>0. \A e \in {"Unknown", "Plist"} : e \in Encodings
  BY DEF Encodings
<1>1. ASSUME NEW b \in Seq(Nat), NEW e \in {"Unknown", "Plist"}, ~TakesOne(e, b)
      PROVE  Left(e, b, Drained[b][e])
  BY <1>0, <1>1, LeavesTyped, DrainedRound DEF Round
<1>2. 0 \in S
  BY <1>1, NothingTaken
<1>3. ASSUME NEW n \in S PROVE n + 1 \in S
  <2>0. n \in Nat /\ n + 1 \in Nat
    OBVIOUS
  <2> SUFFICES ASSUME NEW b \in Seq(Nat), Len(b) <= n + 1, NEW e \in {"Unknown", "Plist"},
                      TakesOne(e, b)
               PROVE  Left(e, b, Drained[b][e])
    BY <2>0, <1>1
  <2> DEFINE c == AfterMessage(b)
             p == Message(b)
             d == Drained[c]["Plist"]
  <2>1. c \in Seq(Nat) /\ p \in Seq(Nat) /\ Len(c) <= n
    <3>1. Len(b) \in Nat
      OBVIOUS
    <3>2. /\ c \in Seq(Nat) /\ p \in Seq(Nat) /\ Len(c) = Len(b) - b[1] - 1
          /\ b[1] \in Nat /\ b[1] >= 1
      BY MessageShortens
    <3> HIDE DEF c, p
    <3> QED BY <2>0, <3>1, <3>2
  <2>2. Left("Plist", c, d)
    BY <2>1
  <2>3. Drained[b][e] = MessageFirst(p, d)
    BY <1>0, DrainedRound DEF Round
  <2> HIDE DEF c, p, d
  <2>4. /\ MessageFirst(p, d) \in Drains
        /\ MessageFirst(p, d).encoding = d.encoding
        /\ MessageFirst(p, d).rest = d.rest
    BY <2>1, <2>2, MessageComesFirst DEF Left
  <2>5. Left(e, b, MessageFirst(p, d))
    BY <2>2, <2>4 DEF Left
  <2> QED BY <2>3, <2>5
<1>4. S = Nat
  <2> HIDE DEF S
  <2> QED BY <1>2, <1>3, SetOfNaturals, S \in SUBSET Nat DEF S
<1>5. ASSUME NEW b \in Seq(Nat) PROVE \A e \in {"Unknown", "Plist"} : Left(e, b, Drained[b][e])
  <2>1. Len(b) \in Nat /\ Len(b) <= Len(b)
    OBVIOUS
  <2>2. Len(b) \in S
    <3> HIDE DEF S
    <3> QED BY <1>4, <2>1
  <2> QED BY <2>1, <2>2
<1> QED BY <1>5

\* A body behind its length, and the bytes of several.
Framed(body) == <<Len(body)>> \o body
Bytes(q) == FlattenSeq([i \in 1..Len(q) |-> Framed(q[i])])

\* What is known of a body.
LEMMA BodyFacts ==
    ASSUME NEW a \in Bodies
    PROVE  /\ a \in Seq(Nat) /\ Len(a) \in Nat /\ Len(a) >= 2 /\ Len(a) <= MaxMessage
           /\ SubSeq(a, 1, 2) \in Signatures /\ Len(a) \notin TlsWords /\ MaxMessage \in Nat
           /\ Framed(a) \in Seq(Nat) /\ Len(Framed(a)) = Len(a) + 1
           /\ Framed(a)[1] = Len(a) /\ \A i \in 1..Len(a) : Framed(a)[i + 1] = a[i]
<1>1. /\ a \in Seq(Nat) /\ Len(a) \in Nat /\ Len(a) >= 2 /\ Len(a) <= MaxMessage
      /\ SubSeq(a, 1, 2) \in Signatures /\ MaxMessage \in Nat
  BY StreamAssumption
<1>2. Len(a) \notin TlsWords
  <2> SUFFICES ASSUME NEW w \in TlsWords PROVE w # Len(a)
    OBVIOUS
  <2>1. w \in Nat /\ w > MaxMessage
    BY StreamAssumption
  <2> QED BY <1>1, <2>1
<1> DEFINE k == Len(a)
           h == <<k>>
<1>3. h \in Seq(Nat) /\ Len(h) = 1 /\ h[1] = k
  <2>1. k \in Nat
    BY <1>1
  <2> HIDE DEF k
  <2> QED BY <2>1
<1>4. Framed(a) = h \o a
  BY DEF Framed
<1> HIDE DEF h, k
<1>5. /\ h \o a \in Seq(Nat) /\ Len(h \o a) = Len(h) + Len(a)
      /\ \A i \in 1..Len(h) : (h \o a)[i] = h[i]
      /\ \A i \in 1..Len(a) : (h \o a)[Len(h) + i] = a[i]
  <2>1. a \in Seq(Nat) /\ h \in Seq(Nat)
    BY <1>1, <1>3
  <2>2. \A i \in 1..Len(a) : (h \o a)[Len(h) + i] = a[i]
    BY <2>1, ConcatSecond
  <2>3. h \o a \in Seq(Nat) /\ Len(h \o a) = Len(h) + Len(a)
    BY <2>1, ConcatFirst
  <2>4. \A i \in 1..Len(h) : (h \o a)[i] = h[i]
    BY <2>1, ConcatFirst
  <2> QED BY <2>2, <2>3, <2>4
<1> DEFINE c == h \o a
<1> HIDE DEF c
<1>6. /\ c \in Seq(Nat) /\ Len(c) = Len(a) + 1 /\ c[1] = k
      /\ \A i \in 1..Len(a) : c[i + 1] = a[i]
  <2>1. \A i \in 1..Len(a) : c[1 + i] = a[i] /\ 1 + i = i + 1
    BY <1>3, <1>5 DEF c
  <2> QED BY <1>1, <1>3, <1>5, <2>1 DEF c
<1> QED BY <1>1, <1>2, <1>4, <1>6 DEF c, k

LEMMA BytesOfBodies ==
    ASSUME NEW q \in Seq(Bodies), NEW a \in Bodies
    PROVE  /\ Bytes(q) \in Seq(Nat)
           /\ Bytes(<<a>> \o q) = Framed(a) \o Bytes(q)
           /\ Bytes(Append(q, a)) = Bytes(q) \o Framed(a)
<1> DEFINE e(s) == [i \in 1..Len(s) |-> Framed(s[i])]
           B == Seq(Nat)
<1>0. \A r \in Bodies : Framed(r) \in B
  BY BodyFacts
<1>1. e(q) \in Seq(B) /\ Framed(a) \in B
  <2> HIDE DEF B
  <2> QED BY <1>0
<1>2. e(<<a>> \o q) = <<Framed(a)>> \o e(q)
  <2> HIDE DEF B
  <2>1. Len(<<a>> \o q) = Len(q) + 1 /\ Len(q) \in Nat
    OBVIOUS
  <2>2. e(q) \in Seq(B) /\ Len(e(q)) = Len(q) /\ \A i \in 1..Len(q) : e(q)[i] = Framed(q[i])
    BY <1>1
  <2> DEFINE f == e(q)
  <2>3. <<Framed(a)>> \o f = [i \in 1..(Len(q) + 1) |-> IF i = 1 THEN Framed(a) ELSE f[i - 1]]
    <3> HIDE DEF f
    <3> QED BY <1>1, <2>1, <2>2 DEF f
  <2>4. ASSUME NEW i \in 1..(Len(q) + 1)
        PROVE  Framed((<<a>> \o q)[i]) = IF i = 1 THEN Framed(a) ELSE f[i - 1]
    <3>1. CASE i = 1
      BY <3>1
    <3>2. CASE i # 1
      <4>1. i - 1 \in 1..Len(q) /\ (<<a>> \o q)[i] = q[i - 1]
        BY <2>1, <3>2
      <4> QED BY <4>1, <3>2
    <3> QED BY <3>1, <3>2
  <2> QED BY <2>1, <2>3, <2>4, Zenon
<1>3. e(Append(q, a)) = Append(e(q), Framed(a))
  <2> HIDE DEF B
  <2>1. Len(Append(q, a)) = Len(q) + 1 /\ Len(q) \in Nat
    OBVIOUS
  <2>2. Append(e(q), Framed(a)) = [i \in 1..(Len(q) + 1) |->
                                       IF i = Len(q) + 1 THEN Framed(a) ELSE e(q)[i]]
    BY <2>1
  <2>3. ASSUME NEW i \in 1..(Len(q) + 1)
        PROVE  Framed(Append(q, a)[i]) = IF i = Len(q) + 1 THEN Framed(a) ELSE e(q)[i]
    BY <2>1
  <2> QED BY <2>1, <2>2, <2>3, Zenon
<1> HIDE DEF e
<1>4. /\ Bytes(q) = FlattenSeq(e(q))
      /\ Bytes(<<a>> \o q) = FlattenSeq(e(<<a>> \o q))
      /\ Bytes(Append(q, a)) = FlattenSeq(e(Append(q, a)))
  BY DEF Bytes, e
<1>5. FlattenSeq(e(q)) \in Seq(Nat)
  BY <1>1, FlattenTyped
<1>6. FlattenSeq(<<Framed(a)>> \o e(q)) = Framed(a) \o FlattenSeq(e(q))
  BY <1>1, FlattenBefore
<1>7. FlattenSeq(Append(e(q), Framed(a))) = FlattenSeq(e(q)) \o Framed(a)
  BY <1>1, FlattenAppend
<1> QED BY <1>2, <1>3, <1>4, <1>5, <1>6, <1>7

\* A buffer begins with "s", and goes on with "x".
GoesOn(b, s, x) == b = s \o x

\* A buffer is a header, a body and what follows it.
HasParts(b, h, a, x) == b = (h \o a) \o x
Parted(b, h, a, x) ==
    /\ SubSeq(b, Len(h) + 1, Len(h) + Len(a)) = a
    /\ SubSeq(b, Len(h) + Len(a) + 1, Len(b)) = x

LEMMA PartsAreFound ==
    ASSUME NEW h \in Seq(Nat), NEW a \in Seq(Nat), NEW x \in Seq(Nat),
           NEW b, HasParts(b, h, a, x)
    PROVE  Parted(b, h, a, x)
<1> DEFINE c == (h \o a) \o x
<1>1. SubSeq(c, Len(h) + 1, Len(h) + Len(a)) = a /\ SubSeq(c, Len(h) + Len(a) + 1, Len(c)) = x
  BY ZenonT(60), ConcatMiddle
<1>2. b = c
  BY DEF HasParts
<1> HIDE DEF c
<1> QED BY <1>1, <1>2 DEF Parted

\* The property list at the front of the buffer is cut off and no other,
\* whether the framing is known yet or not.
LEMMA BodyIsCut ==
    ASSUME NEW a \in Bodies, NEW x \in Seq(Nat), NEW b \in Seq(Nat), GoesOn(b, Framed(a), x),
           NEW e \in {"Unknown", "Plist"}
    PROVE  TakesOne(e, b) /\ Message(b) = a /\ AfterMessage(b) = x
<1> DEFINE k == Len(a)
           h == <<k>>
<1>1. /\ a \in Seq(Nat) /\ k \in Nat /\ k >= 2 /\ k <= MaxMessage /\ MaxMessage \in Nat
      /\ SubSeq(a, 1, 2) \in Signatures /\ k \notin TlsWords
  BY BodyFacts
<1>2. h \in Seq(Nat) /\ Len(h) = 1
  <2> HIDE DEF k
  <2> QED BY <1>1
<1>3. SubSeq(b, 2, k + 1) = a /\ SubSeq(b, k + 2, Len(b)) = x
  <2>1. HasParts(b, h, a, x)
    BY DEF GoesOn, Framed, HasParts
  <2>2. /\ SubSeq(b, Len(h) + 1, Len(h) + Len(a)) = a
        /\ SubSeq(b, Len(h) + Len(a) + 1, Len(b)) = x
    <3>1. h \in Seq(Nat) /\ a \in Seq(Nat) /\ x \in Seq(Nat)
      BY <1>1, <1>2
    <3> HIDE DEF k, h
    <3>2. Parted(b, h, a, x)
      BY <2>1, <3>1, PartsAreFound
    <3> QED BY <3>2 DEF Parted
  <2>3. Len(h) + 1 = 2 /\ Len(h) + Len(a) = k + 1 /\ Len(h) + Len(a) + 1 = k + 2
    <3> HIDE DEF h
    <3>1. k = Len(a)
      OBVIOUS
    <3> HIDE DEF k
    <3> QED BY <1>1, <1>2, <3>1
  <2> HIDE DEF h, k
  <2> QED BY <2>2, <2>3
<1>4. /\ Len(b) \in Nat /\ Len(b) >= k + 1 /\ b[1] = k
      /\ \A i \in 1..k : b[i + 1] = a[i]
  <2> DEFINE f == Framed(a)
             c == f \o x
  <2>1. f \in Seq(Nat) /\ Len(f) = k + 1 /\ f[1] = k /\ \A i \in 1..k : f[i + 1] = a[i]
    BY BodyFacts
  <2>2. b = c
    BY DEF GoesOn
  <2> HIDE DEF f, k
  <2>3. Len(c) = Len(f) + Len(x) /\ \A i \in 1..Len(f) : c[i] = f[i]
    BY <2>1, ConcatFirst
  <2> HIDE DEF c
  <2>4. Len(x) \in Nat
    OBVIOUS
  <2>5. Len(b) = k + 1 + Len(x)
    BY <2>1, <2>2, <2>3
  <2>6. Len(b) \in Nat /\ Len(b) >= k + 1
    BY <1>1, <2>4, <2>5
  <2>7. \A i \in 1..(k + 1) : b[i] = f[i]
    BY <2>1, <2>2, <2>3
  <2>8. 1 \in 1..(k + 1) /\ \A i \in 1..k : i + 1 \in 1..(k + 1)
    BY <1>1
  <2> QED BY <2>1, <2>6, <2>7, <2>8
<1>5. b # <<>> /\ ~LooksLikeTLS(e, b) /\ Plausible(b[1])
  <2>1. b # <<>>
    BY <1>1, <1>4
  <2> HIDE DEF k
  <2> QED BY <1>1, <1>4, <2>1 DEF LooksLikeTLS, Plausible
<1>6. Shows(e, b)
  <2>1. Len(b) - 1 >= Needed(b[1])
    <3> HIDE DEF k
    <3> QED BY <1>1, <1>4 DEF Needed
  <2>2. StartsPlist(Tail(b))
    <3> DEFINE t == Tail(b)
    <3>1. /\ t \in Seq(Nat) /\ Len(t) = Len(b) - 1
          /\ \A i \in 1..Len(t) : t[i] = b[i + 1]
      BY <1>5
    <3>2. Len(t) >= 2 /\ t[1] = a[1] /\ t[2] = a[2]
      <4> HIDE DEF t, k
      <4>0. Len(t) = Len(b) - 1
        BY <3>1
      <4>1. Len(t) \in Nat /\ Len(t) >= k /\ k >= 2 /\ Len(t) >= 2
        BY SMTT(40), <1>1, <1>4, <4>0
      <4>2. 1 \in 1..Len(t) /\ 2 \in 1..Len(t) /\ 1 \in 1..k /\ 2 \in 1..k
        BY <1>1, <4>1
      <4>3. t[1] = b[2] /\ t[2] = b[3]
        BY <3>1, <4>2
      <4>4. b[2] = a[1] /\ b[3] = a[2]
        BY <1>4, <4>2
      <4> QED BY <4>1, <4>3, <4>4
    <3>3. Len(a) >= 2
      BY <1>1
    <3> HIDE DEF t, k
    <3>4. SubSeq(t, 1, 2) = SubSeq(a, 1, 2)
      BY <1>1, <3>1, <3>2, <3>3
    <3> QED BY <1>1, <3>2, <3>4 DEF StartsPlist, t
  <2> QED BY <2>1, <2>2 DEF Shows
<1>7. Len(b) - 1 >= b[1]
  <2> HIDE DEF k
  <2> QED BY <1>1, <1>4
<1>8. Message(b) = a /\ AfterMessage(b) = x
  BY <1>3, <1>4 DEF Message, AfterMessage
<1> QED BY <1>5, <1>6, <1>7, <1>8 DEF TakesOne

\* A part of a framed body, from its start on.
IsPart(b, a) ==
    /\ b \in Seq(Nat) /\ Len(b) < Len(Framed(a))
    /\ \A i \in 1..Len(b) : b[i] = Framed(a)[i]

\* Such a part waits for the rest of it.
LEMMA PartWaits ==
    ASSUME NEW a \in Bodies, NEW b, IsPart(b, a), NEW e \in {"Unknown", "Plist"}
    PROVE  /\ ~TakesOne(e, b)
           /\ Leaves(e, b).rest = b /\ Leaves(e, b).messages = <<>>
           /\ Leaves(e, b).encoding \in {"Unknown", "Plist"}
<1> DEFINE k == Len(a)
<1>1. /\ a \in Seq(Nat) /\ k \in Nat /\ k >= 2 /\ k <= MaxMessage /\ MaxMessage \in Nat
      /\ SubSeq(a, 1, 2) \in Signatures /\ k \notin TlsWords
  BY BodyFacts
<1>2. /\ b \in Seq(Nat) /\ Len(b) \in Nat /\ Len(b) < k + 1
      /\ Len(b) >= 1 => b[1] = k
      /\ \A i \in 1..k : i + 1 <= Len(b) => b[i + 1] = a[i]
  <2> DEFINE f == Framed(a)
  <2>1. f \in Seq(Nat) /\ Len(f) = k + 1 /\ f[1] = k /\ \A i \in 1..k : f[i + 1] = a[i]
    BY BodyFacts
  <2>2. /\ b \in Seq(Nat) /\ Len(b) < Len(f) /\ Len(b) \in Nat
        /\ \A i \in 1..Len(b) : b[i] = f[i]
    BY DEF IsPart
  <2> HIDE DEF f, k
  <2>3. Len(b) >= 1 => 1 \in 1..Len(b)
    BY <2>2
  <2>4. ASSUME NEW i \in 1..k, i + 1 <= Len(b) PROVE b[i + 1] = a[i]
    <3>1. i + 1 \in 1..Len(b)
      BY <1>1, <2>2, <2>4
    <3> QED BY <2>1, <2>2, <3>1
  <2> QED BY <2>1, <2>2, <2>3, <2>4
<1>3. CASE b = <<>>
  BY <1>3 DEF Leaves, Waiting, TakesOne
<1>4. CASE b # <<>>
  <2> HIDE DEF k
  <2>1. Len(b) >= 1 /\ b[1] = k
    BY <1>2, <1>4
  <2>2. ~LooksLikeTLS(e, b) /\ Plausible(b[1])
    BY <1>1, <2>1 DEF LooksLikeTLS, Plausible
  <2>3. ~TakesOne(e, b)
    BY <1>1, <1>2, <2>1 DEF TakesOne
  <2>4. Needed(b[1]) = 2
    BY <1>1, <2>1 DEF Needed
  <2>5. CASE e = "Unknown" /\ Len(b) - 1 < Needed(b[1])
    <3>1. Leaves(e, b) = [encoding |-> e, rest |-> b, messages |-> <<>>]
      BY <1>4, <2>2, <2>5 DEF Leaves, Waiting
    <3> QED BY <2>3, <3>1
  <2>6. CASE e = "Unknown" => ~(Len(b) - 1 < Needed(b[1]))
    <3>1. ASSUME e = "Unknown" PROVE StartsPlist(Tail(b))
      <4> DEFINE t == Tail(b)
      <4>1. /\ t \in Seq(Nat) /\ Len(t) = Len(b) - 1
            /\ \A i \in 1..Len(t) : t[i] = b[i + 1]
        BY <1>2, <1>4
      <4>2. Len(b) >= 3 /\ 1 \in 1..k /\ 2 \in 1..k
        BY <1>1, <1>2, <2>4, <2>6, <3>1
      <4>3. b[2] = a[1] /\ b[3] = a[2]
        BY <1>2, <4>2
      <4>4. Len(t) >= 2 /\ t[1] = a[1] /\ t[2] = a[2]
        <5> HIDE DEF t
        <5>1. 1 \in 1..Len(t) /\ 2 \in 1..Len(t) /\ Len(t) >= 2
          BY <1>2, <4>1, <4>2
        <5> QED BY <4>1, <4>3, <5>1
      <4>5. Len(a) >= 2
        BY <1>1 DEF k
      <4> HIDE DEF t
      <4>6. SubSeq(t, 1, 2) = SubSeq(a, 1, 2)
        BY <1>1, <4>1, <4>4, <4>5
      <4> QED BY <1>1, <4>4, <4>6 DEF StartsPlist, t
    <3>2. Leaves(e, b) = [encoding |-> "Plist", rest |-> b, messages |-> <<>>]
      BY <1>4, <2>2, <2>6, <3>1 DEF Leaves, Waiting
    <3> QED BY <2>3, <3>2
  <2> QED BY <2>5, <2>6
<1> QED BY <1>3, <1>4

\* What the segments and the wire divide between them: the bytes of bodies and
\* the tail behind them, which is nothing or begins like a TLS record.
BeginsTls(t) == t # <<>> => t[1] \in TlsWords
Divides(b, w, q, t) == b \o w = Bytes(q) \o t

\* What the loop makes of the beginning "b" of them, when "w" is what the
\* segments did not bring yet: the first messages, and it keeps what there is of
\* the next one or, when there is none, has seen that the tail is TLS.  It waits
\* for nothing that has arrived.
NothingMore(w, r, t) == w = <<>> => r = <<>> /\ t = <<>>
ComeOut(q, t, b, w, d) ==
    \E p, r \in Seq(Bodies) :
        /\ q = p \o r /\ d.messages = p
        /\ \/ /\ d.encoding \in {"Unknown", "Plist"} /\ Divides(d.rest, w, r, t)
              /\ NothingMore(w, r, t)
           \/ d.encoding = "TLS" /\ r = <<>> /\ d.rest = <<>> /\ t # <<>>

LEMMA NothingComesOut ==
    ASSUME NEW q \in Seq(Bodies), NEW t, NEW b, NEW w, Divides(b, w, q, t),
           NothingMore(w, q, t), NEW d, d.messages = <<>>, d.rest = b, d.encoding \in {"Unknown", "Plist"}
    PROVE  ComeOut(q, t, b, w, d)
<1>1. <<>> \in Seq(Bodies) /\ q = <<>> \o q
  OBVIOUS
<1> QED BY <1>1 DEF ComeOut

\* The loop at the end of the last body: it waits, or sees the TLS record.
LEMMA TailComesOut ==
    ASSUME NEW t \in Seq(Nat), BeginsTls(t), NEW b \in Seq(Nat), NEW w \in Seq(Nat),
           Divides(b, w, <<>>, t), NEW e \in {"Unknown", "Plist"}
    PROVE  ComeOut(<<>>, t, b, w, Drained[b][e])
<1> DEFINE d == Drained[b][e]
<1>1. e \in Encodings /\ Bytes(<<>>) = <<>> /\ <<>> \in Seq(Bodies)
  BY DEF Encodings, Bytes, FlattenSeq
<1>2. b \o w = t
  BY <1>1 DEF Divides
<1>3. CASE b = <<>>
  <2>1. d = Waiting(e, b)
    BY <1>1, <1>3, DrainedRound DEF Round, TakesOne, Leaves
  <2>2. d.messages = <<>> /\ d.rest = b /\ d.encoding = e
    BY <2>1 DEF Waiting
  <2> HIDE DEF d
  <2>3. ComeOut(<<>>, t, b, w, d)
    <3>1. <<>> \o w = w
      OBVIOUS
    <3>2. NothingMore(w, <<>>, t)
      BY <1>2, <1>3, <3>1 DEF NothingMore
    <3> QED BY <1>1, <2>2, <3>2, NothingComesOut
  <2> QED BY <2>3 DEF d
<1>4. CASE b # <<>>
  <2>1. t # <<>> /\ b[1] = t[1]
    <3> DEFINE c == b \o w
    <3>1. /\ Len(b) \in Nat \ {0} /\ Len(w) \in Nat /\ Len(c) = Len(b) + Len(w)
          /\ \A i \in 1..Len(b) : c[i] = b[i]
      BY <1>4
    <3>2. c = t
      BY <1>2
    <3> HIDE DEF c
    <3> QED BY <3>1, <3>2
  <2>2. LooksLikeTLS(e, b)
    BY <2>1 DEF BeginsTls, LooksLikeTLS
  <2>3. d = GivenUp("TLS", b)
    BY <1>1, <1>4, <2>2, DrainedRound DEF Round, TakesOne, Leaves
  <2>4. d.messages = <<>> /\ d.rest = <<>> /\ d.encoding = "TLS"
    BY <2>3 DEF GivenUp
  <2>5. <<>> = <<>> \o <<>>
    OBVIOUS
  <2> HIDE DEF d
  <2>6. ComeOut(<<>>, t, b, w, d)
    BY <1>1, <2>1, <2>4, <2>5 DEF ComeOut
  <2> QED BY <2>6 DEF d
<1> QED BY <1>3, <1>4

\* Bytes with the tail behind them.
LEMMA BytesAndTail ==
    ASSUME NEW r \in Seq(Bodies), NEW a \in Bodies, NEW t \in Seq(Nat),
           NEW b \in Seq(Nat), NEW w \in Seq(Nat), Divides(b, w, <<a>> \o r, t)
    PROVE  Bytes(r) \o t \in Seq(Nat) /\ SameWhole(b, w, Framed(a), Bytes(r) \o t)
<1> DEFINE f == Framed(a)
           x == Bytes(r)
           y == Bytes(<<a>> \o r)
<1>1. f \in Seq(Nat) /\ x \in Seq(Nat) /\ y = f \o x
  BY BytesOfBodies, BodyFacts
<1>2. b \o w = y \o t
  BY DEF Divides
<1> HIDE DEF f, x, y
<1>3. (f \o x) \o t = f \o (x \o t) /\ x \o t \in Seq(Nat)
  <2>1. JoinsEitherWay(f, x, t)
    BY <1>1, ConcatThree
  <2> QED BY <1>1, <2>1, ConcatFirst DEF JoinsEitherWay
<1>4. SameWhole(b, w, f, x \o t)
  BY <1>1, <1>2, <1>3 DEF SameWhole
<1> QED BY <1>3, <1>4 DEF f, x

LEMMA PartOfWhole ==
    ASSUME NEW a \in Bodies, NEW x \in Seq(Nat), NEW b \in Seq(Nat), NEW w \in Seq(Nat),
           SameWhole(b, w, Framed(a), x), Len(b) < Len(Framed(a))
    PROVE  IsPart(b, a)
<1> DEFINE f == Framed(a)
           c == b \o w
           g == f \o x
<1>1. f \in Seq(Nat) /\ c = g
  BY BodyFacts DEF SameWhole
<1>2. Len(f) \in Nat /\ Len(b) \in Nat /\ Len(b) < Len(f)
  <2> HIDE DEF c, g
  <2> QED BY <1>1
<1>3. \A i \in 1..Len(b) : c[i] = b[i]
  BY ConcatFirst
<1>4. \A i \in 1..Len(f) : g[i] = f[i]
  <2> HIDE DEF f, c
  <2> QED BY <1>1, ConcatFirst
<1> HIDE DEF f, c, g
<1>5. \A i \in 1..Len(b) : b[i] = f[i]
  <2> SUFFICES ASSUME NEW i \in 1..Len(b) PROVE b[i] = f[i]
    OBVIOUS
  <2>1. i \in 1..Len(f)
    BY <1>2
  <2> QED BY <1>1, <1>3, <1>4, <2>1
<1> QED BY <1>2, <1>5 DEF IsPart, f

LEMMA MoreToCome ==
    ASSUME NEW f \in Seq(Nat), NEW x \in Seq(Nat), NEW b \in Seq(Nat), NEW w \in Seq(Nat),
           SameWhole(b, w, f, x), Len(b) < Len(f)
    PROVE  w # <<>>
<1> DEFINE c == b \o w
           g == f \o x
<1>1. Len(c) = Len(b) + Len(w) /\ Len(g) = Len(f) + Len(x) /\ c = g
  BY ConcatFirst DEF SameWhole
<1>2. Len(b) \in Nat /\ Len(w) \in Nat /\ Len(f) \in Nat /\ Len(x) \in Nat
  OBVIOUS
<1> HIDE DEF c, g
<1>3. Len(w) # 0
  BY <1>1, <1>2
<1> QED BY <1>3

\* One more body in front of what comes out.
LEMMA OneMoreOut ==
    ASSUME NEW a \in Bodies, NEW u \in Seq(Bodies), NEW t, NEW y, NEW w, NEW d \in Drains,
           ComeOut(u, t, y, w, d), NEW b
    PROVE  ComeOut(<<a>> \o u, t, b, w, MessageFirst(a, d))
<1>1. PICK p, r \in Seq(Bodies) :
          /\ u = p \o r /\ d.messages = p
          /\ \/ /\ d.encoding \in {"Unknown", "Plist"} /\ Divides(d.rest, w, r, t)
                /\ NothingMore(w, r, t)
             \/ d.encoding = "TLS" /\ r = <<>> /\ d.rest = <<>> /\ t # <<>>
  BY DEF ComeOut
<1> DEFINE o == <<a>> \o p
           m == MessageFirst(a, d)
<1>2. m.messages = o /\ m.encoding = d.encoding /\ m.rest = d.rest
  BY <1>1, BodyFacts, MessageComesFirst
<1>3. o \in Seq(Bodies) /\ <<a>> \o u = o \o r
  BY SMTT(40), <1>1
<1> HIDE DEF o, m
<1>4. \/ /\ m.encoding \in {"Unknown", "Plist"} /\ Divides(m.rest, w, r, t)
         /\ NothingMore(w, r, t)
      \/ m.encoding = "TLS" /\ r = <<>> /\ m.rest = <<>> /\ t # <<>>
  BY <1>1, <1>2
<1>5. ComeOut(<<a>> \o u, t, b, w, m)
  <2> DEFINE q == <<a>> \o u
  <2>1. q = o \o r
    BY <1>3
  <2> HIDE DEF q
  <2> QED BY <1>2, <1>3, <1>4, <2>1, Zenon DEF ComeOut, q
<1> QED BY <1>5 DEF m

LEMMA MessagesComeOut ==
    \A q \in Seq(Bodies), t, b, w \in Seq(Nat), e \in {"Unknown", "Plist"} :
        BeginsTls(t) /\ Divides(b, w, q, t) => ComeOut(q, t, b, w, Drained[b][e])
<1> DEFINE S == {n \in Nat : \A q \in Seq(Bodies), t, b, w \in Seq(Nat), e \in {"Unknown", "Plist"} :
                     Len(q) = n /\ BeginsTls(t) /\ Divides(b, w, q, t) =>
                         ComeOut(q, t, b, w, Drained[b][e])}
<1>0. \A e \in {"Unknown", "Plist"} : e \in Encodings
  BY DEF Encodings
<1>1. 0 \in S
  <2> SUFFICES ASSUME NEW q \in Seq(Bodies), NEW t \in Seq(Nat), NEW b \in Seq(Nat),
                      NEW w \in Seq(Nat), NEW e \in {"Unknown", "Plist"},
                      Len(q) = 0, BeginsTls(t), Divides(b, w, q, t)
               PROVE  ComeOut(q, t, b, w, Drained[b][e])
    OBVIOUS
  <2>1. q = <<>>
    OBVIOUS
  <2> QED BY <2>1, TailComesOut
<1>2. ASSUME NEW n \in S PROVE n + 1 \in S
  <2>0. n \in Nat /\ n + 1 \in Nat
    OBVIOUS
  <2> SUFFICES ASSUME NEW q \in Seq(Bodies), NEW t \in Seq(Nat), NEW b \in Seq(Nat),
                      NEW w \in Seq(Nat), NEW e \in {"Unknown", "Plist"},
                      Len(q) = n + 1, BeginsTls(t), Divides(b, w, q, t)
               PROVE  ComeOut(q, t, b, w, Drained[b][e])
    BY <2>0
  <2>1. PICK a \in Bodies, u \in Seq(Bodies) : q = <<a>> \o u /\ Len(u) = n
    <3>1. q # <<>> /\ q[1] \in Bodies /\ Tail(q) \in Seq(Bodies)
      BY <2>0
    <3>2. q = <<q[1]>> \o Tail(q) /\ Len(Tail(q)) = n
      BY <2>0
    <3> QED BY <3>1, <3>2
  <2> DEFINE f == Framed(a)
             x == Bytes(u) \o t
             v == <<a>> \o u
  <2>2. x \in Seq(Nat) /\ f \in Seq(Nat) /\ SameWhole(b, w, f, x)
    <3>1. Divides(b, w, v, t)
      BY <2>1
    <3> HIDE DEF x
    <3> QED BY <3>1, BytesAndTail, BodyFacts DEF x
  <2>3. CASE Len(b) < Len(f)
    <3>1. IsPart(b, a)
      BY <2>2, <2>3, PartOfWhole
    <3>2. /\ ~TakesOne(e, b)
          /\ Leaves(e, b).rest = b /\ Leaves(e, b).messages = <<>>
          /\ Leaves(e, b).encoding \in {"Unknown", "Plist"}
      BY <3>1, PartWaits
    <3>3. Drained[b][e] = Leaves(e, b)
      BY <1>0, <3>2, DrainedRound DEF Round
    <3>4. NothingMore(w, q, t)
      <4>1. w # <<>>
        BY <2>2, <2>3, MoreToCome
      <4> QED BY <4>1 DEF NothingMore
    <3> QED BY <3>2, <3>3, <3>4, NothingComesOut
  <2>4. CASE Len(f) <= Len(b)
    <3> HIDE DEF f, x
    <3>1. PICK y \in Seq(Nat) : IsRest(y, b, w, f, x)
      BY <2>2, <2>4, ConcatTwice
    <3>2. b = f \o y /\ y \o w = x
      BY <3>1 DEF IsRest
    <3>3. Divides(y, w, u, t)
      BY <3>2 DEF Divides, x
    <3>4. ComeOut(u, t, y, w, Drained[y]["Plist"])
      BY <2>1, <3>3
    <3>5. GoesOn(b, Framed(a), y)
      BY <3>2 DEF GoesOn, f
    <3>6. TakesOne(e, b) /\ Message(b) = a /\ AfterMessage(b) = y
      BY <3>5, BodyIsCut
    <3>7. Drained[b][e] = MessageFirst(a, Drained[y]["Plist"])
      BY <1>0, <3>6, DrainedRound DEF Round
    <3>8. Drained[y]["Plist"] \in Drains
      BY DrainedTyped DEF Left
    <3>9. ComeOut(v, t, b, w, MessageFirst(a, Drained[y]["Plist"]))
      BY <3>4, <3>8, OneMoreOut
    <3> HIDE DEF v
    <3> QED BY <2>1, <3>7, <3>9 DEF v
  <2>5. Len(f) \in Nat /\ Len(b) \in Nat
    <3> HIDE DEF f
    <3> QED BY <2>2
  <2> QED BY <2>3, <2>4, <2>5
<1>3. S = Nat
  <2> HIDE DEF S
  <2> QED BY <1>1, <1>2, SetOfNaturals, S \in SUBSET Nat DEF S
<1>4. ASSUME NEW q \in Seq(Bodies), NEW t \in Seq(Nat), NEW b \in Seq(Nat),
             NEW w \in Seq(Nat), NEW e \in {"Unknown", "Plist"},
             BeginsTls(t), Divides(b, w, q, t)
      PROVE  ComeOut(q, t, b, w, Drained[b][e])
  <2>1. Len(q) \in Nat
    OBVIOUS
  <2>2. Len(q) \in S
    <3> HIDE DEF S
    <3> QED BY <1>3, <2>1
  <2> QED BY <1>4, <2>2
<1> QED BY <1>4

-----------------------------------------------------------------------------
(* A service that is neither TLS nor property lists.                        *)

\* What begins neither like a TLS record nor like a framed property list.
Neither(w) ==
    /\ w[1] \notin TlsWords
    /\ w[1] \in 1..MaxMessage /\ Len(w) >= 3 => SubSeq(w, 2, 3) \notin Signatures

\* All a raw service wrote, and all it may go on with.
RawSoFar(w) ==
    /\ w # <<>> => Neither(w)
    /\ \A u, v, x \in RawWords : Neither(((w \o u) \o v) \o x)

LEMMA SameBeginning ==
    ASSUME NEW s \in Seq(Nat), NEW y \in Seq(Nat), NEW c, GoesOn(c, s, y), s # <<>>
    PROVE  /\ c \in Seq(Nat) /\ Len(c) = Len(s) + Len(y) /\ c[1] = s[1]
           /\ Len(s) >= 3 => Len(c) >= 3 /\ SubSeq(c, 2, 3) = SubSeq(s, 2, 3)
<1> DEFINE d == s \o y
<1>1. /\ d \in Seq(Nat) /\ Len(d) = Len(s) + Len(y)
      /\ \A i \in 1..Len(s) : d[i] = s[i]
  BY ConcatFirst
<1>2. c = d
  BY DEF GoesOn
<1> HIDE DEF d
<1>3. Len(s) \in Nat /\ Len(y) \in Nat /\ Len(s) >= 1
  OBVIOUS
<1>4. c[1] = s[1]
  BY <1>1, <1>2, <1>3
<1>5. ASSUME Len(s) >= 3 PROVE Len(c) >= 3 /\ SubSeq(c, 2, 3) = SubSeq(s, 2, 3)
  <2>1. c[2] = s[2] /\ c[3] = s[3] /\ Len(c) >= 3
    BY <1>1, <1>2, <1>3, <1>5
  <2> QED BY <1>1, <1>2, <1>3, <1>5, <2>1
<1> QED BY <1>1, <1>2, <1>4, <1>5

LEMMA NeitherOfPart ==
    ASSUME NEW s \in Seq(Nat), NEW y \in Seq(Nat), NEW c, GoesOn(c, s, y), s # <<>>, Neither(c)
    PROVE  Neither(s)
<1>1. /\ Len(c) = Len(s) + Len(y) /\ c[1] = s[1] /\ Len(s) \in Nat
      /\ Len(s) >= 3 => Len(c) >= 3 /\ SubSeq(c, 2, 3) = SubSeq(s, 2, 3)
  BY SameBeginning
<1>2. s[1] \notin TlsWords
  BY <1>1 DEF Neither
<1>3. ASSUME s[1] \in 1..MaxMessage, Len(s) >= 3 PROVE SubSeq(s, 2, 3) \notin Signatures
  <2>1. Len(c) >= 3 /\ c[1] \in 1..MaxMessage
    BY <1>1, <1>3
  <2>2. SubSeq(c, 2, 3) \notin Signatures
    BY <2>1 DEF Neither
  <2> QED BY <1>1, <1>3, <2>2
<1> QED BY <1>2, <1>3 DEF Neither

LEMMA NeitherGoesOn ==
    ASSUME NEW s \in Seq(Nat), NEW y \in Seq(Nat), NEW c, GoesOn(c, s, y), Len(s) >= 3, Neither(s)
    PROVE  Neither(c)
<1>1. s # <<>>
  OBVIOUS
<1>2. /\ c[1] = s[1] /\ Len(c) >= 3 /\ SubSeq(c, 2, 3) = SubSeq(s, 2, 3)
  BY <1>1, SameBeginning
<1>3. s[1] \notin TlsWords /\ (s[1] \in 1..MaxMessage => SubSeq(s, 2, 3) \notin Signatures)
  BY DEF Neither
<1> QED BY <1>2, <1>3 DEF Neither

LEMMA RawBegins == RawSoFar(<<>>)
<1> SUFFICES ASSUME NEW u \in RawWords, NEW v \in RawWords, NEW x \in RawWords
             PROVE  Neither(((<<>> \o u) \o v) \o x)
  BY DEF RawSoFar
<1>1. u \in Seq(Nat) /\ v \in Seq(Nat) /\ x \in Seq(Nat)
  BY StreamAssumption
<1>2. <<>> \o u = u
  BY <1>1
<1> DEFINE c == (u \o v) \o x
<1>3. c[1] \notin TlsWords /\ (c[1] \in 1..MaxMessage => SubSeq(c, 2, 3) \notin Signatures)
  BY RawAssumption
<1> HIDE DEF c
<1>4. Neither(c)
  BY <1>3 DEF Neither
<1> QED BY <1>2, <1>4 DEF c

LEMMA RawGrows ==
    ASSUME NEW w \in Seq(Nat), RawSoFar(w), NEW a \in RawWords
    PROVE  w \o a \in Seq(Nat) /\ RawSoFar(w \o a)
<1> DEFINE c == w \o a
<1>0. \A u \in RawWords : u \in Seq(Nat) /\ Len(u) \in Nat /\ Len(u) >= 1
  BY StreamAssumption
<1>1. c \in Seq(Nat) /\ Len(c) \in Nat /\ Len(c) >= 1 /\ c # <<>>
  <2>1. c \in Seq(Nat) /\ Len(c) = Len(w) + Len(a)
    BY <1>0, ConcatFirst
  <2>2. Len(w) \in Nat /\ Len(a) \in Nat /\ Len(a) >= 1
    BY <1>0
  <2> HIDE DEF c
  <2> QED BY <2>1, <2>2
<1>2. \A u, v \in RawWords : Neither((c \o u) \o v)
  BY DEF RawSoFar
<1> HIDE DEF c
<1>3. ASSUME NEW u \in RawWords, NEW v \in RawWords
      PROVE  /\ c \o u \in Seq(Nat) /\ (c \o u) \o v \in Seq(Nat)
             /\ c \o u # <<>> /\ Len((c \o u) \o v) >= 3
  <2> DEFINE d == c \o u
             e == d \o v
  <2>1. d \in Seq(Nat) /\ Len(d) = Len(c) + Len(u) /\ Len(u) \in Nat /\ Len(u) >= 1
    BY <1>0, <1>1, ConcatFirst
  <2> HIDE DEF d
  <2>2. e \in Seq(Nat) /\ Len(e) = Len(d) + Len(v) /\ Len(v) \in Nat /\ Len(v) >= 1
    BY <1>0, <2>1, ConcatFirst
  <2> HIDE DEF e
  <2>3. Len(e) >= 3 /\ d # <<>>
    BY <1>1, <2>1, <2>2
  <2> QED BY <2>1, <2>2, <2>3 DEF d, e
<1>4. Neither(c)
  <2> DEFINE d == c \o a
             e == d \o a
  <2>1. d \in Seq(Nat) /\ d # <<>> /\ Neither(e) /\ a \in Seq(Nat)
    BY <1>0, <1>2, <1>3
  <2>2. GoesOn(e, d, a) /\ GoesOn(d, c, a)
    BY DEF GoesOn
  <2> HIDE DEF d, e
  <2>3. Neither(d)
    BY <2>1, <2>2, NeitherOfPart
  <2> QED BY <1>1, <2>1, <2>2, <2>3, NeitherOfPart
<1>5. ASSUME NEW u \in RawWords, NEW v \in RawWords, NEW x \in RawWords
      PROVE  Neither(((c \o u) \o v) \o x)
  <2> DEFINE s == (c \o u) \o v
             e == s \o x
  <2>1. s \in Seq(Nat) /\ Len(s) >= 3 /\ Neither(s) /\ x \in Seq(Nat)
    BY <1>0, <1>2, <1>3
  <2>2. GoesOn(e, s, x)
    BY DEF GoesOn
  <2> HIDE DEF s, e
  <2>3. Neither(e)
    BY <2>1, <2>2, NeitherGoesOn
  <2> QED BY <2>3 DEF e, s
<1>6. RawSoFar(c)
  BY <1>4, <1>5 DEF RawSoFar
<1> QED BY <1>1, <1>6 DEF c

\* Bytes of a raw service are waited with, or they are raw.
LEMMA RawStaysRaw ==
    ASSUME NEW b \in Seq(Nat), NEW w \in Seq(Nat), NEW c, GoesOn(c, b, w), RawSoFar(c)
    PROVE  /\ Drained[b]["Unknown"].messages = <<>>
           /\ \/ Drained[b]["Unknown"].encoding = "Unknown" /\ Drained[b]["Unknown"].rest = b
              \/ Drained[b]["Unknown"].encoding = "Raw"
<1> DEFINE e == "Unknown"
           d == Drained[b][e]
<1>0. e \in Encodings /\ d = Round(Drained, b, e)
  BY DrainedRound DEF Encodings
<1>1. CASE b = <<>>
  <2>1. d = Waiting(e, b)
    BY <1>0, <1>1 DEF Round, TakesOne, Leaves
  <2> QED BY <2>1 DEF Waiting
<1>2. CASE b # <<>>
  <2>1. Neither(b)
    <3>1. c # <<>> /\ c \in Seq(Nat)
      <4>1. Len(c) = Len(b) + Len(w) /\ c \in Seq(Nat) /\ Len(b) \in Nat /\ Len(w) \in Nat /\ Len(b) >= 1
        BY <1>2, SameBeginning
      <4> QED BY <4>1
    <3> QED BY <1>2, <3>1, NeitherOfPart DEF RawSoFar
  <2>2. ~LooksLikeTLS(e, b)
    BY <2>1 DEF Neither, LooksLikeTLS
  <2>3. CASE ~Plausible(b[1])
    <3>1. d = GivenUp("Raw", b)
      BY <1>0, <1>2, <2>2, <2>3 DEF Round, TakesOne, Leaves
    <3> QED BY <3>1 DEF GivenUp
  <2>4. CASE Plausible(b[1]) /\ Len(b) - 1 < Needed(b[1])
    <3>1. Len(b) \in Nat /\ Needed(b[1]) \in Nat
      BY <1>2 DEF Needed
    <3>2. d = Waiting(e, b)
      BY <1>0, <1>2, <2>2, <2>4, <3>1 DEF Round, TakesOne, Shows, Leaves
    <3> QED BY <3>2 DEF Waiting
  <2>5. CASE Plausible(b[1]) /\ ~(Len(b) - 1 < Needed(b[1]))
    <3>1. ~StartsPlist(Tail(b))
      <4> SUFFICES ASSUME StartsPlist(Tail(b)) PROVE FALSE
        OBVIOUS
      <4> DEFINE t == Tail(b)
      <4>1. /\ t \in Seq(Nat) /\ Len(t) = Len(b) - 1 /\ Len(b) \in Nat
            /\ \A i \in 1..Len(t) : t[i] = b[i + 1]
        BY <1>2
      <4>2. Len(t) >= 2 /\ SubSeq(t, 1, 2) \in Signatures
        BY DEF StartsPlist
      <4> HIDE DEF t
      <4>3. Len(b) >= 3 /\ t[1] = b[2] /\ t[2] = b[3]
        BY <4>1, <4>2
      <4>4. SubSeq(t, 1, 2) = SubSeq(b, 2, 3)
        BY <4>1, <4>2, <4>3
      <4>5. b[1] \in 1..MaxMessage
        <5>1. b[1] \in Nat /\ MaxMessage \in Nat
          BY <1>2, StreamAssumption
        <5> QED BY <2>5, <5>1 DEF Plausible
      <4> QED BY <2>1, <4>2, <4>3, <4>4, <4>5 DEF Neither
    <3>2. d = GivenUp("Raw", b)
      BY <1>0, <1>2, <2>2, <2>5, <3>1 DEF Round, TakesOne, Shows, Leaves
    <3> QED BY <3>2 DEF GivenUp
  <2> QED BY <2>3, <2>4, <2>5
<1> QED BY <1>1, <1>2

-----------------------------------------------------------------------------
(* The direction.  Until the framing is given up there are property lists,  *)
(* and behind them a tail, that the buffer and the wire are the bytes of,   *)
(* and those with the ones delivered are all that were sent; there are none *)
(* when the wire is empty.                                                  *)

UnderWay ==
    /\ encoding \in {"Unknown", "Plist"}
    /\ \E q \in Seq(Bodies), t \in Seq(Nat) :
          /\ Divides(buffer, wire, q, t) /\ sent = delivered \o q
          /\ BeginsTls(t) /\ NothingMore(wire, q, t)
          /\ service = "TLS" <=> t # <<>>

Upgraded == encoding = "TLS" /\ service = "TLS" /\ sent = delivered

RawSide ==
    /\ encoding \in {"Unknown", "Raw"} /\ sent = <<>> /\ delivered = <<>>
    /\ encoding = "Unknown" => RawSoFar(buffer \o wire)

\* The framing is open for as long as all that has arrived is in the buffer, and
\* is too little.
Undecided == encoding = "Unknown" => bytes = Len(buffer) /\ bytes < 3

StreamInv ==
    /\ TypeOK /\ Undecided
    /\ service = "raw" => RawSide
    /\ service # "raw" => UnderWay \/ Upgraded

LEMMA BodiesAreSequences ==
    ASSUME NEW q \in Seq(Bodies)
    PROVE  q \in Seq(Seq(Nat))
<1> DEFINE B == Seq(Nat)
<1>1. \A a \in Bodies : a \in B
  BY StreamAssumption
<1> HIDE DEF B
<1>2. q \in Seq(B)
  BY <1>1
<1> QED BY <1>2 DEF B

LEMMA StreamInit == Init => StreamInv
<1> SUFFICES ASSUME Init PROVE StreamInv
  OBVIOUS
<1>1. /\ encoding = "Unknown" /\ bytes = 0 /\ buffer = <<>>
      /\ service \in {"plist", "raw"} /\ wire = <<>>
      /\ sent = <<>> /\ delivered = <<>> /\ sends = 0
  BY DEF Init
<1>2. TypeOK
  <2>1. \A A : <<>> \in Seq(A)
    OBVIOUS
  <2>2. Len(buffer) <= MaxMessage
    BY <1>1, StreamAssumption
  <2> QED BY <1>1, <2>1, <2>2 DEF TypeOK, Encodings
<1>3. service = "raw" => RawSide
  <2>1. <<>> \o <<>> = <<>>
    OBVIOUS
  <2>2. buffer \o wire = <<>>
    BY <1>1, <2>1
  <2> QED BY <1>1, <2>2, RawBegins DEF RawSide
<1>4. service # "raw" => UnderWay
  <2>1. <<>> \in Seq(Bodies) /\ <<>> \in Seq(Nat) /\ Bytes(<<>>) = <<>> /\ <<>> \o <<>> = <<>>
    BY DEF Bytes, FlattenSeq
  <2>2. /\ Divides(buffer, wire, <<>>, <<>>) /\ BeginsTls(<<>>) /\ sent = delivered \o <<>>
        /\ NothingMore(wire, <<>>, <<>>)
    BY <1>1, <2>1 DEF Divides, BeginsTls, NothingMore
  <2>3. service # "raw" => (service = "TLS" <=> <<>> # <<>>)
    BY <1>1
  <2> QED BY <1>1, <2>1, <2>2, <2>3 DEF UnderWay
<1>5. Undecided
  BY <1>1 DEF Undecided
<1> QED BY <1>2, <1>3, <1>4, <1>5 DEF StreamInv

\* What is written goes behind what is on the wire.
LEMMA WrittenTyped ==
    ASSUME TypeOK, NEW words \in Seq(Nat), Write(words)
    PROVE  /\ wire' \in Seq(Nat) /\ wire' = wire \o words
           /\ sends' \in Nat
           /\ encoding' = encoding /\ bytes' = bytes /\ buffer' = buffer
           /\ delivered' = delivered
<1>1. wire \in Seq(Nat) /\ sends \in Nat
  BY DEF TypeOK
<1>2. wire \o words \in Seq(Nat)
  BY <1>1
<1> QED BY <1>1, <1>2 DEF Write

LEMMA WrittenUndecided ==
    ASSUME TypeOK, Undecided, NEW words \in Seq(Nat), Write(words)
    PROVE  Undecided'
<1>1. encoding' = encoding /\ bytes' = bytes /\ buffer' = buffer
  BY WrittenTyped
<1> QED BY <1>1 DEF Undecided

LEMMA ThreeParts ==
    ASSUME NEW s \in Seq(Nat), NEW t \in Seq(Nat), NEW u \in Seq(Nat)
    PROVE  s \o (t \o u) = (s \o t) \o u
<1>1. JoinsEitherWay(s, t, u)
  BY ConcatThree
<1> QED BY <1>1 DEF JoinsEitherWay

LEMMA SendPlistKeeps ==
    ASSUME StreamInv, SendPlist
    PROVE  StreamInv' /\ Channel!Send
<1>1. PICK a \in Bodies : Write(<<Len(a)>> \o a) /\ sent' = Append(sent, a)
  BY DEF SendPlist
<1>2. service = "plist" /\ service' = service
  BY DEF SendPlist
<1> DEFINE f == Framed(a)
<1>3. f \in Seq(Nat) /\ Write(f)
  BY <1>1, BodyFacts DEF Framed
<1>4. TypeOK /\ UnderWay
  BY <1>2 DEF StreamInv, Upgraded
<1> HIDE DEF f
<1>5. /\ wire' \in Seq(Nat) /\ wire' = wire \o f /\ sends' \in Nat
      /\ encoding' = encoding /\ bytes' = bytes /\ buffer' = buffer /\ delivered' = delivered
  BY <1>3, <1>4, WrittenTyped
<1>6. TypeOK'
  BY <1>1, <1>2, <1>4, <1>5 DEF TypeOK
<1>7. PICK q \in Seq(Bodies), t \in Seq(Nat) :
          /\ Divides(buffer, wire, q, t) /\ sent = delivered \o q
          /\ BeginsTls(t) /\ NothingMore(wire, q, t)
          /\ service = "TLS" <=> t # <<>>
  BY <1>4 DEF UnderWay
<1>8. t = <<>>
  BY <1>2, <1>7
<1> DEFINE r == Append(q, a)
           x == Bytes(q)
           y == Bytes(r)
<1>9. r \in Seq(Bodies) /\ x \in Seq(Nat) /\ y = x \o f
  <2>1. r \in Seq(Bodies)
    OBVIOUS
  <2> HIDE DEF r
  <2>2. Bytes(q) \in Seq(Nat) /\ Bytes(Append(q, a)) = Bytes(q) \o Framed(a)
    BY BytesOfBodies
  <2> QED BY <2>1, <2>2 DEF f, r
<1>10. sent' = delivered' \o r
  <2>1. sent = delivered \o q /\ delivered \in Seq(Seq(Nat)) /\ q \in Seq(Seq(Nat)) /\ a \in Seq(Nat)
    BY <1>4, <1>7, BodiesAreSequences, BodyFacts DEF TypeOK
  <2> DEFINE B == Seq(Nat)
  <2>2. delivered \in Seq(B) /\ q \in Seq(B) /\ a \in B
    BY <2>1
  <2> HIDE DEF B
  <2>3. Append(delivered \o q, a) = delivered \o Append(q, a)
    <3>1. IsAppended(delivered, q, a)
      BY <2>2, AppendToBoth
    <3> QED BY <3>1 DEF IsAppended
  <2> QED BY <1>1, <1>5, <2>1, <2>3
<1> HIDE DEF r, x, y
<1>11. Divides(buffer', wire', r, t)
  <2>1. buffer \in Seq(Nat) /\ wire \in Seq(Nat)
    BY <1>4 DEF TypeOK
  <2>2. buffer \o wire = x \o <<>>
    BY <1>7, <1>8 DEF Divides, x
  <2>3. x \o <<>> = x /\ (x \o f) \o <<>> = x \o f
    BY <1>3, <1>9
  <2>4. buffer \o (wire \o f) = (buffer \o wire) \o f
    BY <1>3, <2>1, ThreeParts
  <2>5. buffer' \o wire' = y \o <<>>
    BY <1>5, <1>9, <2>2, <2>3, <2>4
  <2> QED BY <1>8, <2>5 DEF Divides, y
<1>12. UnderWay'
  <2>1. encoding' \in {"Unknown", "Plist"}
    BY <1>4, <1>5 DEF UnderWay
  <2>2. NothingMore(wire', r, t)
    <3>1. wire' # <<>>
      <4>1. f # <<>>
        BY BodyFacts DEF f, Framed
      <4> QED BY <1>3, <1>4, <1>5, <4>1 DEF TypeOK
    <3> QED BY <3>1 DEF NothingMore
  <2> QED BY <1>2, <1>7, <1>9, <1>10, <1>11, <2>1, <2>2 DEF UnderWay
<1>13. Channel!Send
  BY <1>1, <1>5 DEF Channel!Send
<1>14. Undecided'
  BY <1>3, <1>4, WrittenUndecided DEF StreamInv
<1> QED BY <1>2, <1>6, <1>12, <1>13, <1>14 DEF StreamInv

LEMMA SendTLSKeeps ==
    ASSUME StreamInv, SendTLS
    PROVE  StreamInv' /\ UNCHANGED <<sent, delivered>>
<1>1. PICK o \in TlsWords, rest \in RawWords : Write(<<o>> \o rest)
  BY DEF SendTLS
<1>2. service \in {"plist", "TLS"} /\ service' = "TLS" /\ sent' = sent
  BY DEF SendTLS
<1> DEFINE f == <<o>> \o rest
<1>3. f \in Seq(Nat) /\ f # <<>> /\ f[1] \in TlsWords /\ Write(f)
  <2>1. o \in Nat /\ rest \in Seq(Nat)
    BY StreamAssumption
  <2>2. f \in Seq(Nat) /\ f # <<>> /\ f[1] = o
    BY <2>1
  <2> QED BY <1>1, <2>2
<1>4. TypeOK
  BY DEF StreamInv
<1> HIDE DEF f
<1>5. /\ wire' \in Seq(Nat) /\ wire' = wire \o f /\ sends' \in Nat
      /\ encoding' = encoding /\ bytes' = bytes /\ buffer' = buffer /\ delivered' = delivered
  BY <1>3, <1>4, WrittenTyped
<1>6. TypeOK'
  BY <1>2, <1>4, <1>5 DEF TypeOK
<1>6a. Undecided'
  BY <1>3, <1>4, WrittenUndecided DEF StreamInv
<1>7. CASE Upgraded
  BY <1>2, <1>5, <1>6, <1>6a, <1>7 DEF Upgraded, StreamInv
<1>8. CASE UnderWay
  <2>1. PICK q \in Seq(Bodies), t \in Seq(Nat) :
            /\ Divides(buffer, wire, q, t) /\ sent = delivered \o q
            /\ BeginsTls(t) /\ NothingMore(wire, q, t)
            /\ service = "TLS" <=> t # <<>>
    BY <1>8 DEF UnderWay
  <2> DEFINE x == Bytes(q)
             u == t \o f
  <2>2. x \in Seq(Nat)
    <3>1. CASE Bodies = {}
      <4>1. q = <<>>
        BY <3>1
      <4> QED BY <4>1 DEF Bytes, FlattenSeq
    <3>2. CASE Bodies # {}
      BY <3>2, BytesOfBodies
    <3> QED BY <3>1, <3>2
  <2>3. u \in Seq(Nat) /\ u # <<>> /\ BeginsTls(u)
    <3>1. CASE t = <<>>
      <4>1. u = f
        BY <1>3, <3>1
      <4> QED BY <1>3, <4>1 DEF BeginsTls
    <3>2. CASE t # <<>>
      <4>1. u \in Seq(Nat) /\ u # <<>> /\ u[1] = t[1]
        BY <1>3, <3>2
      <4> HIDE DEF u
      <4> QED BY <2>1, <3>2, <4>1 DEF BeginsTls
    <3> QED BY <3>1, <3>2
  <2>4. Divides(buffer', wire', q, u)
    <3>1. buffer \in Seq(Nat) /\ wire \in Seq(Nat)
      BY <1>4 DEF TypeOK
    <3>2. buffer \o wire = x \o t
      BY <2>1 DEF Divides
    <3> HIDE DEF x
    <3>3. buffer \o (wire \o f) = (buffer \o wire) \o f
      BY <1>3, <3>1, ThreeParts
    <3>4. (x \o t) \o f = x \o (t \o f)
      BY <1>3, <2>2, ThreeParts
    <3>5. buffer' \o wire' = x \o (t \o f)
      BY <1>5, <3>2, <3>3, <3>4
    <3> QED BY <3>5 DEF Divides, x
  <2> HIDE DEF u
  <2>5. UnderWay'
    <3>1. encoding' \in {"Unknown", "Plist"} /\ sent' = delivered' \o q
      BY <1>2, <1>5, <1>8, <2>1 DEF UnderWay
    <3>2. service' = "TLS" <=> u # <<>>
      BY <1>2, <2>3
    <3>3. NothingMore(wire', q, u)
      <4>1. wire' # <<>>
        BY <1>3, <1>4, <1>5 DEF TypeOK
      <4> QED BY <4>1 DEF NothingMore
    <3> QED BY <2>3, <2>4, <3>1, <3>2, <3>3 DEF UnderWay
  <2> QED BY <1>2, <1>5, <1>6, <1>6a, <2>5 DEF StreamInv
<1> QED BY <1>2, <1>7, <1>8 DEF StreamInv

LEMMA SendRawKeeps ==
    ASSUME StreamInv, SendRaw
    PROVE  StreamInv' /\ UNCHANGED <<sent, delivered>>
<1>1. PICK f \in RawWords : Write(f)
  BY DEF SendRaw
<1>2. service = "raw" /\ service' = service /\ sent' = sent
  BY DEF SendRaw
<1>3. f \in Seq(Nat)
  BY StreamAssumption
<1>4. TypeOK /\ RawSide
  BY <1>2 DEF StreamInv
<1>5. /\ wire' \in Seq(Nat) /\ wire' = wire \o f /\ sends' \in Nat
      /\ encoding' = encoding /\ bytes' = bytes /\ buffer' = buffer /\ delivered' = delivered
  BY <1>1, <1>3, <1>4, WrittenTyped
<1>6. TypeOK'
  BY <1>2, <1>4, <1>5 DEF TypeOK
<1>7. ASSUME encoding = "Unknown" PROVE RawSoFar(buffer' \o wire')
  <2> DEFINE c == buffer \o wire
  <2>1. buffer \in Seq(Nat) /\ wire \in Seq(Nat) /\ c \in Seq(Nat)
    BY <1>4 DEF TypeOK
  <2>2. buffer \o (wire \o f) = c \o f
    BY <1>3, <2>1, ThreeParts
  <2>3. RawSoFar(c)
    BY <1>4, <1>7 DEF RawSide
  <2> HIDE DEF c
  <2>4. RawSoFar(c \o f)
    BY <2>1, <2>3, RawGrows
  <2>5. buffer' \o wire' = c \o f
    BY <1>5, <2>2
  <2> QED BY <2>4, <2>5
<1>8. RawSide'
  BY <1>2, <1>4, <1>5, <1>7 DEF RawSide
<1>9. Undecided'
  BY <1>1, <1>3, <1>4, WrittenUndecided DEF StreamInv
<1> QED BY <1>2, <1>5, <1>6, <1>8, <1>9 DEF StreamInv

\* What a segment takes of the wire and what consume makes of it.
Takes(n) ==
    /\ n > 0 /\ n <= Len(wire)
    /\ Consume(SubSeq(wire, 1, n)) /\ wire' = SubSeq(wire, n + 1, Len(wire))
    /\ service' = service /\ sent' = sent /\ sends' = sends
Arrived(n) == buffer \o SubSeq(wire, 1, n)
Result(n) == Drained[Arrived(n)][encoding]

LEMMA SegmentTakes ==
    ASSUME TypeOK, Segment
    PROVE  \E n \in Nat : Takes(n)
<1>1. wire \in Seq(Nat) /\ Len(wire) \in Nat
  BY DEF TypeOK
<1>2. PICK n \in 1..Len(wire) :
          Consume(SubSeq(wire, 1, n)) /\ wire' = SubSeq(wire, n + 1, Len(wire))
  BY DEF Segment
<1>3. n \in Nat /\ n > 0 /\ n <= Len(wire)
  BY <1>1
<1> QED BY <1>2, <1>3 DEF Segment, Takes

LEMMA TakenTyped ==
    ASSUME TypeOK, NEW n \in Nat, Takes(n)
    PROVE  /\ Arrived(n) \in Seq(Nat) /\ wire' \in Seq(Nat) /\ bytes' \in Nat
           /\ bytes' = bytes + n /\ Len(Arrived(n)) = Len(buffer) + n
           /\ Arrived(n) \o wire' = buffer \o wire
           /\ IF encoding \in {"Raw", "TLS"}
              THEN UNCHANGED <<encoding, buffer, delivered>>
              ELSE /\ encoding' = Result(n).encoding /\ buffer' = Result(n).rest
                   /\ delivered' = delivered \o Result(n).messages
<1> DEFINE data == SubSeq(wire, 1, n)
           left == SubSeq(wire, n + 1, Len(wire))
<1>1. wire \in Seq(Nat) /\ buffer \in Seq(Nat) /\ bytes \in Nat /\ n <= Len(wire) /\ n > 0
  BY DEF TypeOK, Takes
<1>2. data \in Seq(Nat) /\ Len(data) = n /\ left \in Seq(Nat) /\ data # <<>>
  BY <1>1
<1>3. (buffer \o data) \o left = buffer \o wire
  BY <1>1, MovedFront
<1>4. buffer \o data \in Seq(Nat) /\ Len(buffer \o data) = Len(buffer) + n
  <2> HIDE DEF data
  <2> QED BY <1>1, <1>2, ConcatFirst
<1>5. /\ Arrived(n) \in Seq(Nat) /\ wire' = left /\ Arrived(n) = buffer \o data
      /\ Len(Arrived(n)) = Len(buffer) + n /\ Consume(data)
  BY <1>4 DEF Takes, Arrived
<1>6. Arrived(n) \o wire' = buffer \o wire
  BY <1>3, <1>5
<1> HIDE DEF data, left
<1>7. bytes' = bytes + n
  BY <1>2, <1>5 DEF Consume
<1>8. IF encoding \in {"Raw", "TLS"}
      THEN UNCHANGED <<encoding, buffer, delivered>>
      ELSE /\ encoding' = Result(n).encoding /\ buffer' = Result(n).rest
           /\ delivered' = delivered \o Result(n).messages
  BY <1>2, <1>5 DEF Consume, Result
<1>9. bytes' \in Nat
  BY <1>1, <1>7
<1>10. Arrived(n) \in Seq(Nat) /\ wire' \in Seq(Nat) /\ Len(Arrived(n)) = Len(buffer) + n
  BY <1>2, <1>5, Zenon
<1> QED BY <1>6, <1>7, <1>8, <1>9, <1>10, Zenon

\* Any segment, whatever it brings.
LEMMA SegmentTypes ==
    ASSUME TypeOK, NEW n \in Nat, Takes(n)
    PROVE  TypeOK'
<1>1. Arrived(n) \in Seq(Nat) /\ wire' \in Seq(Nat) /\ bytes' \in Nat
  BY TakenTyped
<1>2. service' = service /\ sent' = sent /\ sends' = sends
  BY DEF Takes
<1>3. CASE encoding \in {"Raw", "TLS"}
  <2>1. UNCHANGED <<encoding, buffer, delivered>>
    BY <1>3, TakenTyped
  <2> QED BY <1>1, <1>2, <2>1 DEF TypeOK
<1>4. CASE encoding \notin {"Raw", "TLS"}
  <2>1. encoding \in {"Unknown", "Plist"}
    BY <1>4 DEF TypeOK, Encodings
  <2>2. Left(encoding, Arrived(n), Result(n))
    BY <1>1, <2>1, DrainedTyped DEF Result
  <2>3. /\ encoding' = Result(n).encoding /\ buffer' = Result(n).rest
        /\ delivered' = delivered \o Result(n).messages
    BY <1>4, TakenTyped
  <2>4. delivered' \in Seq(Seq(Nat))
    <3> DEFINE B == Seq(Nat)
               m == Result(n).messages
    <3>1. delivered \in Seq(B) /\ m \in Seq(B)
      BY <2>2 DEF TypeOK, Left, Drains
    <3> HIDE DEF B, m
    <3>2. delivered \o m \in Seq(B)
      BY <3>1
    <3> QED BY <2>3, <3>2 DEF B, m
  <2>5. /\ encoding' \in Encodings /\ buffer' \in Seq(Nat) /\ Len(buffer') <= MaxMessage
        /\ encoding' \in {"Raw", "TLS"} => buffer' = <<>>
    BY <2>2, <2>3 DEF Left, Drains
  <2> QED BY <1>1, <1>2, <2>4, <2>5 DEF TypeOK
<1> QED BY <1>3, <1>4

\* A segment leaves the framing open only if it has brought too little.
LEMMA SegmentUndecided ==
    ASSUME TypeOK, Undecided, NEW n \in Nat, Takes(n)
    PROVE  Undecided'
<1> SUFFICES ASSUME encoding' = "Unknown" PROVE bytes' = Len(buffer') /\ bytes' < 3
  BY DEF Undecided
<1>1. encoding \in {"Unknown", "Plist"}
  BY TakenTyped DEF TypeOK, Encodings
<1>2. /\ encoding' = Result(n).encoding /\ buffer' = Result(n).rest
      /\ Arrived(n) \in Seq(Nat)
      /\ bytes' = bytes + n /\ Len(Arrived(n)) = Len(buffer) + n
  BY <1>1, TakenTyped
<1>3. encoding = "Unknown" /\ Result(n).rest = Arrived(n) /\ Len(Arrived(n)) < 3
  BY <1>1, <1>2, DrainedTyped DEF Result, Left
<1> QED BY <1>2, <1>3 DEF Undecided

\* A segment of a raw service.
LEMMA SegmentOfRaw ==
    ASSUME TypeOK, NEW n \in Nat, Takes(n), service = "raw", RawSide
    PROVE  RawSide' /\ UNCHANGED <<sent, delivered>>
<1>1. sent' = sent
  BY DEF Takes
<1>2. CASE encoding = "Raw"
  BY <1>1, <1>2, TakenTyped DEF RawSide
<1>3. CASE encoding = "Unknown"
  <2>1. /\ encoding' = Result(n).encoding /\ buffer' = Result(n).rest
        /\ delivered' = delivered \o Result(n).messages
        /\ Arrived(n) \in Seq(Nat) /\ wire' \in Seq(Nat)
        /\ Arrived(n) \o wire' = buffer \o wire
    BY <1>3, TakenTyped
  <2> DEFINE c == buffer \o wire
  <2>2. GoesOn(c, Arrived(n), wire') /\ RawSoFar(c)
    BY <1>3, <2>1 DEF GoesOn, RawSide
  <2> HIDE DEF c
  <2>3. /\ Result(n).messages = <<>>
        /\ \/ Result(n).encoding = "Unknown" /\ Result(n).rest = Arrived(n)
           \/ Result(n).encoding = "Raw"
    BY <1>3, <2>1, <2>2, RawStaysRaw DEF Result
  <2>4. delivered' = <<>> /\ delivered = <<>>
    <3>1. <<>> \o <<>> = <<>>
      OBVIOUS
    <3> QED BY <2>1, <2>3, <3>1 DEF RawSide
  <2>5. CASE Result(n).encoding = "Raw"
    BY <1>1, <2>1, <2>4, <2>5 DEF RawSide
  <2>6. CASE Result(n).encoding = "Unknown" /\ Result(n).rest = Arrived(n)
    <3>1. buffer' \o wire' = c
      BY <2>1, <2>6 DEF c
    <3> QED BY <1>1, <2>1, <2>2, <2>4, <2>6, <3>1 DEF RawSide
  <2> QED BY <1>1, <2>3, <2>4, <2>5, <2>6
<1> QED BY <1>2, <1>3 DEF RawSide

\* What is handed on is the next messages that were sent, or none.
Follows(s, d, p, r) == s = d \o (p \o r)
HandsOn(s, d, e) == e = d \/ \E n \in Len(d) + 1 .. Len(s) : e = SubSeq(s, 1, n)

LEMMA HandedOn ==
    ASSUME NEW B, NEW d \in Seq(B), NEW p \in Seq(B), NEW r \in Seq(B), NEW s, NEW e,
           Follows(s, d, p, r), GoesOn(e, d, p)
    PROVE  GoesOn(s, e, r) /\ HandsOn(s, d, e)
<1>0. s = d \o (p \o r) /\ e = d \o p
  BY DEF Follows, GoesOn
<1>1. e \in Seq(B) /\ Len(e) = Len(d) + Len(p) /\ s = e \o r
  <2>1. d \o (p \o r) = (d \o p) \o r
    OBVIOUS
  <2>2. d \o p \in Seq(B) /\ Len(d \o p) = Len(d) + Len(p)
    BY ConcatFirst
  <2> QED BY <1>0, <2>1, <2>2
<1>2. CASE p = <<>>
  <2>1. d \o <<>> = d
    OBVIOUS
  <2> QED BY <1>0, <1>1, <1>2, <2>1 DEF GoesOn, HandsOn
<1>3. CASE p # <<>>
  <2> DEFINE c == e \o r
  <2>1. Len(c) = Len(e) + Len(r) /\ SubSeq(c, 1, Len(e)) = e
    BY <1>1, ConcatFirst, ConcatFront
  <2>2. Len(r) \in Nat /\ Len(d) \in Nat /\ Len(p) \in Nat \ {0}
    BY <1>3
  <2>3. s = c
    BY <1>1
  <2> HIDE DEF c
  <2>4. Len(e) \in Len(d) + 1 .. Len(s)
    BY <1>1, <2>1, <2>2, <2>3
  <2>5. e = SubSeq(s, 1, Len(e))
    BY <2>1, <2>3
  <2> QED BY <1>1, <2>4, <2>5 DEF GoesOn, HandsOn
<1> QED BY <1>2, <1>3

\* A segment of a service that sends property lists, before and after a TLS
\* upgrade.
LEMMA SegmentDelivers ==
    ASSUME TypeOK, NEW n \in Nat, Takes(n), UnderWay
    PROVE  (UnderWay' \/ Upgraded') /\ (delivered' = delivered \/ Channel!Deliver)
<1>1. service' = service /\ sent' = sent
  BY DEF Takes
<1>2. encoding \in {"Unknown", "Plist"}
  BY DEF UnderWay
<1>3. PICK q \in Seq(Bodies), t \in Seq(Nat) :
          /\ Divides(buffer, wire, q, t) /\ sent = delivered \o q
          /\ BeginsTls(t) /\ NothingMore(wire, q, t)
          /\ service = "TLS" <=> t # <<>>
  BY DEF UnderWay
<1>4. /\ encoding' = Result(n).encoding /\ buffer' = Result(n).rest
      /\ delivered' = delivered \o Result(n).messages
      /\ Arrived(n) \in Seq(Nat) /\ wire' \in Seq(Nat)
      /\ Arrived(n) \o wire' = buffer \o wire
  BY <1>2, TakenTyped
<1>5. Divides(Arrived(n), wire', q, t)
  BY <1>3, <1>4 DEF Divides
<1>6. ComeOut(q, t, Arrived(n), wire', Result(n))
  BY <1>2, <1>3, <1>4, <1>5, MessagesComeOut DEF Result
<1>7. PICK p, r \in Seq(Bodies) :
          /\ q = p \o r /\ Result(n).messages = p
          /\ \/ /\ Result(n).encoding \in {"Unknown", "Plist"} /\ Divides(Result(n).rest, wire', r, t)
                /\ NothingMore(wire', r, t)
             \/ Result(n).encoding = "TLS" /\ r = <<>> /\ Result(n).rest = <<>> /\ t # <<>>
  BY <1>6 DEF ComeOut
<1>8. /\ sent = delivered' \o r
      /\ \/ delivered' = delivered
         \/ \E k \in Len(delivered) + 1 .. Len(sent) : delivered' = SubSeq(sent, 1, k)
  <2> DEFINE B == Seq(Nat)
  <2>1. delivered \in Seq(B) /\ p \in Seq(B) /\ r \in Seq(B)
    BY BodiesAreSequences DEF TypeOK
  <2> HIDE DEF B
  <2>2. Follows(sent, delivered, p, r) /\ GoesOn(delivered', delivered, p)
    BY <1>3, <1>4, <1>7 DEF Follows, GoesOn
  <2>3. GoesOn(sent, delivered', r) /\ HandsOn(sent, delivered, delivered')
    BY <2>1, <2>2, HandedOn
  <2> QED BY <2>3 DEF GoesOn, HandsOn
<1>9. delivered' = delivered \/ Channel!Deliver
  BY <1>1, <1>8 DEF Channel!Deliver
<1>10. CASE /\ Result(n).encoding \in {"Unknown", "Plist"} /\ Divides(Result(n).rest, wire', r, t)
            /\ NothingMore(wire', r, t)
  <2>1. /\ encoding' \in {"Unknown", "Plist"} /\ Divides(buffer', wire', r, t)
        /\ sent' = delivered' \o r /\ (service' = "TLS" <=> t # <<>>)
    BY <1>1, <1>3, <1>4, <1>8, <1>10
  <2>2. BeginsTls(t) /\ NothingMore(wire', r, t)
    BY <1>3, <1>10
  <2>3. UnderWay'
    BY <2>1, <2>2 DEF UnderWay
  <2> QED BY <1>9, <2>3
<1>11. CASE Result(n).encoding = "TLS" /\ r = <<>> /\ Result(n).rest = <<>> /\ t # <<>>
  <2>1. sent' = delivered'
    <3>1. delivered' \in Seq(Seq(Nat))
      <4>1. TypeOK'
        BY SegmentTypes
      <4> QED BY <4>1 DEF TypeOK
    <3>2. delivered' \o <<>> = delivered'
      BY <3>1
    <3> QED BY <1>1, <1>8, <1>11, <3>2
  <2>2. encoding' = "TLS" /\ service' = "TLS"
    BY <1>1, <1>3, <1>4, <1>11
  <2> QED BY <1>9, <2>1, <2>2 DEF Upgraded
<1> QED BY <1>7, <1>10, <1>11

LEMMA SegmentKeeps ==
    ASSUME StreamInv, Segment
    PROVE  StreamInv' /\ (Channel!Deliver \/ UNCHANGED <<sent, delivered>>)
<1>1. TypeOK
  BY DEF StreamInv
<1>2. PICK n \in Nat : Takes(n)
  BY <1>1, SegmentTakes
<1>3. TypeOK' /\ service' = service /\ sent' = sent
  BY <1>1, <1>2, SegmentTypes DEF Takes
<1>3a. Undecided'
  BY <1>1, <1>2, SegmentUndecided DEF StreamInv
<1>4. CASE service = "raw"
  <2>1. RawSide' /\ UNCHANGED <<sent, delivered>>
    BY <1>1, <1>2, <1>4, SegmentOfRaw DEF StreamInv
  <2> QED BY <1>3, <1>3a, <1>4, <2>1 DEF StreamInv
<1>5. CASE service # "raw" /\ UnderWay
  <2>1. (UnderWay' \/ Upgraded') /\ (delivered' = delivered \/ Channel!Deliver)
    BY <1>1, <1>2, <1>5, SegmentDelivers
  <2> QED BY <1>3, <1>3a, <1>5, <2>1 DEF StreamInv
<1>6. CASE service # "raw" /\ Upgraded
  <2>1. UNCHANGED <<encoding, buffer, delivered>>
    BY <1>1, <1>2, <1>6, TakenTyped DEF Upgraded
  <2> QED BY <1>3, <1>3a, <1>6, <2>1 DEF Upgraded, StreamInv
<1> QED BY <1>4, <1>5, <1>6 DEF StreamInv

\* The invariant and the channel hold of every step.
LEMMA StreamStep ==
    ASSUME StreamInv, [Next]_vars
    PROVE  StreamInv' /\ [Channel!Next]_(Channel!channelVars)
<1>1. CASE UNCHANGED vars
  <2>1. StreamInv'
    BY <1>1 DEF StreamInv, TypeOK, Undecided, UnderWay, NothingMore, Divides, Upgraded, RawSide, vars
  <2> QED BY <1>1, <2>1 DEF Channel!channelVars, vars
<1>2. CASE SendPlist
  BY <1>2, SendPlistKeeps DEF Channel!Next
<1>3. CASE SendTLS
  BY <1>3, SendTLSKeeps DEF Channel!channelVars
<1>4. CASE SendRaw
  BY <1>4, SendRawKeeps DEF Channel!channelVars
<1>5. CASE Segment
  BY <1>5, SegmentKeeps DEF Channel!Next, Channel!channelVars
<1> QED BY <1>1, <1>2, <1>3, <1>4, <1>5 DEF Next

\* The stream's types, and what waits for the rest of a message is bounded by
\* the largest one, whatever the segments bring (MuxStream::drain).
THEOREM StreamTypes == Spec => []TypeOK
<1>1. StreamInv /\ [Next]_vars => StreamInv'
  BY StreamStep
<1>2. StreamInv => TypeOK
  BY DEF StreamInv
<1> QED BY <1>1, <1>2, StreamInit, PTL DEF Spec

\* However the bytes are cut into segments, property lists are only found where
\* they are sent, TLS only after an upgrade, and only a raw service is given up;
\* the framing is known of whatever has brought a length and a signature, and an
\* upgrade is known by the time all that was written has arrived (MuxStream::drain).
THEOREM StreamEncoding == Spec => []EncodingIsServices
<1>1. StreamInv /\ [Next]_vars => StreamInv'
  BY StreamStep
<1>2. StreamInv => EncodingIsServices
  <2> SUFFICES ASSUME StreamInv PROVE EncodingIsServices
    OBVIOUS
  <2>1. CASE service = "raw"
    BY <2>1 DEF StreamInv, Undecided, RawSide, EncodingIsServices
  <2>2. CASE service # "raw" /\ Upgraded
    BY <2>2 DEF Upgraded, EncodingIsServices
  <2>3. CASE service # "raw" /\ UnderWay
    <3>1. encoding \in {"Unknown", "Plist"} /\ ~(service = "TLS" /\ wire = <<>>)
      BY <2>3 DEF UnderWay, NothingMore
    <3> QED BY <2>3, <3>1 DEF StreamInv, Undecided, EncodingIsServices
  <2> QED BY <2>1, <2>2, <2>3 DEF StreamInv
<1> QED BY <1>1, <1>2, StreamInit, PTL DEF Spec

\* Nothing waits in the buffer that could be decoded.
ArrivedIsDecoded == wire = <<>> => delivered = sent

\* When all that a peer wrote has arrived, in whatever segments, every property
\* list is decoded: none waits for a segment that may never come (MuxStream::drain).
\* This is what makes the channel live, said of states.
THEOREM NoneIsLeftBehind == Spec => []ArrivedIsDecoded
<1>1. StreamInv /\ [Next]_vars => StreamInv'
  BY StreamStep
<1>2. StreamInv => ArrivedIsDecoded
  <2> SUFFICES ASSUME StreamInv, wire = <<>> PROVE delivered = sent
    BY DEF ArrivedIsDecoded
  <2>1. CASE service = "raw" \/ Upgraded
    BY <2>1 DEF StreamInv, RawSide, Upgraded
  <2>2. CASE UnderWay
    <3>1. sent = delivered \o <<>>
      BY <2>2 DEF UnderWay, NothingMore
    <3>2. delivered \in Seq(Seq(Nat))
      BY DEF StreamInv, TypeOK
    <3> QED BY <3>1, <3>2
  <2> QED BY <2>1, <2>2 DEF StreamInv
<1> QED BY <1>1, <1>2, StreamInit, PTL DEF Spec

\* A direction of a connection is a FIFO channel of property lists: they are
\* decoded whole, in order and once, and nothing else is taken for one, neither
\* what follows a TLS upgrade nor anything of a raw service.
THEOREM StreamIsSafeChannel ==
    Spec => Channel!Init /\ [][Channel!Next]_(Channel!channelVars)
<1>1. StreamInv /\ [Next]_vars => StreamInv' /\ [Channel!Next]_(Channel!channelVars)
  BY StreamStep
<1>2. Init => Channel!Init
  BY DEF Init, Channel!Init
<1> QED BY <1>1, <1>2, StreamInit, PTL DEF Spec
=============================================================================
