---------------------------- MODULE Eq3UartProofs ----------------------------
(***************************************************************************)
(* Theorems about Eq3Uart, for any sizes of the buffer, of the queue and   *)
(* of the reads.                                                           *)
(***************************************************************************)
EXTENDS Eq3Uart, SequenceTheorems, TLAPS

Char == {"char", "eol"}

\* Characters and messages of a text of n characters.
Text(n) == Seq(1 .. n)

LEMMA TextGrows ==
    ASSUME NEW n \in Nat, NEW m \in Nat, n <= m
    PROVE  /\ \A s \in Text(n) : s \in Text(m)
           /\ \A q \in Seq(Text(n)) : q \in Seq(Text(m))
  <1>1. \A s \in Text(n) : s \in Text(m)
    BY DEF Text
  <1> HIDE DEF Text
  <1>2. \A q \in Seq(Text(n)) : q \in Seq(Text(m))
    BY <1>1
  <1> QED BY <1>1, <1>2

LEMMA EmptyText == ASSUME NEW n PROVE <<>> \in Text(n)
  BY DEF Text

\* What fits into cmd_buf: the line so far and what is left of the read.
RoomInv == cmdidx + (Len(typed) + 1 - next) < BufLen

Facts ==
    /\ typed \in Seq(Char) /\ Len(typed) \in Nat /\ next \in Nat
    /\ next >= 1 /\ next <= Len(typed) + 1
    /\ cmd_buf \in Text(Len(typed)) /\ cmdidx \in Nat
    /\ msgQueue \in Seq(Text(Len(typed))) /\ Len(msgQueue) \in Nat
    /\ Len(msgQueue) <= QueueLen
    /\ handled \in Seq(Text(Len(typed)))
    /\ created \in BOOLEAN
    /\ excused \subseteq {"no_queue", "no_memory", "queue_full", "discarded"}
    /\ BufLen \in Nat /\ QueueLen \in Nat

LEMMA TypedFacts == TypeOK => Facts
  <1> SUFFICES ASSUME TypeOK PROVE Facts
    OBVIOUS
  <1>1. /\ typed \in Seq(Char) /\ Len(typed) \in Nat /\ next \in 1 .. Len(typed) + 1
    BY DEF TypeOK, Char
  <1>2. cmd_buf \in Text(Len(typed)) /\ cmdidx \in Nat
    BY DEF TypeOK, Text, cmdidx
  <1>3. /\ msgQueue \in Seq(Text(Len(typed))) /\ handled \in Seq(Text(Len(typed)))
    BY DEF TypeOK, Text
  <1>4. Len(msgQueue) \in Nat
    BY <1>3
  <1>5. BufLen \in Nat /\ QueueLen \in Nat
    BY UartAssumption
  <1> QED BY <1>1, <1>2, <1>3, <1>4, <1>5 DEF TypeOK, Facts

LEMMA FactsTyped == Facts /\ RoomInv => TypeOK
  <1> SUFFICES ASSUME Facts, RoomInv PROVE TypeOK
    OBVIOUS
  <1>1. next \in 1 .. Len(typed) + 1 /\ cmdidx \in 0 .. BufLen - 1
    BY DEF Facts, RoomInv
  <1> QED BY <1>1 DEF Facts, TypeOK, Text, Char

\* What a read adds to the text.
LEMMA ReadEffect ==
    ASSUME Facts, ReadBytes
    PROVE  \E n \in Nat :
              /\ typed' \in Seq(Char) /\ Len(typed') = Len(typed) + n
              /\ \A i \in 1 .. Len(typed) : typed'[i] = typed[i]
              /\ next = Len(typed) + 1
              /\ \/ next' = next /\ cmdidx + n < BufLen /\ UNCHANGED excused
                 \/ next' = next + n /\ excused' = excused \union {"discarded"}
              /\ UNCHANGED <<cmd_buf, created, msgQueue, handled>>
  <1>1. PICK data \in BoundedSeq(Char, MaxRead) :
          /\ typed' = typed \o data
          /\ next' = IF Fits(Len(data)) THEN next ELSE next + Len(data)
          /\ excused' = IF Fits(Len(data)) THEN excused ELSE excused \union {"discarded"}
    BY DEF ReadBytes, Char
  <1>2. data \in Seq(Char) /\ Len(data) \in Nat
    <2>1. PICK m \in 0 .. MaxRead : data \in [1 .. m -> Char]
      BY DEF BoundedSeq, SeqOf
    <2>2. m \in Nat
      BY <2>1
    <2> QED BY <2>1, <2>2
  <1>3. /\ typed' \in Seq(Char) /\ Len(typed') = Len(typed) + Len(data)
        /\ \A i \in 1 .. Len(typed) : typed'[i] = typed[i]
    BY <1>1, <1>2 DEF Facts
  <1>4. next = Len(typed) + 1
    BY DEF Facts, ReadBytes
  <1>5. \/ next' = next /\ cmdidx + Len(data) < BufLen /\ UNCHANGED excused
        \/ next' = next + Len(data) /\ excused' = excused \union {"discarded"}
    BY <1>1 DEF Fits
  <1>6. UNCHANGED <<cmd_buf, created, msgQueue, handled>>
    BY DEF ReadBytes
  <1> QED BY <1>2, <1>3, <1>4, <1>5, <1>6

\* What the end of a line does.
LEMMA EolEffect ==
    ASSUME EndOfLine
    PROVE  /\ next <= Len(typed) /\ typed[next] = "eol" /\ next' = next + 1
           /\ cmd_buf' = <<>> /\ UNCHANGED <<typed, created, handled>>
           /\ \/ UNCHANGED msgQueue
              \/ cmdidx > 0 /\ Len(msgQueue) < QueueLen /\ msgQueue' = Append(msgQueue, cmd_buf)
           /\ \E why \in {"no_queue", "no_memory", "queue_full"} :
                 excused' = excused \/ excused' = excused \union {why}
  <1>1. /\ next <= Len(typed) /\ typed[next] = "eol" /\ next' = next + 1
        /\ cmd_buf' = <<>> /\ UNCHANGED <<typed, created, handled>>
    BY DEF EndOfLine
  <1>2. \/ UNCHANGED msgQueue
        \/ cmdidx > 0 /\ Len(msgQueue) < QueueLen /\ msgQueue' = Append(msgQueue, cmd_buf)
    BY DEF EndOfLine, Posted
  <1>3. \E why \in {"no_queue", "no_memory", "queue_full"} :
                 excused' = excused \/ excused' = excused \union {why}
    BY DEF EndOfLine, WhyNotPosted
  <1> QED BY <1>1, <1>2, <1>3

LEMMA TypeStep == ASSUME Facts, RoomInv, [Next]_vars PROVE Facts' /\ RoomInv'
  <1>1. CASE ReadBytes
    <2>1. PICK n \in Nat :
              /\ typed' \in Seq(Char) /\ Len(typed') = Len(typed) + n
              /\ next = Len(typed) + 1
              /\ \/ next' = next /\ cmdidx + n < BufLen /\ UNCHANGED excused
                 \/ next' = next + n /\ excused' = excused \union {"discarded"}
              /\ UNCHANGED <<cmd_buf, created, msgQueue, handled>>
      BY <1>1, ReadEffect
    <2>2. Len(typed) <= Len(typed') /\ Len(typed') \in Nat /\ Len(typed) \in Nat
      BY <2>1 DEF Facts
    <2>3. /\ cmd_buf' \in Text(Len(typed')) /\ msgQueue' \in Seq(Text(Len(typed')))
          /\ handled' \in Seq(Text(Len(typed')))
      BY <2>1, <2>2, TextGrows DEF Facts
    <2>4. cmdidx' = cmdidx
      BY <2>1 DEF cmdidx
    <2>5. /\ next' \in Nat /\ next' >= 1 /\ next' <= Len(typed') + 1
      BY <2>1, <2>2 DEF Facts
    <2>6. RoomInv'
      BY <2>1, <2>2, <2>4 DEF RoomInv, Facts
    <2>7. excused' \subseteq {"no_queue", "no_memory", "queue_full", "discarded"}
      BY <2>1 DEF Facts
    <2> QED BY <2>1, <2>2, <2>3, <2>4, <2>5, <2>6, <2>7 DEF Facts
  <1>2. CASE CopyChar
    <2>1. /\ next <= Len(typed) /\ next' = next + 1 /\ cmd_buf' = Append(cmd_buf, next)
          /\ UNCHANGED <<typed, created, msgQueue, handled, excused>>
      BY <1>2 DEF CopyChar
    <2>2. next \in 1 .. Len(typed)
      BY <2>1 DEF Facts
    <2>3. cmd_buf' \in Text(Len(typed')) /\ cmdidx' = cmdidx + 1
      BY <2>1, <2>2 DEF Facts, Text, cmdidx
    <2>4. /\ next' \in Nat /\ next' >= 1 /\ next' <= Len(typed') + 1 /\ cmdidx' \in Nat
      BY <2>1, <2>3 DEF Facts
    <2>5. RoomInv'
      BY <2>1, <2>3 DEF RoomInv, Facts
    <2> QED BY <2>1, <2>3, <2>4, <2>5 DEF Facts
  <1>3. CASE EndOfLine
    <2>1. /\ next <= Len(typed) /\ next' = next + 1
          /\ cmd_buf' = <<>> /\ UNCHANGED <<typed, created, handled>>
      BY <1>3, EolEffect
    <2>2. msgQueue' \in Seq(Text(Len(typed'))) /\ Len(msgQueue') \in Nat
          /\ Len(msgQueue') <= QueueLen
      <3>1. /\ msgQueue \in Seq(Text(Len(typed))) /\ cmd_buf \in Text(Len(typed))
            /\ Len(msgQueue) \in Nat /\ Len(msgQueue) <= QueueLen /\ QueueLen \in Nat
            /\ typed' = typed
        BY <2>1 DEF Facts
      <3>2. CASE UNCHANGED msgQueue
        BY <3>1, <3>2
      <3>3. CASE Len(msgQueue) < QueueLen /\ msgQueue' = Append(msgQueue, cmd_buf)
        <4>1. msgQueue' \in Seq(Text(Len(typed))) /\ Len(msgQueue') = Len(msgQueue) + 1
          BY <3>1, <3>3
        <4> QED BY <3>1, <3>3, <4>1
      <3> QED BY <1>3, EolEffect, <3>2, <3>3
    <2>3. cmd_buf' \in Text(Len(typed')) /\ cmdidx' = 0
      <3>1. <<>> \in Text(Len(typed'))
        BY EmptyText
      <3> QED BY <2>1, <3>1 DEF cmdidx
    <2>4. /\ next' \in Nat /\ next' >= 1 /\ next' <= Len(typed') + 1
      BY <2>1 DEF Facts
    <2>5. excused' \subseteq {"no_queue", "no_memory", "queue_full", "discarded"}
      BY <1>3, EolEffect DEF Facts
    <2>6. RoomInv'
      BY <2>1, <2>3 DEF RoomInv, Facts
    <2> QED BY <2>1, <2>2, <2>3, <2>4, <2>5, <2>6 DEF Facts
  <1>4. CASE CreateQueue
    <2>1. created' \in BOOLEAN /\ UNCHANGED <<typed, next, cmd_buf, msgQueue, handled, excused>>
      BY <1>4 DEF CreateQueue
    <2> QED BY <2>1 DEF Facts, RoomInv, cmdidx
  <1>5. CASE ReceiveMsg
    <2>1. /\ msgQueue # <<>> /\ handled' = Append(handled, Head(msgQueue))
          /\ msgQueue' = Tail(msgQueue)
          /\ UNCHANGED <<typed, next, cmd_buf, created, excused>>
      BY <1>5 DEF ReceiveMsg
    <2>2. /\ Head(msgQueue) \in Text(Len(typed)) /\ msgQueue' \in Seq(Text(Len(typed)))
          /\ Len(msgQueue') = Len(msgQueue) - 1 /\ Len(msgQueue) > 0
      BY <2>1 DEF Facts
    <2>3. handled' \in Seq(Text(Len(typed)))
      BY <2>1, <2>2 DEF Facts
    <2>4. Len(msgQueue') \in Nat /\ Len(msgQueue') <= QueueLen
      BY <2>2 DEF Facts
    <2> QED BY <2>1, <2>2, <2>3, <2>4 DEF Facts, RoomInv, cmdidx
  <1>6. CASE UNCHANGED vars
    BY <1>6 DEF vars, Facts, RoomInv, cmdidx
  <1> QED BY <1>1, <1>2, <1>3, <1>4, <1>5, <1>6 DEF Next

LEMMA FactsAlways == Spec => [](Facts /\ RoomInv)
  <1>1. Init => Facts /\ RoomInv
    <2> SUFFICES ASSUME Init PROVE Facts /\ RoomInv
      OBVIOUS
    <2>1. /\ typed = <<>> /\ next = 1 /\ cmd_buf = <<>> /\ created \in BOOLEAN
          /\ msgQueue = <<>> /\ handled = <<>> /\ excused = {}
      BY DEF Init
    <2>2. Len(typed) = 0 /\ cmdidx = 0 /\ Len(msgQueue) = 0
      BY <2>1 DEF cmdidx
    <2>3. /\ typed \in Seq(Char) /\ cmd_buf \in Text(Len(typed))
          /\ msgQueue \in Seq(Text(Len(typed))) /\ handled \in Seq(Text(Len(typed)))
      BY <2>1 DEF Text
    <2> QED BY <2>1, <2>2, <2>3, UartAssumption DEF Facts, RoomInv
  <1>2. (Facts /\ RoomInv) /\ [Next]_vars => (Facts /\ RoomInv)'
    BY TypeStep
  <1> QED BY <1>1, <1>2, PTL DEF Spec

\* The line collected in cmd_buf never overruns it (cmdidx stays below its
\* size, so that the final 0 has room too), and msgQueue never holds more
\* than its length, however the reads cut what is typed.
THEOREM UartTypeCorrect == Spec => []TypeOK
  BY FactsAlways, FactsTyped, PTL
----------------------------------------------------------------------------
\* The order of the characters: M are the messages, b the line collected so
\* far, and n the next character to be looked at.
Below(s, n) == \A i \in 1 .. Len(s) : s[i] < n

Ordered(M, b, n) ==
    /\ \A a \in 1 .. Len(M) : Rising(M[a]) /\ Below(M[a], n) /\ Before(M[a], b)
    /\ \A a, c \in 1 .. Len(M) : a < c => Before(M[a], M[c])
    /\ Rising(b) /\ Below(b, n)

OrderInv == Ordered(Messages, cmd_buf, next)

\* Taking the first message out of the queue leaves the messages as they are.
LEMMA HeadMoves ==
    ASSUME NEW S, NEW h \in Seq(S), NEW q \in Seq(S), q # <<>>
    PROVE  Append(h, Head(q)) \o Tail(q) = h \o q
  <1> DEFINE l == Append(h, Head(q))  r == Tail(q)
  <1>1. /\ l \in Seq(S) /\ r \in Seq(S) /\ Len(l) = Len(h) + 1 /\ Len(r) = Len(q) - 1
        /\ Len(h) \in Nat /\ Len(q) \in Nat /\ Len(q) > 0
    OBVIOUS
  <1>2. /\ \A i \in 1 .. Len(h) : l[i] = h[i]
        /\ l[Len(h) + 1] = q[1]
        /\ \A i \in 1 .. Len(q) - 1 : r[i] = q[i + 1]
    <2>1. Head(q) \in S /\ Head(q) = q[1]
      OBVIOUS
    <2>2. \A i \in 1 .. Len(q) - 1 : r[i] = q[i + 1]
      BY HeadTailProperties
    <2>3. \A i \in 1 .. Len(h) : l[i] = h[i]
      BY <2>1
    <2>4. l[Len(h) + 1] = q[1]
      BY <2>1
    <2> QED BY <2>2, <2>3, <2>4
  <1> HIDE DEF l, r
  <1>3. /\ l \o r \in Seq(S) /\ h \o q \in Seq(S) /\ Len(l \o r) = Len(h) + Len(q)
        /\ Len(h \o q) = Len(h) + Len(q)
    <2>1. l \o r \in Seq(S) /\ Len(l \o r) = Len(l) + Len(r)
      BY <1>1, ConcatProperties
    <2>2. h \o q \in Seq(S) /\ Len(h \o q) = Len(h) + Len(q)
      BY ConcatProperties
    <2>3. Len(l) + Len(r) = Len(h) + Len(q)
      BY <1>1
    <2> QED BY <2>1, <2>2, <2>3
  <1>4. ASSUME NEW i \in 1 .. Len(h) + Len(q)
        PROVE  (l \o r)[i] = (h \o q)[i]
    <2>1. CASE i <= Len(h)
      BY <1>1, <1>2, <2>1
    <2>2. CASE i = Len(h) + 1
      BY <1>1, <1>2, <2>2
    <2>3. CASE i > Len(h) + 1
      <3>1. (l \o r)[i] = r[i - (Len(h) + 1)]
        BY <1>1, <2>3
      <3>2. i - (Len(h) + 1) \in 1 .. Len(q) - 1 /\ i - (Len(h) + 1) + 1 = i - Len(h)
        BY <1>1, <2>3
      <3>3. (h \o q)[i] = q[i - Len(h)]
        BY <1>1, <2>3
      <3> QED BY <1>2, <3>1, <3>2, <3>3
    <2> QED BY <1>1, <2>1, <2>2, <2>3
  <1>5. \A i \in 1 .. Len(l \o r) : (l \o r)[i] = (h \o q)[i]
    BY <1>3, <1>4
  <1>6. l \o r = h \o q
    BY <1>3, <1>5, SeqEqual
  <1> QED BY <1>6 DEF l, r

\* Posting a line appends it to the messages.
LEMMA PostAppends ==
    ASSUME NEW S, NEW h \in Seq(S), NEW q \in Seq(S), NEW m \in S
    PROVE  h \o Append(q, m) = Append(h \o q, m)
  <1>1. /\ Append(q, m) \in Seq(S) /\ h \o q \in Seq(S)
        /\ Len(Append(q, m)) = Len(q) + 1 /\ Len(h \o q) = Len(h) + Len(q)
        /\ Len(h) \in Nat /\ Len(q) \in Nat
    OBVIOUS
  <1> DEFINE l == h \o Append(q, m)  r == Append(h \o q, m)
  <1>2. /\ l \in Seq(S) /\ r \in Seq(S)
        /\ Len(l) = Len(h) + Len(q) + 1 /\ Len(r) = Len(h) + Len(q) + 1
    BY <1>1
  <1>3. ASSUME NEW i \in 1 .. Len(h) + Len(q) + 1
        PROVE  l[i] = r[i]
    <2>1. CASE i <= Len(h)
      BY <1>1, <2>1
    <2>2. CASE i > Len(h) /\ i <= Len(h) + Len(q)
      BY <1>1, <2>2
    <2>3. CASE i = Len(h) + Len(q) + 1
      BY <1>1, <2>3
    <2> QED BY <1>1, <2>1, <2>2, <2>3
  <1> HIDE DEF l, r
  <1>4. \A i \in 1 .. Len(l) : l[i] = r[i]
    BY <1>2, <1>3
  <1>5. l = r
    BY <1>2, <1>4, SeqEqual
  <1> QED BY <1>5 DEF l, r

LEMMA OrderedGrows ==
    ASSUME NEW M \in Seq(Seq(Nat)), NEW b \in Seq(Nat), NEW n \in Nat, NEW m \in Nat,
           n <= m, Ordered(M, b, n)
    PROVE  Ordered(M, b, m)
  <1>1. \A s \in Seq(Nat) : Below(s, n) => Below(s, m)
    BY DEF Below
  <1>2. \A a \in 1 .. Len(M) : M[a] \in Seq(Nat)
    OBVIOUS
  <1> QED BY <1>1, <1>2 DEF Ordered

LEMMA OrderedCopy ==
    ASSUME NEW M \in Seq(Seq(Nat)), NEW b \in Seq(Nat), NEW n \in Nat, Ordered(M, b, n)
    PROVE  Ordered(M, Append(b, n), n + 1)
  <1> DEFINE c == Append(b, n)
  <1>1. /\ c \in Seq(Nat) /\ Len(c) = Len(b) + 1 /\ Len(b) \in Nat /\ c[Len(b) + 1] = n
        /\ \A i \in 1 .. Len(b) : c[i] = b[i] /\ b[i] \in Nat
    OBVIOUS
  <1> HIDE DEF c
  <1>2. \A i \in 1 .. Len(b) : b[i] < n
    BY DEF Ordered, Below
  <1>3. \A i \in 1 .. Len(c) : i \in 1 .. Len(b) \/ i = Len(b) + 1
    BY <1>1
  <1>4. Below(c, n + 1)
    <2> SUFFICES ASSUME NEW i \in 1 .. Len(c) PROVE c[i] < n + 1
      BY DEF Below
    <2>1. CASE i \in 1 .. Len(b)
      <3>1. c[i] = b[i] /\ b[i] \in Nat /\ b[i] < n
        BY <1>1, <1>2, <2>1
      <3> QED BY <3>1
    <2>2. CASE i = Len(b) + 1
      <3>1. c[i] = n
        BY <1>1, <2>2
      <3> QED BY <3>1
    <2> QED BY <1>3, <2>1, <2>2
  <1>5. Rising(c)
    <2> SUFFICES ASSUME NEW i \in 1 .. Len(c), NEW j \in 1 .. Len(c), i < j
                 PROVE  c[i] < c[j]
      BY DEF Rising
    <2>1. i \in 1 .. Len(b)
      BY <1>1
    <2>2. CASE j \in 1 .. Len(b)
      BY <1>1, <2>1, <2>2 DEF Ordered, Rising
    <2>3. CASE j = Len(b) + 1
      BY <1>1, <1>2, <2>1, <2>3
    <2> QED BY <1>3, <2>2, <2>3
  <1>6. ASSUME NEW a \in 1 .. Len(M)
        PROVE  Rising(M[a]) /\ Below(M[a], n + 1) /\ Before(M[a], c)
    <2>1. M[a] \in Seq(Nat) /\ Rising(M[a]) /\ Below(M[a], n) /\ Before(M[a], b)
      BY DEF Ordered
    <2>2. \A i \in 1 .. Len(M[a]) : M[a][i] \in Nat /\ M[a][i] < n
      BY <2>1 DEF Below
    <2>3. Below(M[a], n + 1)
      BY <2>2 DEF Below
    <2>4. Before(M[a], c)
      BY <1>1, <1>3, <2>1, <2>2 DEF Before
    <2> QED BY <2>1, <2>3, <2>4
  <1>7. \A a, d \in 1 .. Len(M) : a < d => Before(M[a], M[d])
    BY DEF Ordered
  <1>8. Ordered(M, c, n + 1)
    BY <1>4, <1>5, <1>6, <1>7 DEF Ordered
  <1> QED BY <1>8 DEF c

LEMMA OrderedDrop ==
    ASSUME NEW M \in Seq(Seq(Nat)), NEW b \in Seq(Nat), NEW n \in Nat, Ordered(M, b, n)
    PROVE  Ordered(M, <<>>, n + 1)
  <1>1. Rising(<<>>) /\ Below(<<>>, n) /\ \A s : Before(s, <<>>)
    BY DEF Rising, Below, Before
  <1>2. Ordered(M, <<>>, n)
    BY <1>1 DEF Ordered
  <1>3. <<>> \in Seq(Nat) /\ n + 1 \in Nat /\ n <= n + 1
    OBVIOUS
  <1> QED BY <1>2, <1>3, OrderedGrows

LEMMA OrderedPost ==
    ASSUME NEW M \in Seq(Seq(Nat)), NEW b \in Seq(Nat), NEW n \in Nat, Ordered(M, b, n)
    PROVE  Ordered(Append(M, b), <<>>, n + 1)
  <1> DEFINE P == Append(M, b)
  <1>1. /\ P \in Seq(Seq(Nat)) /\ Len(P) = Len(M) + 1 /\ Len(M) \in Nat
        /\ P[Len(M) + 1] = b /\ \A a \in 1 .. Len(M) : P[a] = M[a]
    OBVIOUS
  <1> HIDE DEF P
  <1>2. \A a \in 1 .. Len(P) : a \in 1 .. Len(M) \/ a = Len(M) + 1
    BY <1>1
  <1>3. \A a \in 1 .. Len(P) : Rising(P[a]) /\ Below(P[a], n)
    BY <1>1, <1>2 DEF Ordered
  <1>4. ASSUME NEW a \in 1 .. Len(P), NEW c \in 1 .. Len(P), a < c
        PROVE  Before(P[a], P[c])
    <2>1. a \in 1 .. Len(M)
      BY <1>1, <1>4
    <2> QED BY <1>1, <1>2, <1>4, <2>1 DEF Ordered
  <1>5. Rising(<<>>) /\ Below(<<>>, n) /\ \A s : Before(s, <<>>)
    BY DEF Rising, Below, Before
  <1>6. Ordered(P, <<>>, n)
    BY <1>3, <1>4, <1>5 DEF Ordered
  <1>7. <<>> \in Seq(Nat) /\ n + 1 \in Nat /\ n <= n + 1
    OBVIOUS
  <1>8. Ordered(P, <<>>, n + 1)
    BY <1>1, <1>6, <1>7, OrderedGrows
  <1> QED BY <1>8 DEF P

LEMMA OrderedShows ==
    ASSUME NEW M \in Seq(Seq(Nat)), NEW b \in Seq(Nat), NEW n \in Nat, Ordered(M, b, n)
    PROVE  \A a, c \in 1 .. Len(Append(M, b)) :
              /\ Rising(Append(M, b)[a])
              /\ a < c => Before(Append(M, b)[a], Append(M, b)[c])
  <1>1. Ordered(Append(M, b), <<>>, n + 1)
    BY OrderedPost
  <1> QED BY <1>1 DEF Ordered
\* Messages and lines are sequences of numbers, and how a step changes them.
LEMMA PartsTyped ==
    ASSUME Facts
    PROVE  Messages \in Seq(Seq(Nat)) /\ cmd_buf \in Seq(Nat)
  <1>1. \A s \in Text(Len(typed)) : s \in Seq(Nat)
    BY DEF Text, Facts
  <1>2. cmd_buf \in Seq(Nat)
    BY <1>1 DEF Facts
  <1> DEFINE T == Text(Len(typed))
  <1> HIDE DEF T
  <1>3. handled \in Seq(T) /\ msgQueue \in Seq(T)
    BY DEF Facts, T
  <1>4. Messages \in Seq(T)
    BY <1>3 DEF Messages
  <1>5. Messages \in Seq(Seq(Nat))
    BY <1>1, <1>4 DEF T
  <1> QED BY <1>2, <1>5

LEMMA PartsStep ==
    ASSUME Facts, [Next]_vars
    PROVE  \/ /\ Messages' = Messages /\ cmd_buf' = cmd_buf /\ UNCHANGED next
              /\ UNCHANGED excused
              /\ UNCHANGED typed
           \/ ReadBytes /\ Messages' = Messages /\ cmd_buf' = cmd_buf
           \/ CopyChar /\ Messages' = Messages
           \/ EndOfLine /\ Messages' = Messages
           \/ EndOfLine /\ cmdidx > 0 /\ Messages' = Append(Messages, cmd_buf)
  <1> DEFINE T == Text(Len(typed))
  <1>1. handled \in Seq(T) /\ msgQueue \in Seq(T) /\ cmd_buf \in T
    BY DEF Facts
  <1> HIDE DEF T
  <1>2. CASE ReadBytes
    BY <1>2 DEF ReadBytes, Messages
  <1>3. CASE CopyChar
    BY <1>3 DEF CopyChar, Messages
  <1>4. CASE EndOfLine
    <2>1. UNCHANGED handled
      BY <1>4, EolEffect
    <2>2. CASE UNCHANGED msgQueue
      BY <1>4, <2>1, <2>2 DEF Messages
    <2>3. CASE cmdidx > 0 /\ msgQueue' = Append(msgQueue, cmd_buf)
      <3>1. handled \o Append(msgQueue, cmd_buf) = Append(handled \o msgQueue, cmd_buf)
        BY <1>1, PostAppends
      <3> QED BY <1>4, <2>1, <2>3, <3>1 DEF Messages
    <2> QED BY <1>4, EolEffect, <2>2, <2>3
  <1>5. CASE CreateQueue
    BY <1>5 DEF CreateQueue, Messages
  <1>6. CASE ReceiveMsg
    <2>1. Append(handled, Head(msgQueue)) \o Tail(msgQueue) = handled \o msgQueue
      BY <1>1, <1>6, HeadMoves DEF ReceiveMsg
    <2> QED BY <1>6, <2>1 DEF ReceiveMsg, Messages
  <1>7. CASE UNCHANGED vars
    BY <1>7 DEF vars, Messages
  <1> QED BY <1>2, <1>3, <1>4, <1>5, <1>6, <1>7 DEF Next

LEMMA OrderStep ==
    ASSUME Facts, OrderInv, [Next]_vars
    PROVE  OrderInv'
  <1> DEFINE M == Messages  b == cmd_buf
  <1>1. M \in Seq(Seq(Nat)) /\ b \in Seq(Nat) /\ next \in Nat /\ Ordered(M, b, next)
    BY PartsTyped DEF OrderInv, Facts
  <1> HIDE DEF M, b
  <1>2. CASE M' = M /\ b' = b /\ UNCHANGED next
    BY <1>2 DEF OrderInv, M, b
  <1>3. CASE ReadBytes /\ M' = M /\ b' = b
    <2>1. next' \in Nat /\ next <= next'
      BY <1>1, <1>3, ReadEffect
    <2>2. Ordered(M, b, next')
      BY <1>1, <2>1, OrderedGrows
    <2> QED BY <1>3, <2>2 DEF OrderInv, M, b
  <1>4. CASE CopyChar /\ M' = M
    <2>1. Ordered(M, Append(b, next), next + 1)
      BY <1>1, OrderedCopy
    <2> QED BY <1>4, <2>1 DEF CopyChar, OrderInv, M, b
  <1>5. CASE EndOfLine /\ M' = M
    <2>1. Ordered(M, <<>>, next + 1)
      BY <1>1, OrderedDrop
    <2>2. next' = next + 1 /\ cmd_buf' = <<>>
      BY <1>5, EolEffect
    <2> QED BY <1>5, <2>1, <2>2 DEF OrderInv, M
  <1>6. CASE EndOfLine /\ M' = Append(M, b)
    <2>1. Ordered(Append(M, b), <<>>, next + 1)
      BY <1>1, OrderedPost
    <2>2. next' = next + 1 /\ cmd_buf' = <<>>
      BY <1>6, EolEffect
    <2> QED BY <1>6, <2>1, <2>2 DEF OrderInv, M
  <1> QED BY <1>2, <1>3, <1>4, <1>5, <1>6, PartsStep DEF M, b

\* What handle_request() gets, what waits in msgQueue and what is collected
\* in cmd_buf are characters in the order they were typed, each at most once:
\* uart_task() never repeats a command and never exchanges two of them.
THEOREM UartInTypedOrder == Spec => []InTypedOrder
  <1>1. Init => OrderInv
    <2> SUFFICES ASSUME Init PROVE OrderInv
      OBVIOUS
    <2>1. Messages = <<>> /\ cmd_buf = <<>>
      BY DEF Init, Messages
    <2>2. Ordered(<<>>, <<>>, next)
      BY DEF Ordered, Rising, Below
    <2> QED BY <2>1, <2>2 DEF OrderInv
  <1>2. Facts /\ OrderInv /\ [Next]_vars => OrderInv'
    BY OrderStep
  <1>3. Facts /\ OrderInv => InTypedOrder
    <2> SUFFICES ASSUME Facts, OrderInv PROVE InTypedOrder
      OBVIOUS
    <2>1. Messages \in Seq(Seq(Nat)) /\ cmd_buf \in Seq(Nat) /\ next \in Nat
      BY PartsTyped DEF Facts
    <2> QED BY <2>1, OrderedShows DEF OrderInv, InTypedOrder
  <1> QED BY <1>1, <1>2, <1>3, FactsAlways, PTL DEF Spec

----------------------------------------------------------------------------
\* Where the line collected so far was typed: the last cmdidx characters that
\* were looked at, behind a line end.
PartInv ==
    /\ cmdidx < next
    /\ \A i \in 1 .. cmdidx : cmd_buf[i] = next - cmdidx + i - 1 /\ typed[cmd_buf[i]] = "char"
    /\ next - cmdidx > 1 => typed[next - cmdidx - 1] = "eol"

\* m is a whole line whose end was already looked at.
Ended(m) == m # <<>> /\ IsLine(m) /\ m[Len(m)] + 1 < next

LineInv ==
    "discarded" \notin excused =>
      PartInv /\ \A k \in 1 .. Len(Messages) : Ended(Messages[k])

\* What was a line remains one when more is typed.
LEMMA EndedStays ==
    ASSUME Facts, NEW m \in Seq(Nat), Ended(m), next' \in Nat, next <= next',
           \A i \in 1 .. Len(typed) : typed'[i] = typed[i],
           \A i \in 1 .. Len(m) : m[i] \in 1 .. Len(typed)
    PROVE  Ended(m)'
  <1>1. Len(m) \in Nat /\ Len(m) > 0
    BY DEF Ended
  <1>2. m[1] \in 1 .. Len(typed) /\ m[Len(m)] \in 1 .. Len(typed)
    BY <1>1
  <1>3. m[Len(m)] + 1 < next /\ next <= Len(typed) + 1 /\ next \in Nat /\ Len(typed) \in Nat
    BY DEF Ended, Facts
  <1>4. m[Len(m)] + 1 \in 1 .. Len(typed) /\ (m[1] > 1 => m[1] - 1 \in 1 .. Len(typed))
    BY <1>2, <1>3
  <1>5. m[Len(m)] + 1 < next'
    BY <1>2, <1>3
  <1>6. IsLine(m)'
    <2>1. \A i \in 1 .. Len(m) : m[i] = m[1] + i - 1 /\ typed[m[i]] = "char"
      BY DEF Ended, IsLine
    <2>2. \A i \in 1 .. Len(m) : m[i] = m[1] + i - 1 /\ typed'[m[i]] = "char"
      BY <2>1
    <2>3. m[1] > 1 => typed'[m[1] - 1] = "eol"
      BY <1>4 DEF Ended, IsLine
    <2>4. typed'[m[Len(m)] + 1] = "eol"
      BY <1>4 DEF Ended, IsLine
    <2> QED BY <2>2, <2>3, <2>4 DEF IsLine
  <1> QED BY <1>5, <1>6 DEF Ended
\* Every character of a message was typed.
LEMMA MessageChars ==
    ASSUME Facts, NEW k \in 1 .. Len(Messages)
    PROVE  Messages[k] \in Seq(Nat)
           /\ \A i \in 1 .. Len(Messages[k]) : Messages[k][i] \in 1 .. Len(typed)
  <1> DEFINE T == Text(Len(typed))
  <1>1. handled \in Seq(T) /\ msgQueue \in Seq(T)
    BY DEF Facts
  <1> HIDE DEF T
  <1>2. Messages \in Seq(T)
    BY <1>1 DEF Messages
  <1>3. Messages[k] \in T
    BY <1>2
  <1>4. Messages[k] \in Seq(1 .. Len(typed))
    BY <1>3 DEF T, Text
  <1>5. \A i \in 1 .. Len(Messages[k]) : Messages[k][i] \in 1 .. Len(typed)
    BY <1>4
  <1>6. Messages[k] \in Seq(Nat)
    BY PartsTyped
  <1> QED BY <1>5, <1>6

\* The lines that were posted stay lines in any step that only looks further.
LEMMA EndedAllStay ==
    ASSUME Facts, \A k \in 1 .. Len(Messages) : Ended(Messages[k]),
           next' \in Nat, next <= next',
           \A i \in 1 .. Len(typed) : typed'[i] = typed[i],
           Messages' = Messages
    PROVE  (\A k \in 1 .. Len(Messages) : Ended(Messages[k]))'
  <1> SUFFICES ASSUME NEW k \in 1 .. Len(Messages) PROVE Ended(Messages[k])'
    OBVIOUS
  <1>1. PICK m \in Seq(Nat) : m = Messages[k]
    BY MessageChars
  <1>2. Ended(m) /\ \A i \in 1 .. Len(m) : m[i] \in 1 .. Len(typed)
    BY <1>1, MessageChars
  <1>3. Ended(m)'
    BY <1>2, EndedStays
  <1> QED BY <1>1, <1>3

\* The end of a line makes what was collected one whole line.
LEMMA LineEnds ==
    ASSUME Facts, PartInv, EndOfLine, cmdidx > 0,
           NEW m \in Seq(Nat), m = cmd_buf
    PROVE  Ended(m)'
  <1>1. /\ Len(m) = cmdidx /\ cmdidx \in Nat /\ cmdidx > 0 /\ cmdidx < next /\ next \in Nat
        /\ next' = next + 1 /\ typed[next] = "eol" /\ typed' = typed
    BY EolEffect DEF Facts, PartInv, cmdidx
  <1>2. \A i \in 1 .. Len(m) : m[i] = next - Len(m) + i - 1 /\ typed[m[i]] = "char"
    BY <1>1 DEF PartInv
  <1>3. m[1] = next - Len(m) /\ m[Len(m)] = next - 1
    <2>1. 1 \in 1 .. Len(m) /\ Len(m) \in 1 .. Len(m)
      BY <1>1
    <2>2. m[1] = next - Len(m) + 1 - 1 /\ m[Len(m)] = next - Len(m) + Len(m) - 1
      BY <1>2, <2>1
    <2> QED BY <1>1, <2>2
  <1>4. \A i \in 1 .. Len(m) : m[i] = m[1] + i - 1 /\ typed'[m[i]] = "char"
    BY <1>1, <1>2, <1>3
  <1>5. m[1] > 1 => typed'[m[1] - 1] = "eol"
    BY <1>1, <1>3 DEF PartInv
  <1>6. typed'[m[Len(m)] + 1] = "eol" /\ m[Len(m)] + 1 < next'
    <2>1. m[Len(m)] + 1 = next
      BY <1>1, <1>3
    <2> QED BY <1>1, <2>1
  <1>7. m # <<>>
    BY <1>1
  <1> QED BY <1>4, <1>5, <1>6, <1>7 DEF Ended, IsLine

LEMMA LineStep ==
    ASSUME Facts, LineInv, [Next]_vars
    PROVE  LineInv'
  <1> DEFINE M == Messages
             All == \A k \in 1 .. Len(M) : Ended(M[k])
  <1> SUFFICES ASSUME "discarded" \notin excused' PROVE PartInv' /\ All'
    BY DEF LineInv
  <1>0. next \in Nat /\ Len(typed) \in Nat /\ next <= Len(typed) + 1 /\ cmdidx \in Nat
    BY DEF Facts
  <1>1. CASE M' = M /\ cmd_buf' = cmd_buf /\ UNCHANGED next /\ UNCHANGED excused
             /\ UNCHANGED typed
    <2>1. PartInv /\ All
      BY <1>1 DEF LineInv
    <2>2. PartInv'
      BY <1>1, <2>1 DEF PartInv, cmdidx
    <2>3. All'
      BY <1>0, <1>1, <2>1, EndedAllStay
    <2> QED BY <2>2, <2>3
  <1>2. CASE ReadBytes /\ M' = M /\ cmd_buf' = cmd_buf
    <2>1. /\ next' = next /\ UNCHANGED excused
          /\ \A i \in 1 .. Len(typed) : typed'[i] = typed[i]
      BY <1>2, ReadEffect
    <2>2. PartInv /\ All
      BY <2>1 DEF LineInv
    <2>3. All'
      BY <1>0, <1>2, <2>1, <2>2, EndedAllStay
    <2>4. cmdidx' = cmdidx
      BY <1>2 DEF cmdidx
    <2>5. cmdidx < next /\ (next - cmdidx > 1 => typed'[next - cmdidx - 1] = "eol")
      <3>1. next - cmdidx > 1 => next - cmdidx - 1 \in 1 .. Len(typed)
        BY <1>0
      <3> QED BY <2>1, <2>2, <3>1 DEF PartInv
    <2>6. ASSUME NEW i \in 1 .. cmdidx
          PROVE  cmd_buf[i] = next - cmdidx + i - 1 /\ typed'[cmd_buf[i]] = "char"
      <3>1. cmd_buf[i] = next - cmdidx + i - 1 /\ typed[cmd_buf[i]] = "char" /\ cmdidx < next
        BY <2>2 DEF PartInv
      <3>2. cmd_buf[i] \in 1 .. Len(typed)
        BY <1>0, <3>1
      <3> QED BY <2>1, <3>1, <3>2
    <2>7. PartInv'
      BY <1>2, <2>1, <2>4, <2>5, <2>6 DEF PartInv
    <2> QED BY <2>3, <2>7
  <1>3. CASE CopyChar /\ M' = M
    <2>1. /\ next <= Len(typed) /\ typed[next] = "char" /\ next' = next + 1
          /\ cmd_buf' = Append(cmd_buf, next) /\ typed' = typed /\ excused' = excused
      BY <1>3 DEF CopyChar
    <2>2. PartInv /\ All
      BY <2>1 DEF LineInv
    <2>3. All'
      BY <1>0, <1>3, <2>1, <2>2, EndedAllStay
    <2>4. /\ cmdidx' = cmdidx + 1 /\ cmd_buf'[cmdidx + 1] = next
          /\ \A i \in 1 .. cmdidx : cmd_buf'[i] = cmd_buf[i]
      BY <2>1, PartsTyped DEF cmdidx
    <2>5. next' - cmdidx' = next - cmdidx /\ cmdidx' < next'
      BY <1>0, <2>1, <2>2, <2>4 DEF PartInv
    <2>6. ASSUME NEW i \in 1 .. cmdidx'
          PROVE  cmd_buf'[i] = next - cmdidx + i - 1 /\ typed[cmd_buf'[i]] = "char"
      <3>1. CASE i \in 1 .. cmdidx
        BY <2>2, <2>4, <3>1 DEF PartInv
      <3>2. CASE i = cmdidx + 1
        <4>1. cmd_buf'[i] = next /\ next - cmdidx + i - 1 = next
          BY <1>0, <2>4, <3>2
        <4> QED BY <2>1, <4>1
      <3> QED BY <1>0, <2>4, <3>1, <3>2
    <2>7. PartInv'
      <3>1. next - cmdidx > 1 => typed[next - cmdidx - 1] = "eol"
        BY <2>2 DEF PartInv
      <3> QED BY <2>1, <2>5, <2>6, <3>1 DEF PartInv
    <2> QED BY <2>3, <2>7
  <1>4. ASSUME EndOfLine
        PROVE  /\ next' = next + 1 /\ typed' = typed /\ PartInv /\ All /\ PartInv'
               /\ next' \in Nat /\ next <= next'
    <2>1. /\ next' = next + 1 /\ typed[next] = "eol" /\ cmd_buf' = <<>> /\ typed' = typed
      BY <1>4, EolEffect
    <2>2. "discarded" \notin excused
      BY <1>4, EolEffect
    <2>3. PartInv /\ All
      BY <2>2 DEF LineInv
    <2>4. cmdidx' = 0
      BY <2>1 DEF cmdidx
    <2>5. next' - cmdidx' - 1 = next /\ cmdidx' < next'
      BY <1>0, <2>1, <2>4
    <2>6. 1 .. cmdidx' = {}
      BY <2>4
    <2>7. PartInv'
      BY <2>1, <2>5, <2>6 DEF PartInv
    <2> QED BY <1>0, <2>1, <2>3, <2>7
  <1>5. CASE EndOfLine /\ M' = M
    <2>1. All'
      BY <1>0, <1>4, <1>5, EndedAllStay
    <2> QED BY <1>4, <1>5, <2>1
  <1>6. CASE EndOfLine /\ cmdidx > 0 /\ M' = Append(M, cmd_buf)
    <2>1. M \in Seq(Seq(Nat)) /\ cmd_buf \in Seq(Nat)
      BY PartsTyped
    <2>2. PICK b \in Seq(Nat) : b = cmd_buf
      BY <2>1
    <2>3. Ended(b)'
      BY <1>4, <1>6, <2>2, LineEnds
    <2>4. ASSUME NEW k \in 1 .. Len(M')
          PROVE  Ended(M[k])'
      <3>1. Len(M') = Len(M) + 1 /\ Len(M) \in Nat
        BY <1>6, <2>1
      <3>2. CASE k \in 1 .. Len(M)
        <4>1. PICK m \in Seq(Nat) : m = M[k]
          BY <3>2, MessageChars
        <4>2. Ended(m) /\ \A i \in 1 .. Len(m) : m[i] \in 1 .. Len(typed)
          BY <1>4, <1>6, <3>2, <4>1, MessageChars
        <4>3. Ended(m)'
          BY <1>4, <1>6, <4>2, EndedStays
        <4>4. M'[k] = m
          BY <1>6, <2>1, <3>2, <4>1
        <4> QED BY <4>3, <4>4
      <3>3. CASE k = Len(M) + 1
        <4>1. M'[k] = b
          BY <1>6, <2>1, <2>2, <3>3
        <4> QED BY <2>3, <4>1
      <3> QED BY <3>1, <3>2, <3>3
    <2> QED BY <1>4, <1>6, <2>4
  <1> QED BY <1>1, <1>2, <1>3, <1>5, <1>6, PartsStep

\* Until a read is discarded, every message uart_task() posts is exactly one
\* line as it was typed, and handle_request() gets it unchanged.
THEOREM UartMessagesAreLines == Spec => []MessagesAreLines
  <1>1. Init => LineInv
    <2> SUFFICES ASSUME Init PROVE LineInv
      OBVIOUS
    <2>1. Len(Messages) = 0 /\ cmdidx = 0 /\ next = 1
      BY DEF Init, Messages, cmdidx
    <2> QED BY <2>1 DEF LineInv, PartInv
  <1>2. Facts /\ LineInv /\ [Next]_vars => LineInv'
    BY LineStep
  <1>3. LineInv => MessagesAreLines
    BY DEF LineInv, MessagesAreLines, Ended
  <1> QED BY <1>1, <1>2, <1>3, FactsAlways, PTL DEF Spec
=============================================================================
