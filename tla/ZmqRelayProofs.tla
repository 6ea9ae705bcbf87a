--------------------------- MODULE ZmqRelayProofs ---------------------------
(***************************************************************************)
(* Theorems about ZmqRelay, for every high-water mark and every bound:     *)
(* nothing is lost while the client stays, and the relay is a LossyFifo.   *)
(***************************************************************************)
EXTENDS ZmqRelay, SequenceTheorems, TLAPS

-----------------------------------------------------------------------------
\* Sequences taken apart and put together.

LEMMA Singleton ==
  ASSUME NEW S, NEW e \in S
  PROVE  <<e>> \in Seq(S) /\ Len(<<e>>) = 1 /\ <<e>>[1] = e
OBVIOUS

\* Concatenation of sequences of numbers is associative.
LEMMA Associative == \A s, t, u \in Seq(Nat) : (s \o t) \o u = s \o (t \o u)
BY ConcatAssociative, SMTT(40)

\* A sequence is its head followed by its tail.
LEMMA HeadThenTail ==
  ASSUME NEW S, NEW s \in Seq(S), s # <<>>
  PROVE  /\ Head(s) \in S /\ Tail(s) \in Seq(S) /\ <<Head(s)>> \in Seq(S)
         /\ <<Head(s)>> \o Tail(s) = s
<1>1. Head(s) \in S /\ Tail(s) \in Seq(S) /\ Len(Tail(s)) = Len(s) - 1
      /\ \A i \in 1 .. Len(Tail(s)) : Tail(s)[i] = s[i + 1]
  BY HeadTailProperties
<1>2. <<Head(s)>> \in Seq(S) /\ Len(<<Head(s)>>) = 1 /\ <<Head(s)>>[1] = s[1]
  BY <1>1
<1>3. Len(s) \in Nat \ {0}
  BY EmptySeq
<1>4. <<Head(s)>> \o Tail(s) \in Seq(S) /\ Len(<<Head(s)>> \o Tail(s)) = Len(s)
  BY <1>1, <1>2, <1>3, ConcatProperties
<1>5. ASSUME NEW i \in 1 .. Len(s) PROVE (<<Head(s)>> \o Tail(s))[i] = s[i]
  BY <1>1, <1>2, <1>3, ConcatProperties
<1> QED
  BY <1>1, <1>2, <1>4, <1>5, SeqEqual

\* The head and the tail of a concatenation are those of its first part.
LEMMA HeadTailOfConcat ==
  ASSUME NEW S, NEW s \in Seq(S), NEW t \in Seq(S), s # <<>>
  PROVE  /\ s \o t # <<>> /\ Head(s \o t) = Head(s)
         /\ Tail(s \o t) = Tail(s) \o t
<1>1. Len(s) \in Nat \ {0} /\ Len(t) \in Nat
  BY EmptySeq, LenProperties
<1>2. s \o t \in Seq(S) /\ Len(s \o t) = Len(s) + Len(t)
      /\ \A i \in 1 .. Len(s) + Len(t) :
           (s \o t)[i] = IF i <= Len(s) THEN s[i] ELSE t[i - Len(s)]
  BY ConcatProperties
<1>3. s \o t # <<>>
  BY <1>1, <1>2, EmptySeq
<1>4. Tail(s) \in Seq(S) /\ Len(Tail(s)) = Len(s) - 1
      /\ \A i \in 1 .. Len(Tail(s)) : Tail(s)[i] = s[i + 1]
  BY HeadTailProperties
<1>5. Tail(s \o t) \in Seq(S) /\ Len(Tail(s \o t)) = Len(s) + Len(t) - 1
      /\ \A i \in 1 .. Len(Tail(s \o t)) : Tail(s \o t)[i] = (s \o t)[i + 1]
  BY <1>2, <1>3, HeadTailProperties
<1>6. Tail(s) \o t \in Seq(S) /\ Len(Tail(s) \o t) = Len(s) + Len(t) - 1
      /\ \A i \in 1 .. Len(Tail(s)) + Len(t) :
           (Tail(s) \o t)[i] = IF i <= Len(Tail(s)) THEN Tail(s)[i]
                                                   ELSE t[i - Len(Tail(s))]
  BY <1>1, <1>4, ConcatProperties
<1>7. ASSUME NEW i \in 1 .. Len(s) + Len(t) - 1
      PROVE  Tail(s \o t)[i] = (Tail(s) \o t)[i]
  BY <1>1, <1>2, <1>4, <1>5, <1>6
<1> QED
  BY <1>1, <1>2, <1>3, <1>5, <1>6, <1>7, SeqEqual

-----------------------------------------------------------------------------
\* Every variable keeps its type; in particular the relay holds one message
\* exactly while it is sending.
THEOREM TypeCorrect == Spec => []TypeOK
<1>1. Init => TypeOK
  <2> SUFFICES ASSUME Init PROVE TypeOK
    OBVIOUS
  <2>1. /\ tunnel \in Seq(1 .. readings) /\ held \in Seq(1 .. readings)
        /\ wire \in Seq(1 .. readings) /\ received \in Seq(1 .. readings)
        /\ Len(held) = 0
    BY EmptySeq, Zenon DEF Init
  <2>2. readings \in Nat /\ relay = "off" /\ departures \in Nat
    BY DEF Init
  <2>3. peer \in BOOLEAN
    BY Zenon DEF Init
  <2> QED
    BY <2>1, <2>2, <2>3 DEF TypeOK
<1>2. TypeOK /\ [Next]_vars => TypeOK'
  <2> SUFFICES ASSUME TypeOK, [Next]_vars PROVE TypeOK'
    OBVIOUS
  <2> USE DEF TypeOK
  <2>1. CASE MonitorSends
    <3>1. readings' \in Nat /\ 1 .. readings \subseteq 1 .. readings'
          /\ readings + 1 \in 1 .. readings'
      BY <2>1 DEF MonitorSends
    <3>2. /\ tunnel \in Seq(1 .. readings') /\ held \in Seq(1 .. readings')
          /\ wire \in Seq(1 .. readings') /\ received \in Seq(1 .. readings')
      BY <3>1, SeqMonotonic
    <3>3. tunnel' \in Seq(1 .. readings')
      BY <2>1, <3>1, <3>2 DEF MonitorSends
    <3> QED
      BY <2>1, <3>1, <3>2, <3>3 DEF MonitorSends
  <2>2. CASE RelayStarts
    BY <2>2 DEF RelayStarts
  <2>3. CASE RelayReceives
    <3>1. Head(tunnel) \in 1 .. readings /\ Tail(tunnel) \in Seq(1 .. readings)
      BY <2>3, HeadThenTail DEF RelayReceives
    <3>2. held' \in Seq(1 .. readings) /\ Len(held') = 1
      BY <2>3, <3>1, Singleton DEF RelayReceives
    <3> QED
      BY <2>3, <3>1, <3>2 DEF RelayReceives
  <2>4. CASE RelaySends
    <3>1. wire \o held \in Seq(1 .. readings)
      BY ConcatProperties
    <3>2. held' \in Seq(1 .. readings) /\ Len(held') = 0
      BY <2>4, EmptySeq DEF RelaySends
    <3> QED
      BY <2>4, <3>1, <3>2 DEF RelaySends
  <2>5. CASE ClientConnects
    BY <2>5 DEF ClientConnects
  <2>6. CASE ClientReceives
    <3>1. Head(wire) \in 1 .. readings /\ Tail(wire) \in Seq(1 .. readings)
      BY <2>6, HeadThenTail DEF ClientReceives
    <3>2. received' \in Seq(1 .. readings)
      BY <2>6, <3>1 DEF ClientReceives
    <3> QED
      BY <2>6, <3>1, <3>2 DEF ClientReceives
  <2>7. CASE ClientLeaves
    <3>1. wire' \in Seq(1 .. readings)
      BY <2>7, EmptySeq DEF ClientLeaves
    <3>2. peer' \in BOOLEAN
      BY <2>7, Zenon DEF ClientLeaves
    <3> QED
      BY <2>7, <3>1, <3>2 DEF ClientLeaves
  <2>8. CASE UNCHANGED vars
    BY <2>8 DEF vars
  <2> QED
    BY <2>1, <2>2, <2>3, <2>4, <2>5, <2>6, <2>7, <2>8 DEF Next
<1> QED
  BY <1>1, <1>2, PTL DEF Spec

\* What the type says, with one set for all the sequences.
LEMMA Sequences ==
  ASSUME TypeOK
  PROVE  /\ tunnel \in Seq(Nat) /\ held \in Seq(Nat) /\ wire \in Seq(Nat)
         /\ received \in Seq(Nat)
         /\ relay # "send" => held = <<>>
<1>1. 1 .. readings \subseteq Nat
  BY DEF TypeOK
<1>2. relay # "send" => held = <<>>
  BY EmptySeq DEF TypeOK
<1> QED
  BY <1>1, <1>2, SeqMonotonic DEF TypeOK

-----------------------------------------------------------------------------
\* The steps that move a message leave the readings under way, and those
\* behind the client's, as they are.
LEMMA RelayReceivesMoves ==
  ASSUME TypeOK, RelayReceives
  PROVE  wire' \o held' \o tunnel' = wire \o held \o tunnel
<1>1. held = <<>> /\ tunnel \in Seq(Nat) /\ wire \in Seq(Nat)
  BY Sequences DEF RelayReceives
<1>2. wire' = wire /\ held' = <<Head(tunnel)>> /\ tunnel' = Tail(tunnel)
      /\ tunnel # <<>>
  BY DEF RelayReceives
<1>3. held' \in Seq(Nat) /\ tunnel' \in Seq(Nat) /\ held' \o tunnel' = tunnel
  BY <1>1, <1>2, HeadThenTail
<1>4. (wire \o held') \o tunnel' = wire \o (held' \o tunnel')
  BY <1>1, <1>3, Associative, Zenon
<1>5. wire \o held = wire
  BY <1>1, ConcatEmptySeq
<1> QED
  BY <1>2, <1>3, <1>4, <1>5

LEMMA RelaySendsMoves ==
  ASSUME TypeOK, RelaySends
  PROVE  wire' \o held' \o tunnel' = wire \o held \o tunnel
<1>1. held \in Seq(Nat) /\ wire \in Seq(Nat) /\ wire \o held \in Seq(Nat)
  BY Sequences, ConcatProperties
<1>2. wire' = wire \o held /\ held' = <<>> /\ tunnel' = tunnel
  BY DEF RelaySends
<1>3. (wire \o held) \o <<>> = wire \o held
  BY <1>1, ConcatEmptySeq
<1> QED
  BY <1>2, <1>3

\* The queue that the relay implements.
Pending == wire \o held \o tunnel

LEMMA PendingType ==
  ASSUME TypeOK
  PROVE  /\ held \o tunnel \in Seq(Nat) /\ Pending \in Seq(Nat)
         /\ Pending = wire \o (held \o tunnel)
<1>1. tunnel \in Seq(Nat) /\ held \in Seq(Nat) /\ wire \in Seq(Nat)
  BY Sequences
<1>2. held \o tunnel \in Seq(Nat)
  BY <1>1, ConcatProperties
<1>3. wire \o (held \o tunnel) \in Seq(Nat)
  BY <1>1, <1>2, ConcatProperties
<1>4. (wire \o held) \o tunnel = wire \o (held \o tunnel)
  BY <1>1, ConcatAssociative, SMTT(40)
<1> QED
  BY <1>2, <1>3, <1>4 DEF Pending

\* A reading of the client is the first one of the queue.
LEMMA ClientTakesFirst ==
  ASSUME TypeOK, ClientReceives
  PROVE  /\ Pending # <<>> /\ Pending' = Tail(Pending)
         /\ received' = Append(received, Head(Pending))
<1> DEFINE rest == held \o tunnel
<1>1. /\ wire \in Seq(Nat) /\ rest \in Seq(Nat) /\ Pending = wire \o rest
      /\ held \in Seq(Nat) /\ tunnel \in Seq(Nat)
  BY Sequences, PendingType
<1>2. wire # <<>> /\ wire' = Tail(wire) /\ UNCHANGED <<held, tunnel>>
      /\ received' = Append(received, Head(wire))
  BY DEF ClientReceives
<1>3. wire' \in Seq(Nat)
  BY <1>1, <1>2, HeadThenTail
<1>4. Pending' = wire' \o rest
  <2>1. Pending' = (wire' \o held) \o tunnel
    BY <1>2 DEF Pending
  <2>2. (wire' \o held) \o tunnel = wire' \o (held \o tunnel)
    BY <1>1, <1>3, Associative, Zenon
  <2> QED
    BY <2>1, <2>2
<1> QED
  BY <1>1, <1>2, <1>4, HeadTailOfConcat

\* A reading of the monitor goes to the end of the queue.
LEMMA MonitorAddsLast ==
  ASSUME TypeOK, MonitorSends
  PROVE  Pending' = Append(Pending, readings + 1) /\ readings + 1 \in Nat
<1> DEFINE new == <<readings + 1>>
<1>1. /\ wire \in Seq(Nat) /\ held \in Seq(Nat) /\ tunnel \in Seq(Nat)
      /\ wire \o held \in Seq(Nat) /\ Pending \in Seq(Nat)
  BY Sequences, PendingType, ConcatProperties
<1>2. readings + 1 \in Nat /\ new \in Seq(Nat)
  BY Singleton DEF TypeOK
<1>3. Pending' = (wire \o held) \o Append(tunnel, readings + 1)
  BY DEF MonitorSends, Pending
<1>4. Append(tunnel, readings + 1) = tunnel \o new
  BY <1>1, <1>2, AppendIsConcat
<1>5. (wire \o held) \o (tunnel \o new) = ((wire \o held) \o tunnel) \o new
  BY <1>1, <1>2, Associative, ZenonT(40)
<1>6. Append(Pending, readings + 1) = Pending \o new
  BY <1>1, <1>2, AppendIsConcat
<1> HIDE DEF new
<1> QED
  BY <1>2, <1>3, <1>4, <1>5, <1>6 DEF Pending

-----------------------------------------------------------------------------
\* The first k readings.
Readings(k) == [n \in 1 .. k |-> n]

LEMMA OneMoreReading ==
  ASSUME NEW k \in Nat
  PROVE  Readings(k + 1) = Readings(k) \o <<k + 1>>
<1>1. Readings(k) \in Seq(Nat) /\ Len(Readings(k)) = k
      /\ Readings(k + 1) \in Seq(Nat) /\ Len(Readings(k + 1)) = k + 1
  BY DEF Readings
<1>2. Append(Readings(k), k + 1) \in Seq(Nat)
      /\ Len(Append(Readings(k), k + 1)) = k + 1
      /\ \A i \in 1 .. k + 1 :
           Append(Readings(k), k + 1)[i] = IF i <= k THEN Readings(k)[i] ELSE k + 1
  BY <1>1
<1>3. \A i \in 1 .. k + 1 : Append(Readings(k), k + 1)[i] = Readings(k + 1)[i]
  BY <1>2 DEF Readings
<1>4. Append(Readings(k), k + 1) = Readings(k + 1)
  BY <1>1, <1>2, <1>3, SeqEqual
<1>5. k + 1 \in Nat
  OBVIOUS
<1>6. Append(Readings(k), k + 1) = Readings(k) \o <<k + 1>>
  BY <1>1, <1>5, AppendIsConcat, Zenon
<1> QED
  BY <1>4, <1>6, Zenon

\* The readings received, and behind them those under way.
Stream == received \o Pending

LEMMA StreamForm ==
  ASSUME TypeOK
  PROVE  received \o wire \o held \o tunnel = Stream
<1>1. /\ received \in Seq(Nat) /\ wire \in Seq(Nat) /\ held \in Seq(Nat)
      /\ tunnel \in Seq(Nat) /\ wire \o held \in Seq(Nat)
  BY Sequences, ConcatProperties
<1>2. (received \o wire) \o held = received \o (wire \o held)
  BY <1>1, Associative, ZenonT(40)
<1>3. (received \o (wire \o held)) \o tunnel = received \o ((wire \o held) \o tunnel)
  BY <1>1, Associative, ZenonT(40)
<1> QED
  BY <1>2, <1>3 DEF Stream, Pending

\* Unless a client leaves, the stream only grows, by the reading sent.
LEMMA StreamGrows ==
  ASSUME TypeOK, Next, ~ClientLeaves
  PROVE  /\ departures' = departures
         /\ \/ Stream' = Stream /\ readings' = readings
            \/ Stream' = Stream \o <<readings + 1>> /\ readings' = readings + 1
<1>1. received \in Seq(Nat) /\ Pending \in Seq(Nat)
  BY Sequences, PendingType
<1>2. CASE MonitorSends
  <2>1. <<readings + 1>> \in Seq(Nat)
    BY <1>2, MonitorAddsLast, Singleton
  <2>2. Pending' = Pending \o <<readings + 1>>
    BY <1>1, <1>2, MonitorAddsLast, AppendIsConcat
  <2>3. received \o (Pending \o <<readings + 1>>) = (received \o Pending) \o <<readings + 1>>
    BY <1>1, <2>1, Associative, Zenon
  <2>4. received' = received /\ departures' = departures /\ readings' = readings + 1
    BY <1>2 DEF MonitorSends
  <2> QED
    BY <2>2, <2>3, <2>4 DEF Stream
<1>3. CASE RelayStarts \/ ClientConnects
  BY <1>3 DEF RelayStarts, ClientConnects, Stream, Pending
<1>4. CASE RelayReceives
  BY <1>4, RelayReceivesMoves DEF RelayReceives, Stream, Pending
<1>5. CASE RelaySends
  BY <1>5, RelaySendsMoves DEF RelaySends, Stream, Pending
<1>6. CASE ClientReceives
  <2>1. /\ Head(Pending) \in Nat /\ Tail(Pending) \in Seq(Nat)
        /\ <<Head(Pending)>> \in Seq(Nat)
        /\ <<Head(Pending)>> \o Tail(Pending) = Pending
    BY <1>1, <1>6, ClientTakesFirst, HeadThenTail
  <2>2. received' = received \o <<Head(Pending)>> /\ Pending' = Tail(Pending)
    BY <1>1, <1>6, <2>1, ClientTakesFirst, AppendIsConcat
  <2>3. (received \o <<Head(Pending)>>) \o Tail(Pending)
          = received \o (<<Head(Pending)>> \o Tail(Pending))
    BY <1>1, <2>1, Associative, Zenon
  <2>4. departures' = departures /\ readings' = readings
    BY <1>6 DEF ClientReceives
  <2> QED
    BY <2>1, <2>2, <2>3, <2>4 DEF Stream
<1> QED
  BY <1>2, <1>3, <1>4, <1>5, <1>6 DEF Next

\* While no client has left, the readings sent are those received followed by
\* those in the two queues and in the hands of the relay: no step of the
\* monitor, of zmqservice or of the client drops, repeats or reorders one.
THEOREM NothingIsLost == Spec => []NothingLost
<1> DEFINE Kept == departures = 0 => Stream = Readings(readings)
<1>1. Init => Kept
  <2> SUFFICES ASSUME Init PROVE Kept
    OBVIOUS
  <2>1. Stream = <<>> /\ readings = 0
    <3>1. <<>> \o <<>> = <<>>
      BY EmptySeq, ConcatEmptySeq
    <3> QED
      BY <3>1 DEF Init, Stream, Pending
  <2>2. Readings(0) = <<>>
    BY EmptySeq DEF Readings
  <2> QED
    BY <2>1, <2>2
<1>2. TypeOK /\ Kept /\ [Next]_vars => Kept'
  <2> SUFFICES ASSUME TypeOK, Kept, [Next]_vars PROVE Kept'
    OBVIOUS
  <2>1. CASE UNCHANGED vars
    BY <2>1 DEF vars, Stream, Pending
  <2>2. CASE ClientLeaves
    <3>1. departures' > 0
      BY <2>2 DEF ClientLeaves, TypeOK
    <3> QED
      BY <3>1
  <2>3. CASE Next /\ ~ClientLeaves
    <3>1. readings \in Nat
      BY DEF TypeOK
    <3> QED
      BY <2>3, <3>1, StreamGrows, OneMoreReading
  <2> QED
    BY <2>1, <2>2, <2>3
<1>3. TypeOK /\ Kept => NothingLost
  BY StreamForm DEF NothingLost, Readings
<1> QED
  BY <1>1, <1>2, <1>3, TypeCorrect, PTL DEF Spec

-----------------------------------------------------------------------------
\* Numbers that rise, up to k.
Rising(s, k) ==
  /\ s \in Seq(Nat) /\ k \in Nat
  /\ \A i \in 1 .. Len(s) : s[i] <= k
  /\ \A i, j \in 1 .. Len(s) : i < j => s[i] < s[j]

LEMMA RisingGrows ==
  ASSUME NEW s, NEW k, Rising(s, k)
  PROVE  Rising(s \o <<k + 1>>, k + 1)
<1>1. s \in Seq(Nat) /\ k \in Nat /\ k + 1 \in Nat /\ Len(s) \in Nat
  BY LenProperties DEF Rising
<1>2. s \o <<k + 1>> = Append(s, k + 1)
  BY <1>1, AppendIsConcat
<1>3. PICK t : t = Append(s, k + 1)
  OBVIOUS
<1>4. t \in Seq(Nat) /\ Len(t) = Len(s) + 1
      /\ \A i \in 1 .. Len(s) + 1 : t[i] = IF i <= Len(s) THEN s[i] ELSE k + 1
  BY <1>1, <1>3
<1>5. \A i \in 1 .. Len(s) : s[i] \in Nat
  BY <1>1
<1> DEFINE n == Len(s)
<1>S. /\ \A i \in 1 .. n : s[i] <= k /\ s[i] \in Nat
      /\ \A i, j \in 1 .. n : i < j => s[i] < s[j]
  BY <1>5 DEF Rising
<1>T. /\ \A i \in 1 .. n : t[i] = s[i]
      /\ t[n + 1] = k + 1 /\ Len(t) = n + 1 /\ n \in Nat
  BY <1>1, <1>4
<1> HIDE DEF n
<1>6. ASSUME NEW i \in 1 .. Len(t) PROVE t[i] <= k + 1
  <2>1. CASE i = n + 1
    BY <1>1, <1>T, <2>1
  <2>2. CASE i \in 1 .. n
    BY <1>1, <1>S, <1>T, <2>2
  <2> QED
    BY <1>T, <2>1, <2>2
<1>7. ASSUME NEW i \in 1 .. Len(t), NEW j \in 1 .. Len(t), i < j
      PROVE  t[i] < t[j]
  <2>1. i \in 1 .. n /\ t[i] = s[i] /\ s[i] <= k /\ s[i] \in Nat
    BY <1>S, <1>T, <1>7
  <2>2. CASE j \in 1 .. n
    BY <1>S, <1>T, <1>7, <2>1, <2>2
  <2>3. CASE j = n + 1
    BY <1>1, <1>T, <2>1, <2>3
  <2> QED
    BY <1>T, <2>2, <2>3
<1> QED
  BY <1>1, <1>2, <1>3, <1>4, <1>6, <1>7 DEF Rising

\* A part taken out of the middle leaves the rest rising.
LEMMA RisingWithout ==
  ASSUME NEW r \in Seq(Nat), NEW w \in Seq(Nat), NEW t \in Seq(Nat), NEW k,
         Rising(r \o (w \o t), k)
  PROVE  Rising(r \o t, k)
<1>1. Len(r) \in Nat /\ Len(w) \in Nat /\ Len(t) \in Nat /\ k \in Nat
  BY LenProperties DEF Rising
<1>2. PICK rest : rest = w \o t
  OBVIOUS
<1>3. rest \in Seq(Nat) /\ Len(rest) = Len(w) + Len(t)
      /\ \A i \in 1 .. Len(w) + Len(t) :
           rest[i] = IF i <= Len(w) THEN w[i] ELSE t[i - Len(w)]
  BY <1>2, ConcatProperties
<1>R. rest \in Seq(Nat) /\ Len(rest) \in Nat
  BY <1>3, LenProperties
<1>E. ASSUME NEW i \in 1 .. Len(t) PROVE rest[i + Len(w)] = t[i]
  <2>1. i + Len(w) \in 1 .. Len(w) + Len(t) /\ ~(i + Len(w) <= Len(w))
        /\ (i + Len(w)) - Len(w) = i
    BY <1>1
  <2> QED
    BY <1>3, <2>1
<1>4. PICK all, left : all = r \o rest /\ left = r \o t
  OBVIOUS
<1>5. Len(all) = Len(r) + Len(rest)
      /\ \A i \in 1 .. Len(r) + Len(rest) :
           all[i] = IF i <= Len(r) THEN r[i] ELSE rest[i - Len(r)]
  BY <1>R, <1>4, ConcatProperties
<1>6. left \in Seq(Nat) /\ Len(left) = Len(r) + Len(t)
      /\ \A i \in 1 .. Len(r) + Len(t) :
           left[i] = IF i <= Len(r) THEN r[i] ELSE t[i - Len(r)]
  BY <1>4, ConcatProperties
<1>7. /\ \A i \in 1 .. Len(all) : all[i] <= k
      /\ \A i, j \in 1 .. Len(all) : i < j => all[i] < all[j]
  BY <1>2, <1>4 DEF Rising
<1> DEFINE from(i) == IF i <= Len(r) THEN i ELSE i + Len(w)
<1>8. ASSUME NEW i \in 1 .. Len(left)
      PROVE  from(i) \in 1 .. Len(all) /\ left[i] = all[from(i)]
  <2>1. CASE i <= Len(r)
    <3>1. from(i) = i /\ left[i] = r[i] /\ i \in 1 .. Len(r)
      BY <1>1, <1>6, <2>1
    <3>2. i \in 1 .. Len(r) + Len(rest) /\ i \in 1 .. Len(all)
      BY <1>1, <1>R, <1>5, <3>1
    <3>3. all[i] = r[i]
      BY <1>5, <3>1, <3>2
    <3> QED
      BY <3>1, <3>2, <3>3
  <2>2. CASE i > Len(r)
    <3>1. i \in Len(r) + 1 .. Len(r) + Len(t) /\ i - Len(r) \in 1 .. Len(t)
      BY <1>1, <1>6, <2>2
    <3>2. from(i) = i + Len(w) /\ left[i] = t[i - Len(r)]
      BY <1>1, <1>6, <3>1
    <3>3. /\ i + Len(w) \in 1 .. Len(all) /\ i + Len(w) > Len(r)
          /\ (i + Len(w)) - Len(r) \in 1 .. Len(rest)
          /\ (i + Len(w)) - Len(r) = (i - Len(r)) + Len(w)
      BY <1>1, <1>3, <1>5, <3>1, SMTT(40)
    <3>4. all[i + Len(w)] = rest[(i + Len(w)) - Len(r)]
      <4>1. PICK j : j = i + Len(w)
        OBVIOUS
      <4>2. j \in 1 .. Len(r) + Len(rest) /\ ~ (j <= Len(r))
        BY <1>1, <1>5, <3>1, <3>3, <4>1
      <4>3. all[j] = rest[j - Len(r)]
        BY <1>5, <4>2
      <4> QED
        BY <4>1, <4>3
    <3>5. rest[(i + Len(w)) - Len(r)] = t[i - Len(r)]
      BY <1>E, <3>1, <3>3
    <3> QED
      BY <3>2, <3>3, <3>4, <3>5
  <2> QED
    BY <1>1, <1>6, <2>1, <2>2
<1>9. ASSUME NEW i \in 1 .. Len(left), NEW j \in 1 .. Len(left), i < j
      PROVE  from(i) < from(j)
  BY <1>1, <1>6, <1>9, SMTT(40)
<1> HIDE DEF from
<1>10. \A i \in 1 .. Len(left) : left[i] <= k
  BY <1>7, <1>8
<1>11. \A i, j \in 1 .. Len(left) : i < j => left[i] < left[j]
  BY <1>7, <1>8, <1>9
<1> QED
  BY <1>1, <1>4, <1>6, <1>10, <1>11 DEF Rising

\* Whether or not a client leaves, the readings it gets come in the order of the
\* monitor loop, and none twice.
ReceivedRise ==
  \A i \in DOMAIN received :
    /\ received[i] \in 1 .. readings
    /\ \A j \in DOMAIN received : i < j => received[i] < received[j]

LEMMA StreamStaysRising ==
  ASSUME TypeOK, Rising(Stream, readings), [Next]_vars
  PROVE  Rising(Stream, readings)'
<1>1. CASE UNCHANGED vars
  BY <1>1 DEF vars, Stream, Pending, Rising
<1>2. CASE ClientLeaves
  <2> DEFINE rest == held \o tunnel
  <2>1. /\ received \in Seq(Nat) /\ wire \in Seq(Nat) /\ rest \in Seq(Nat)
        /\ held \in Seq(Nat) /\ Pending = wire \o rest
    BY Sequences, PendingType
  <2>2. /\ received' = received /\ readings' = readings
        /\ wire' = <<>> /\ UNCHANGED <<held, tunnel>>
    BY <1>2 DEF ClientLeaves
  <2>3. <<>> \o held = held
    BY <2>1, ConcatEmptySeq
  <2>4. Stream' = received \o rest
    BY <2>2, <2>3 DEF Stream, Pending
  <2>5. Rising(received \o (wire \o rest), readings)
    BY <2>1 DEF Stream
  <2> HIDE DEF rest
  <2>6. Rising(received \o rest, readings)
    BY <2>1, <2>5, RisingWithout
  <2> QED
    BY <2>2, <2>4, <2>6 DEF Rising
<1>3. CASE Next /\ ~ClientLeaves
  <2>1. CASE Stream' = Stream /\ readings' = readings
    BY <2>1 DEF Rising
  <2>2. CASE Stream' = Stream \o <<readings + 1>> /\ readings' = readings + 1
    <3>1. Rising(Stream \o <<readings + 1>>, readings + 1)
      BY RisingGrows
    <3> QED
      BY <2>2, <3>1 DEF Rising
  <2> QED
    BY <1>3, <2>1, <2>2, StreamGrows
<1> QED
  BY <1>1, <1>2, <1>3

\* Whether or not clients leave, the readings received rise: they come in the
\* order of the monitor loop and none comes twice.
THEOREM ReceivedInOrder == Spec => []ReceivedRise
<1>1. Init => Rising(Stream, readings)
  <2> SUFFICES ASSUME Init PROVE Rising(Stream, readings)
    OBVIOUS
  <2>1. <<>> \o <<>> = <<>>
    BY EmptySeq, ConcatEmptySeq
  <2>2. Stream = <<>> /\ readings = 0
    BY <2>1 DEF Init, Stream, Pending
  <2>3. Stream \in Seq(Nat) /\ Len(Stream) = 0
    BY <2>2, EmptySeq
  <2> QED
    BY <2>2, <2>3 DEF Rising
<1>2. TypeOK /\ Rising(Stream, readings) /\ [Next]_vars => Rising(Stream, readings)'
  BY StreamStaysRising
<1>3. TypeOK /\ Rising(Stream, readings) => ReceivedRise
  <2> SUFFICES ASSUME TypeOK, Rising(Stream, readings) PROVE ReceivedRise
    OBVIOUS
  <2>1. received \in Seq(Nat) /\ Pending \in Seq(Nat) /\ <<>> \in Seq(Nat)
    BY Sequences, PendingType, EmptySeq
  <2>2. Pending \o <<>> = Pending /\ received \o <<>> = received
    BY <2>1, ConcatEmptySeq
  <2>3. Rising(received \o <<>>, readings)
    BY <2>1, <2>2, RisingWithout DEF Stream
  <2>4. Rising(received, readings)
    BY <2>2, <2>3
  <2>5. received \in Seq(1 .. readings)
    BY DEF TypeOK
  <2>6. DOMAIN received = 1 .. Len(received) /\ Len(received) \in Nat
        /\ \A i \in 1 .. Len(received) : received[i] \in 1 .. readings
    BY <2>5, LenProperties, ElementOfSeq
  <2> QED
    BY <2>4, <2>6 DEF Rising, ReceivedRise
<1> QED
  BY <1>1, <1>2, <1>3, TypeCorrect, PTL DEF Spec

-----------------------------------------------------------------------------
\* The message in the relay's hands is the first of those to be passed on.
LEMMA RelayPassesFirst ==
  ASSUME TypeOK, RelaySends
  PROVE  /\ held \o tunnel # <<>>
         /\ wire' = Append(wire, Head(held \o tunnel))
         /\ held' \o tunnel' = Tail(held \o tunnel)
<1>1. /\ held \in Seq(Nat) /\ tunnel \in Seq(Nat) /\ wire \in Seq(Nat)
      /\ Len(held) = 1
  BY Sequences DEF TypeOK, RelaySends
<1>2. wire' = wire \o held /\ held' = <<>> /\ tunnel' = tunnel
  BY DEF RelaySends
<1>3. held # <<>>
  <2>1. Len(held) # 0
    BY <1>1
  <2> QED
    BY <2>1, EmptySeq
<1>4. /\ held \o tunnel # <<>> /\ Head(held \o tunnel) = Head(held)
      /\ Tail(held \o tunnel) = Tail(held) \o tunnel
  BY <1>1, <1>3, HeadTailOfConcat
<1>5. /\ Head(held) \in Nat /\ Tail(held) \in Seq(Nat) /\ <<Head(held)>> \in Seq(Nat)
      /\ <<Head(held)>> \o Tail(held) = held
  BY <1>1, <1>3, HeadThenTail
<1>6. Tail(held) = <<>>
  <2>1. Len(Tail(held)) = 0
    BY <1>1, <1>3, HeadTailProperties
  <2> QED
    BY <1>5, <2>1, EmptySeq
<1>7. held = <<Head(held)>>
  BY <1>5, <1>6, ConcatEmptySeq
<1>8. wire' = Append(wire, Head(held))
  BY <1>1, <1>2, <1>5, <1>7, AppendIsConcat
<1>9. <<>> \o tunnel = tunnel
  BY <1>1, ConcatEmptySeq
<1> QED
  BY <1>2, <1>4, <1>6, <1>8, <1>9

\* The two bounded queues, the relay between them and a client that comes and
\* goes are a LossyFifo: each reading is passed on once, in order, to a client
\* that is connected, and only what is queued for a client that leaves is lost.
THEOREM ImplementsQueue == Spec => QueueSpec
<1>1. Init => Queue!Init
  <2> SUFFICES ASSUME Init PROVE Queue!Init
    OBVIOUS
  <2>1. <<>> \o <<>> = <<>>
    BY EmptySeq, ConcatEmptySeq
  <2>2. held \o tunnel = <<>>
    BY <2>1 DEF Init
  <2> QED
    BY <2>2 DEF Init, Queue!Init
<1>2. TypeOK /\ [Next]_vars => [Queue!Next]_(Queue!vars)
  <2> SUFFICES ASSUME TypeOK, [Next]_vars PROVE [Queue!Next]_(Queue!vars)
    OBVIOUS
  <2>1. CASE MonitorSends
    <3>1. /\ held \in Seq(Nat) /\ tunnel \in Seq(Nat) /\ held \o tunnel \in Seq(Nat)
          /\ readings + 1 \in Nat /\ <<readings + 1>> \in Seq(Nat)
      BY Sequences, ConcatProperties, Singleton DEF TypeOK
    <3>2. Append(tunnel, readings + 1) = tunnel \o <<readings + 1>>
      BY <3>1, AppendIsConcat
    <3>3. held \o (tunnel \o <<readings + 1>>) = (held \o tunnel) \o <<readings + 1>>
      BY <3>1, Associative, ZenonT(40)
    <3>4. Append(held \o tunnel, readings + 1) = (held \o tunnel) \o <<readings + 1>>
      BY <3>1, AppendIsConcat
    <3>5. held' = held /\ tunnel' = Append(tunnel, readings + 1)
      BY <2>1 DEF MonitorSends
    <3>6. held' \o tunnel' = Append(held \o tunnel, readings + 1)
      BY <3>2, <3>3, <3>4, <3>5
    <3>7. Queue!Send
      BY <2>1, <3>6 DEF MonitorSends, Queue!Send
    <3> QED
      BY <3>7 DEF Queue!Next
  <2>2. CASE RelayStarts \/ UNCHANGED vars
    BY <2>2 DEF RelayStarts, vars, Queue!vars
  <2>3. CASE RelayReceives
    <3>1. held = <<>> /\ tunnel \in Seq(Nat)
      BY <2>3, Sequences DEF RelayReceives
    <3>2. held' \o tunnel' = tunnel
      BY <2>3, <3>1, HeadThenTail DEF RelayReceives
    <3>3. held \o tunnel = tunnel
      BY <3>1, ConcatEmptySeq
    <3> QED
      BY <2>3, <3>2, <3>3 DEF RelayReceives, Queue!vars
  <2>4. CASE RelaySends
    <3>1. Queue!PassOn
      BY <2>4, RelayPassesFirst DEF RelaySends, Queue!PassOn
    <3> QED
      BY <3>1 DEF Queue!Next
  <2>5. CASE ClientConnects
    <3>1. Queue!Connect
      BY <2>5 DEF ClientConnects, Queue!Connect
    <3> QED
      BY <3>1 DEF Queue!Next
  <2>6. CASE ClientReceives
    <3>1. Queue!Deliver
      BY <2>6 DEF ClientReceives, Queue!Deliver
    <3> QED
      BY <3>1 DEF Queue!Next
  <2>7. CASE ClientLeaves
    <3>1. Queue!Leave
      BY <2>7 DEF ClientLeaves, Queue!Leave
    <3> QED
      BY <3>1 DEF Queue!Next
  <2> QED
    BY <2>1, <2>2, <2>3, <2>4, <2>5, <2>6, <2>7 DEF Next
<1> QED
  BY <1>1, <1>2, TypeCorrect, PTL DEF Spec, QueueSpec, Queue!Spec
=============================================================================
