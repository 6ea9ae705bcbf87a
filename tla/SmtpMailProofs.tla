--------------------------- MODULE SmtpMailProofs ---------------------------
(***************************************************************************)
(* Theorems about SmtpMail and the encoders it uses, for every set of      *)
(* files, any length of a line, any number of attachments and mails.       *)
(*                                                                         *)
(* First the facts about Codec that the mail needs: base64_decode inverts  *)
(* base64_encode, and the encodings of the lines, joined, are the encoding *)
(* of what the lines hold.  Then two inductive invariants: MailInv about   *)
(* the message while CreatMessage builds it and the file it has in hand,   *)
(* SendInv about the loop of SendMail.  Last the rest of Codec: the        *)
(* encodings of URLs are inverted, and the functions that shift an int     *)
(* compute what the others do.                                             *)
(*                                                                         *)
(* The least number principle takes the place of induction.                *)
(***************************************************************************)
EXTENDS SmtpMail, WellFoundedInduction, SequenceTheorems, TLAPS

-----------------------------------------------------------------------------
\* Numbers, recursive functions and sequences.

\* The least number principle.
LEMMA LeastNumber ==
  ASSUME NEW T, T \subseteq Nat, T # {}
  PROVE  \E x \in T : \A y \in T : x <= y
<1>1. PICK x \in T : \A y \in T : ~ (<<y, x>> \in OpToRel(<, Nat))
  BY WFMin, NatLessThanWellFounded
<1>2. \A y \in T : ~ (y < x)
  BY <1>1 DEF OpToRel
<1> QED
  BY <1>2

\* Induction for a set of numbers.
LEMMA Induction ==
  ASSUME NEW n \in Nat, NEW T, 0 \in T, \A i \in 1 .. n : i - 1 \in T => i \in T
  PROVE  \A i \in 0 .. n : i \in T
<1>1. PICK U : U = {i \in 0 .. n : i \notin T}
  OBVIOUS
<1>2. ASSUME U # {} PROVE FALSE
  <2>1. U \subseteq Nat
    BY <1>1
  <2>2. PICK x \in U : \A y \in U : x <= y
    BY <1>2, <2>1, LeastNumber
  <2>3. x \in 1 .. n /\ x - 1 \in 0 .. n
    BY <1>1, <2>2
  <2>4. x - 1 \notin U
    BY <2>2, <2>3
  <2> QED
    BY <1>1, <2>2, <2>3, <2>4
<1> QED
  BY <1>1, <1>2

\* What a recursive function needs to exist.
Solvable(n, V, a, step) ==
  \E h \in [0 .. n -> V] : h[0] = a /\ \A i \in 1 .. n : h[i] = step[i][h[i - 1]]

LEMMA Recursion ==
  ASSUME NEW n \in Nat, NEW V, NEW a \in V, NEW step,
         \A i \in 1 .. n : \A v \in V : step[i][v] \in V
  PROVE  Solvable(n, V, a, step)
<1>1. PICK T : T = {k \in 0 .. n : \E h \in [0 .. n -> V] :
                      h[0] = a /\ \A i \in 1 .. k : h[i] = step[i][h[i - 1]]}
  OBVIOUS
<1>2. 0 \in T
  <2>1. PICK h \in [0 .. n -> V] : h = [i \in 0 .. n |-> a]
    OBVIOUS
  <2>2. h[0] = a /\ \A i \in 1 .. 0 : h[i] = step[i][h[i - 1]]
    BY <2>1
  <2> QED
    BY <1>1, <2>2
<1>3. ASSUME NEW k \in 1 .. n, k - 1 \in T PROVE k \in T
  <2>1. PICK h \in [0 .. n -> V] :
          h[0] = a /\ \A i \in 1 .. k - 1 : h[i] = step[i][h[i - 1]]
    BY <1>1, <1>3
  <2>2. PICK v \in V : v = step[k][h[k - 1]]
    <3>1. k - 1 \in 0 .. n
      OBVIOUS
    <3>2. h[k - 1] \in V
      BY <3>1
    <3> QED
      BY <3>2
  <2>3. PICK g : g = [h EXCEPT ![k] = v]
    OBVIOUS
  <2>4. g \in [0 .. n -> V] /\ g[k] = v /\ \A i \in 0 .. k - 1 : g[i] = h[i]
    BY <2>3
  <2>5. ASSUME NEW i \in 1 .. k PROVE g[i] = step[i][g[i - 1]]
    <3>1. i - 1 \in 0 .. k - 1 /\ g[i - 1] = h[i - 1]
      BY <2>4
    <3>2. CASE i = k
      BY <2>2, <2>4, <3>1, <3>2
    <3>3. CASE i \in 1 .. k - 1
      BY <2>1, <2>4, <3>1, <3>3
    <3> QED
      BY <3>2, <3>3
  <2>6. g[0] = a
    BY <2>1, <2>4
  <2> QED
    BY <1>1, <2>4, <2>5, <2>6
<1>4. n \in T
  <2>1. \A k \in 1 .. n : k - 1 \in T => k \in T
    BY <1>3
  <2>2. \A k \in 0 .. n : k \in T
    BY <1>2, <2>1, Induction
  <2> QED
    BY <2>2
<1> QED
  BY <1>1, <1>4 DEF Solvable

\* Sequences.

LEMMA FunctionIsSeq ==
  ASSUME NEW S, NEW n \in Nat, NEW f \in [1 .. n -> S]
  PROVE  f \in Seq(S) /\ Len(f) = n
<1>1. f \in Seq(S)
  BY SeqDef
<1>2. 1 .. Len(f) = 1 .. n /\ Len(f) \in Nat
  BY <1>1, LenProperties
<1>3. ASSUME Len(f) < n PROVE FALSE
  BY <1>2, <1>3
<1>4. ASSUME n < Len(f) PROVE FALSE
  BY <1>2, <1>4
<1> QED
  BY <1>1, <1>2, <1>3, <1>4

LEMMA ConcatIs ==
  ASSUME NEW S, NEW s \in Seq(S), NEW t \in Seq(S)
  PROVE  /\ s \o t \in Seq(S) /\ Len(s \o t) = Len(s) + Len(t)
         /\ \A i \in 1 .. Len(s) : (s \o t)[i] = s[i]
         /\ \A i \in 1 .. Len(t) : (s \o t)[Len(s) + i] = t[i]
<1>1. Len(s) \in Nat /\ Len(t) \in Nat
  BY LenProperties
<1>2. /\ s \o t \in Seq(S) /\ Len(s \o t) = Len(s) + Len(t)
      /\ \A i \in 1 .. Len(s) + Len(t) :
           (s \o t)[i] = IF i <= Len(s) THEN s[i] ELSE t[i - Len(s)]
  BY ConcatProperties
<1>3. \A i \in 1 .. Len(s) : (s \o t)[i] = s[i]
  BY <1>1, <1>2
<1>4. ASSUME NEW i \in 1 .. Len(t) PROVE (s \o t)[Len(s) + i] = t[i]
  <2>1. /\ Len(s) + i \in 1 .. Len(s) + Len(t) /\ ~(Len(s) + i <= Len(s))
        /\ Len(s) + i - Len(s) = i
    BY <1>1
  <2> QED
    BY <1>2, <2>1
<1> QED
  BY <1>2, <1>3, <1>4

\* Numbers.

LEMMA DigitIsDigit ==
  ASSUME NEW a \in Byte, NEW b \in Byte, NEW c \in Byte, NEW p \in 0 .. 3
  PROVE  DigitOf(a, b, c, p) \in Digit
<1>1. p \in {0, 1, 2, 3}
  OBVIOUS
<1>2. a \div 4 \in Digit
  BY DEF Byte, Digit
<1>3. (a % 4) * 16 + b \div 16 \in Digit
  BY DEF Byte, Digit
<1>4. (b % 16) * 4 + c \div 64 \in Digit
  BY DEF Byte, Digit
<1>5. c % 64 \in Digit
  BY DEF Byte, Digit
<1> QED
  BY <1>1, <1>2, <1>3, <1>4, <1>5 DEF DigitOf

\* Four digits hold three bytes.
LEMMA BytesBack ==
  ASSUME NEW a \in Byte, NEW b \in Byte, NEW c \in Byte, NEW u, NEW v
  PROVE  /\ ByteOf(DigitOf(a, b, c, 0), DigitOf(a, b, c, 1), u, v, 0) = a
         /\ ByteOf(u, DigitOf(a, b, c, 1), DigitOf(a, b, c, 2), v, 1) = b
         /\ ByteOf(u, v, DigitOf(a, b, c, 2), DigitOf(a, b, c, 3), 2) = c
<1>1. ((a \div 4) * 4 + ((((a % 4) * 16 + b \div 16) \div 16) % 4)) % 256 = a
  BY DEF Byte
<1>2. ((((a % 4) * 16 + b \div 16) % 16) * 16
          + ((((b % 16) * 4 + c \div 64) \div 4) % 16)) % 256 = b
  <2>1. PICK x, y, z : x = a % 4 /\ y = b \div 16 /\ z = b % 16
    OBVIOUS
  <2>2. x \in 0 .. 3 /\ y \in 0 .. 15 /\ z \in 0 .. 15 /\ b = 16 * y + z
    BY <2>1 DEF Byte
  <2>3. (x * 16 + y) % 16 = y
    BY <2>2
  <2>4. c \div 64 \in 0 .. 3
    BY DEF Byte
  <2>5. ((z * 4 + c \div 64) \div 4) % 16 = z
    BY <2>2, <2>4
  <2> QED
    BY <2>1, <2>2, <2>3, <2>5
<1>3. ((((b % 16) * 4 + c \div 64) % 4) * 64 + (c % 64)) % 256 = c
  <2>1. PICK x, y, z : x = b % 16 /\ y = c \div 64 /\ z = c % 64
    OBVIOUS
  <2>2. x \in 0 .. 15 /\ y \in 0 .. 3 /\ z \in 0 .. 63 /\ c = 64 * y + z
    BY <2>1 DEF Byte
  <2>3. (x * 4 + y) % 4 = y
    BY <2>2
  <2>4. (y * 64 + z) % 256 = c
    BY <2>2
  <2>5. (((x * 4 + y) % 4) * 64 + z) % 256 = c
    BY <2>3, <2>4
  <2> QED
    BY <2>1, <2>5
<1>4. /\ DigitOf(a, b, c, 0) = a \div 4
      /\ DigitOf(a, b, c, 1) = (a % 4) * 16 + b \div 16
      /\ DigitOf(a, b, c, 2) = (b % 16) * 4 + c \div 64
      /\ DigitOf(a, b, c, 3) = c % 64
  BY DEF DigitOf
<1>5. \A w, x, y, z : /\ ByteOf(w, x, y, z, 0) = (w * 4 + ((x \div 16) % 4)) % 256
                      /\ ByteOf(w, x, y, z, 1) = ((x % 16) * 16 + ((y \div 4) % 16)) % 256
                      /\ ByteOf(w, x, y, z, 2) = ((y % 4) * 64 + z) % 256
  BY DEF ByteOf
<1>6. ByteOf(DigitOf(a, b, c, 0), DigitOf(a, b, c, 1), u, v, 0) = a
  BY <1>1, <1>4, <1>5
<1>7. ByteOf(u, DigitOf(a, b, c, 1), DigitOf(a, b, c, 2), v, 1) = b
  BY <1>2, <1>4, <1>5
<1>8. ByteOf(u, v, DigitOf(a, b, c, 2), DigitOf(a, b, c, 3), 2) = c
  <2>1. PICK y, z : y = DigitOf(a, b, c, 2) /\ z = DigitOf(a, b, c, 3)
    OBVIOUS
  <2>2. ByteOf(u, v, y, z, 2) = ((y % 4) * 64 + z) % 256
    BY <1>5
  <2>3. y = (b % 16) * 4 + c \div 64 /\ z = c % 64
    BY <1>4, <2>1
  <2> QED
    BY <1>3, <2>1, <2>2, <2>3
<1> QED
  BY <1>6, <1>7, <1>8

LEMMA DigitCount ==
  ASSUME NEW n \in Nat
  PROVE  /\ (8 * n + 5) \div 6 \in Nat
         /\ (8 * n + 5) \div 6 <= 4 * ((n + 2) \div 3)
         /\ (6 * ((8 * n + 5) \div 6)) \div 8 = n
         /\ \A k \in 1 .. n : 4 * ((k - 1) \div 3) + ((k - 1) % 3) + 1 < (8 * n + 5) \div 6
OBVIOUS

-----------------------------------------------------------------------------
\* base64.

LEMMA AtIs ==
  ASSUME NEW S, NEW s \in Seq(S), NEW k \in Nat, NEW x
  PROVE  /\ k < Len(s) => At(s, k, x) = s[k + 1] /\ At(s, k, x) \in S
         /\ k >= Len(s) => At(s, k, x) = x
         /\ x \in S => At(s, k, x) \in S
<1>1. Len(s) \in Nat /\ \A j \in 1 .. Len(s) : s[j] \in S
  BY LenProperties, ElementOfSeq
<1> QED
  BY <1>1 DEF At

\* The text that base64_encode returns.
LEMMA EncodedIs ==
  ASSUME NEW b \in Seq(Byte)
  PROVE  /\ base64_encode(b) \in Seq(Digit \union {Pad})
         /\ Len(base64_encode(b)) = 4 * ((Len(b) + 2) \div 3)
         /\ Digits(b) \in 0 .. Len(base64_encode(b))
         /\ \A k \in 1 .. Digits(b) : base64_encode(b)[k] \in Digit
         /\ \A k \in 1 .. Len(base64_encode(b)) :
              base64_encode(b)[k] =
                LET g == 3 * ((k - 1) \div 4) IN
                IF k > Digits(b) THEN Pad
                ELSE DigitOf(At(b, g, 0), At(b, g + 1, 0), At(b, g + 2, 0), (k - 1) % 4)
<1>1. PICK n \in Nat : n = Len(b)
  BY LenProperties
<1>2. PICK e : e = base64_encode(b)
  OBVIOUS
<1>3. PICK m : m = 4 * ((n + 2) \div 3)
  OBVIOUS
<1>4. m \in Nat /\ Digits(b) \in 0 .. m
  BY <1>1, <1>3, DigitCount DEF Digits
<1>5. e = [k \in 1 .. m |->
             LET g == 3 * ((k - 1) \div 4) IN
             IF k > Digits(b) THEN Pad
             ELSE DigitOf(At(b, g, 0), At(b, g + 1, 0), At(b, g + 2, 0), (k - 1) % 4)]
  BY <1>1, <1>2, <1>3 DEF base64_encode
<1>6. ASSUME NEW k \in 1 .. m, NEW g, g = 3 * ((k - 1) \div 4)
      PROVE  DigitOf(At(b, g, 0), At(b, g + 1, 0), At(b, g + 2, 0), (k - 1) % 4) \in Digit
  <2>1. g \in Nat /\ g + 1 \in Nat /\ g + 2 \in Nat /\ (k - 1) % 4 \in 0 .. 3
    BY <1>4, <1>6
  <2>2. 0 \in Byte
    BY DEF Byte
  <2>3. At(b, g, 0) \in Byte /\ At(b, g + 1, 0) \in Byte /\ At(b, g + 2, 0) \in Byte
    BY <2>1, <2>2, AtIs
  <2> QED
    BY <2>1, <2>3, DigitIsDigit
<1>7. \A k \in 1 .. m : /\ k <= Digits(b) => e[k] \in Digit
                        /\ e[k] \in Digit \union {Pad}
  <2> TAKE k \in 1 .. m
  <2>1. PICK v : v = LET g == 3 * ((k - 1) \div 4)
                     IN  DigitOf(At(b, g, 0), At(b, g + 1, 0), At(b, g + 2, 0), (k - 1) % 4)
    OBVIOUS
  <2>2. v \in Digit
    BY <1>6, <2>1
  <2>3. e[k] = IF k > Digits(b) THEN Pad ELSE v
    BY <1>5, <2>1
  <2>4. k \in Int /\ Digits(b) \in Int
    BY <1>4
  <2> QED
    BY <2>2, <2>3, <2>4
<1>8. e \in Seq(Digit \union {Pad}) /\ Len(e) = m
  <2>1. e \in [1 .. m -> Digit \union {Pad}]
    BY <1>5, <1>7
  <2> QED
    BY <1>4, <2>1, FunctionIsSeq
<1> QED
  BY <1>1, <1>2, <1>3, <1>4, <1>5, <1>7, <1>8

\* A text ends in one place.
LEMMA ValidIs ==
  ASSUME NEW text, NEW n, Ended(text, n), Len(text) \in Nat
  PROVE  Valid(text) = n
<1>1. ASSUME NEW i, Ended(text, i), NEW j, Ended(text, j), i < j PROVE FALSE
  <2>1. i \in 0 .. Len(text) /\ j \in 0 .. Len(text)
    BY <1>1 DEF Ended
  <2>2. i + 1 \in 1 .. j
    BY <1>1, <2>1
  <2>3. text[i + 1] \in Digit
    BY <1>1, <2>2 DEF Ended
  <2>4. i < Len(text)
    BY <1>1, <2>1
  <2> QED
    BY <1>1, <2>3, <2>4 DEF Ended
<1>2. n \in 0 .. Len(text)
  BY DEF Ended
<1>3. PICK v : v = Valid(text)
  OBVIOUS
<1>4. v \in 0 .. Len(text) /\ Ended(text, v)
  BY <1>2, <1>3, Zenon DEF Valid
<1>5. ~(v < n) /\ ~(n < v)
  BY <1>1, <1>4
<1> QED
  BY <1>2, <1>3, <1>4, <1>5

\* base64_decode inverts base64_encode.
LEMMA DecodeInvertsEncode ==
  ASSUME NEW b \in Seq(Byte)
  PROVE  base64_decode(base64_encode(b)) = b
<1>1. PICK n \in Nat : n = Len(b)
  BY LenProperties
<1>2. PICK e : e = base64_encode(b)
  OBVIOUS
<1>3. PICK d : d = Digits(b)
  OBVIOUS
<1>4. d = (8 * n + 5) \div 6 /\ d \in Nat /\ (6 * d) \div 8 = n
  BY <1>1, <1>3, DigitCount DEF Digits
<1>5. /\ e \in Seq(Digit \union {Pad}) /\ Len(e) \in Nat /\ d \in 0 .. Len(e)
      /\ \A k \in 1 .. d : e[k] \in Digit
  BY <1>2, <1>3, EncodedIs, LenProperties
<1>6. \A k \in 1 .. Len(e) :
        e[k] = LET g == 3 * ((k - 1) \div 4) IN
               IF k > d THEN Pad
               ELSE DigitOf(At(b, g, 0), At(b, g + 1, 0), At(b, g + 2, 0), (k - 1) % 4)
  BY <1>2, <1>3, EncodedIs
<1>7. Valid(e) = d
  <2>1. ASSUME d < Len(e) PROVE e[d + 1] = Pad
    <3>1. d + 1 \in 1 .. Len(e) /\ d + 1 > d
      BY <1>4, <1>5, <2>1
    <3> QED
      BY <1>6, <3>1
  <2>2. Pad \notin Digit
    BY DEF Digit, Pad
  <2>3. Ended(e, d)
    BY <1>5, <2>1, <2>2 DEF Ended
  <2> QED
    BY <1>5, <2>3, ValidIs
<1>8. PICK s : s = SubSeq(e, 1, d)
  OBVIOUS
<1>9. s \in Seq(Digit \union {Pad}) /\ Len(s) = d /\ \A k \in 1 .. d : s[k] = e[k]
  BY <1>5, <1>8, SubSeqProperties
<1>10. PICK f : f = base64_decode(e)
  OBVIOUS
<1>11. f = [k \in 1 .. n |->
              LET g == 4 * ((k - 1) \div 3)
              IN  ByteOf(At(s, g, Npos), At(s, g + 1, Npos), At(s, g + 2, Npos),
                         At(s, g + 3, Npos), (k - 1) % 3)]
  BY <1>4, <1>7, <1>8, <1>10 DEF base64_decode
<1>12. ASSUME NEW k \in 1 .. n PROVE f[k] = b[k]
  <2>1. PICK t, p : t = (k - 1) \div 3 /\ p = (k - 1) % 3
    OBVIOUS
  <2>2. t \in Nat /\ p \in 0 .. 2 /\ k = 3 * t + p + 1
    BY <2>1
  <2>3. 4 * t + p + 1 < d
    <3>1. 4 * ((k - 1) \div 3) + ((k - 1) % 3) + 1 < (8 * n + 5) \div 6
      BY DigitCount
    <3> QED
      BY <1>4, <2>1, <3>1
  <2>4. PICK x, y, z : x = At(b, 3 * t, 0) /\ y = At(b, 3 * t + 1, 0) /\ z = At(b, 3 * t + 2, 0)
    OBVIOUS
  <2>5. x \in Byte /\ y \in Byte /\ z \in Byte
    <3>1. 3 * t \in Nat /\ 3 * t + 1 \in Nat /\ 3 * t + 2 \in Nat /\ 0 \in Byte
      BY <2>2 DEF Byte
    <3> QED
      BY <2>4, <3>1, AtIs
  <2>6. ASSUME NEW i \in 0 .. 3, i <= p + 1
        PROVE  At(s, 4 * t + i, Npos) = DigitOf(x, y, z, i)
    <3>1. PICK j : j = 4 * t + i + 1
      OBVIOUS
    <3>2. 4 * t + i \in Nat /\ 4 * t + i < d /\ j \in 1 .. d /\ j \in 1 .. Len(e)
      BY <1>4, <1>5, <2>2, <2>3, <2>6, <3>1
    <3>3. At(s, 4 * t + i, Npos) = e[j]
      BY <1>9, <3>1, <3>2 DEF At
    <3>4. (j - 1) \div 4 = t /\ (j - 1) % 4 = i /\ ~(j > d)
      BY <1>4, <2>2, <3>1, <3>2
    <3>5. e[j] = DigitOf(At(b, 3 * t, 0), At(b, 3 * t + 1, 0), At(b, 3 * t + 2, 0), i)
      BY <1>6, <3>2, <3>4
    <3> QED
      BY <2>4, <3>3, <3>5
  <2>7. f[k] = ByteOf(At(s, 4 * t, Npos), At(s, 4 * t + 1, Npos), At(s, 4 * t + 2, Npos),
                      At(s, 4 * t + 3, Npos), p)
    BY <1>11, <2>1
  <2>8. CASE p = 0
    <3>1. At(s, 4 * t, Npos) = DigitOf(x, y, z, 0) /\ At(s, 4 * t + 1, Npos) = DigitOf(x, y, z, 1)
      <4>1. 4 * t = 4 * t + 0
        BY <2>2
      <4> QED
        BY <2>6, <2>8, <4>1
    <3>2. f[k] = x
      BY <2>5, <2>7, <2>8, <3>1, BytesBack
    <3>3. x = b[k]
      BY <1>1, <2>2, <2>4, <2>8 DEF At
    <3> QED
      BY <3>2, <3>3
  <2>9. CASE p = 1
    <3>1. At(s, 4 * t + 1, Npos) = DigitOf(x, y, z, 1) /\ At(s, 4 * t + 2, Npos) = DigitOf(x, y, z, 2)
      BY <2>6, <2>9
    <3>2. f[k] = y
      BY <2>5, <2>7, <2>9, <3>1, BytesBack
    <3>3. y = b[k]
      BY <1>1, <2>2, <2>4, <2>9 DEF At
    <3> QED
      BY <3>2, <3>3
  <2>10. CASE p = 2
    <3>1. At(s, 4 * t + 2, Npos) = DigitOf(x, y, z, 2) /\ At(s, 4 * t + 3, Npos) = DigitOf(x, y, z, 3)
      BY <2>6, <2>10
    <3>2. f[k] = z
      BY <2>5, <2>7, <2>10, <3>1, BytesBack
    <3>3. z = b[k]
      BY <1>1, <2>2, <2>4, <2>10 DEF At
    <3> QED
      BY <3>2, <3>3
  <2> QED
    BY <2>2, <2>8, <2>9, <2>10
<1>13. f = b
  <2>1. b = [k \in 1 .. n |-> b[k]]
    BY <1>1, LenProperties
  <2> QED
    BY <1>11, <1>12, <2>1
<1> QED
  BY <1>2, <1>10, <1>13

\* Whole groups of three bytes are encoded on their own.
LEMMA EncodeAppends ==
  ASSUME NEW x \in Seq(Byte), NEW y \in Seq(Byte), NEW q \in Nat, Len(x) = 3 * q
  PROVE  base64_encode(x \o y) = base64_encode(x) \o base64_encode(y)
<1>1. PICK m \in Nat : m = Len(y)
  BY LenProperties
<1>2. PICK z : z = x \o y
  OBVIOUS
<1>3. /\ z \in Seq(Byte) /\ Len(z) = 3 * q + m
      /\ \A i \in 1 .. 3 * q : z[i] = x[i]
      /\ \A i \in 1 .. m : z[3 * q + i] = y[i]
  <2>1. PICK s \in Seq(Byte), t \in Seq(Byte) : s = x /\ t = y
    OBVIOUS
  <2>2. /\ s \o t \in Seq(Byte) /\ Len(s \o t) = Len(s) + Len(t)
        /\ \A i \in 1 .. Len(s) : (s \o t)[i] = s[i]
        /\ \A i \in 1 .. Len(t) : (s \o t)[Len(s) + i] = t[i]
    BY ConcatIs
  <2> QED
    BY <1>1, <1>2, <2>1, <2>2
<1>4. PICK e, f, h : e = base64_encode(x) /\ f = base64_encode(y) /\ h = base64_encode(z)
  OBVIOUS
<1>5. PICK w \in Nat : w = 4 * ((m + 2) \div 3)
  BY <1>1
<1>6. /\ e \in Seq(Digit \union {Pad}) /\ f \in Seq(Digit \union {Pad})
      /\ h \in Seq(Digit \union {Pad})
  BY <1>3, <1>4, EncodedIs
<1>7. Len(e) = 4 * q /\ Len(f) = w /\ Len(h) = 4 * q + w
  <2>1. /\ Len(e) = 4 * ((3 * q + 2) \div 3) /\ Len(f) = 4 * ((m + 2) \div 3)
        /\ Len(h) = 4 * ((3 * q + m + 2) \div 3)
    BY <1>1, <1>3, <1>4, EncodedIs
  <2>2. (3 * q + 2) \div 3 = q /\ (3 * q + m + 2) \div 3 = q + (m + 2) \div 3
    BY <1>1
  <2> QED
    BY <1>5, <2>1, <2>2
<1>8. /\ Digits(x) = 4 * q /\ Digits(z) = 4 * q + Digits(y) /\ Digits(y) \in Nat
  <2>1. /\ (8 * (3 * q) + 5) \div 6 = 4 * q
        /\ (8 * (3 * q + m) + 5) \div 6 = 4 * q + (8 * m + 5) \div 6
        /\ (8 * m + 5) \div 6 \in Nat
    BY <1>1
  <2> QED
    BY <1>1, <1>3, <2>1 DEF Digits
<1>9. ASSUME NEW k \in 1 .. 4 * q PROVE h[k] = e[k]
  <2>1. PICK g : g = 3 * ((k - 1) \div 4)
    OBVIOUS
  <2>2. g \in Nat /\ g + 2 < 3 * q /\ k \in 1 .. Len(h) /\ k \in 1 .. Len(e)
    BY <1>5, <1>7, <2>1
  <2>3. /\ At(z, g, 0) = At(x, g, 0) /\ At(z, g + 1, 0) = At(x, g + 1, 0)
        /\ At(z, g + 2, 0) = At(x, g + 2, 0)
    BY <1>1, <1>3, <2>2 DEF At
  <2>4. ~(k > Digits(x)) /\ ~(k > Digits(z))
    BY <1>8
  <2>5. e[k] = DigitOf(At(x, g, 0), At(x, g + 1, 0), At(x, g + 2, 0), (k - 1) % 4)
    BY <1>4, <2>1, <2>2, <2>4, EncodedIs
  <2>6. h[k] = DigitOf(At(z, g, 0), At(z, g + 1, 0), At(z, g + 2, 0), (k - 1) % 4)
    BY <1>3, <1>4, <2>1, <2>2, <2>4, EncodedIs
  <2> QED
    BY <2>3, <2>5, <2>6
<1>10. ASSUME NEW j \in 1 .. w PROVE h[4 * q + j] = f[j]
  <2>1. PICK g : g = 3 * ((j - 1) \div 4)
    OBVIOUS
  <2>2. PICK k : k = 4 * q + j
    OBVIOUS
  <2>3. /\ g \in Nat /\ k \in 1 .. Len(h) /\ j \in 1 .. Len(f)
        /\ 3 * ((k - 1) \div 4) = 3 * q + g /\ (k - 1) % 4 = (j - 1) % 4
    BY <1>5, <1>7, <2>1, <2>2
  <2>4. /\ At(z, 3 * q + g, 0) = At(y, g, 0) /\ At(z, 3 * q + g + 1, 0) = At(y, g + 1, 0)
        /\ At(z, 3 * q + g + 2, 0) = At(y, g + 2, 0)
    <3>1. ASSUME NEW c \in {0, 1, 2}
          PROVE  At(z, 3 * q + g + c, 0) = At(y, g + c, 0)
      <4>1. PICK i \in Nat : i = g + c
        BY <2>3
      <4>2. 3 * q + g + c = 3 * q + i /\ (3 * q + i < 3 * q + m <=> i < m)
        BY <2>3, <4>1, <1>1
      <4>3. i < m => z[3 * q + i + 1] = y[i + 1]
        <5> SUFFICES ASSUME i < m PROVE z[3 * q + i + 1] = y[i + 1]
          OBVIOUS
        <5>1. i + 1 \in 1 .. m /\ 3 * q + i + 1 = 3 * q + (i + 1)
          BY <4>1, <1>1
        <5> QED
          BY <1>3, <5>1
      <4>4. At(z, 3 * q + i, 0) = At(y, i, 0)
        BY <1>1, <1>3, <4>2, <4>3 DEF At
      <4> QED
        BY <4>1, <4>2, <4>4
    <3>2. 3 * q + g + 0 = 3 * q + g /\ g + 0 = g
      BY <2>3
    <3> QED
      BY <3>1, <3>2
  <2>5. k > Digits(z) <=> j > Digits(y)
    BY <1>5, <1>8, <2>2
  <2>6. f[j] = IF j > Digits(y) THEN Pad
               ELSE DigitOf(At(y, g, 0), At(y, g + 1, 0), At(y, g + 2, 0), (j - 1) % 4)
    BY <1>4, <2>1, <2>3, EncodedIs
  <2>7. PICK u : u = 3 * ((k - 1) \div 4)
    OBVIOUS
  <2>8. h[k] = IF k > Digits(z) THEN Pad
               ELSE DigitOf(At(z, u, 0), At(z, u + 1, 0), At(z, u + 2, 0), (k - 1) % 4)
    BY <1>3, <1>4, <2>7, <2>3, EncodedIs
  <2> QED
    BY <2>2, <2>3, <2>4, <2>5, <2>6, <2>7, <2>8
<1>11. PICK r : r = e \o f
  OBVIOUS
<1>12. /\ r \in Seq(Digit \union {Pad}) /\ Len(r) = 4 * q + w
       /\ \A k \in 1 .. 4 * q : r[k] = e[k]
       /\ \A j \in 1 .. w : r[4 * q + j] = f[j]
  <2>1. /\ e \o f \in Seq(Digit \union {Pad}) /\ Len(e \o f) = Len(e) + Len(f)
        /\ \A i \in 1 .. Len(e) : (e \o f)[i] = e[i]
        /\ \A i \in 1 .. Len(f) : (e \o f)[Len(e) + i] = f[i]
    BY <1>6, ConcatIs
  <2> QED
    BY <1>7, <1>11, <2>1
<1>13. ASSUME NEW k \in 1 .. 4 * q + w PROVE h[k] = r[k]
  <2>1. CASE k <= 4 * q
    BY <1>9, <1>12, <2>1
  <2>2. CASE k > 4 * q
    <3>1. PICK j \in 1 .. w : k = 4 * q + j
      <4>1. k - 4 * q \in 1 .. w /\ k = 4 * q + (k - 4 * q)
        BY <1>5, <2>2
      <4> QED
        BY <4>1
    <3> QED
      BY <1>10, <1>12, <3>1
  <2> QED
    BY <2>1, <2>2
<1>14. h = r
  BY <1>6, <1>7, <1>12, <1>13, SeqEqual, SMTT(40)
<1> QED
  BY <1>2, <1>4, <1>11, <1>14
\* The texts that Joined puts together.
JoinedByOne(S, pieces) ==
  \E u \in [0 .. Len(pieces) -> Seq(S)] :
    /\ u[0] = <<>> /\ Joined(pieces) = u[Len(pieces)]
    /\ \A i \in 1 .. Len(pieces) : u[i] = u[i - 1] \o pieces[i]

LEMMA JoinedIs ==
  ASSUME NEW S, NEW pieces \in Seq(Seq(S)) PROVE JoinedByOne(S, pieces)
<1>1. PICK n \in Nat : n = Len(pieces)
  BY LenProperties
<1>2. PICK V : V = Seq(S)
  OBVIOUS
<1>3. PICK step : step = [i \in 1 .. n |-> [s \in V |-> s \o pieces[i]]]
  OBVIOUS
<1>4. \A i \in 1 .. n : \A s \in V : step[i][s] \in V
  <2>1. ASSUME NEW i \in 1 .. n, NEW s \in V PROVE s \o pieces[i] \in V
    BY <1>1, <1>2, ElementOfSeq, ConcatIs
  <2> QED
    BY <1>3, <2>1
<1>5. <<>> \in V
  BY <1>2
<1>6. PICK h \in [0 .. n -> V] :
        h[0] = <<>> /\ \A i \in 1 .. n : h[i] = step[i][h[i - 1]]
  <2>1. PICK a \in V : a = <<>>
    BY <1>5
  <2>2. Solvable(n, V, a, step)
    BY <1>4, Recursion
  <2> QED
    BY <2>1, <2>2 DEF Solvable
<1>7. ASSUME NEW i \in 1 .. n PROVE h[i] = h[i - 1] \o pieces[i]
  <2>1. i - 1 \in 0 .. n
    OBVIOUS
  <2>2. h[i - 1] \in V
    BY <1>6, <2>1
  <2> QED
    BY <1>3, <1>6, <2>2
<1>8. h = [i \in 0 .. n |-> IF i = 0 THEN <<>> ELSE h[i - 1] \o pieces[i]]
  <2>1. \A i \in 0 .. n : h[i] = IF i = 0 THEN <<>> ELSE h[i - 1] \o pieces[i]
    <3> TAKE i \in 0 .. n
    <3>1. i = 0 \/ i \in 1 .. n
      OBVIOUS
    <3> QED
      BY <1>6, <1>7, <3>1
  <2>2. h = [i \in 0 .. n |-> h[i]]
    BY <1>6
  <2> QED
    BY <2>1, <2>2
<1>9. PICK u : u = CHOOSE g : g = [i \in 0 .. Len(pieces) |->
                                     IF i = 0 THEN <<>> ELSE g[i - 1] \o pieces[i]]
  OBVIOUS
<1>10. u = [i \in 0 .. Len(pieces) |-> IF i = 0 THEN <<>> ELSE u[i - 1] \o pieces[i]]
  BY <1>1, <1>8, <1>9, Zenon
<1>11. Joined(pieces) = u[Len(pieces)]
  BY <1>9, Zenon DEF Joined
<1>12. \A i \in 1 .. n : u[i] = u[i - 1] \o pieces[i]
  <2>1. \A i \in 0 .. n : u[i] = IF i = 0 THEN <<>> ELSE u[i - 1] \o pieces[i]
    BY <1>1, <1>10
  <2> TAKE i \in 1 .. n
  <2>2. i \in 0 .. n /\ i # 0
    OBVIOUS
  <2> QED
    BY <2>1, <2>2
<1>13. u[0] = <<>>
  BY <1>1, <1>10
<1>14. \A i \in 0 .. n : u[i] = h[i]
  <2>1. PICK T : T = {i \in 0 .. n : u[i] = h[i]}
    OBVIOUS
  <2>2. 0 \in T
    <3>1. 0 \in 0 .. n /\ u[0] = h[0]
      BY <1>6, <1>13
    <3> QED
      BY <2>1, <3>1
  <2>3. ASSUME NEW i \in 1 .. n, i - 1 \in T PROVE i \in T
    <3>1. u[i - 1] = h[i - 1] /\ i \in 0 .. n
      BY <2>1, <2>3
    <3>2. u[i] = h[i]
      BY <1>7, <1>12, <3>1
    <3> QED
      BY <2>1, <3>1, <3>2
  <2>4. \A i \in 0 .. n : i \in T
    BY <2>2, <2>3, Induction
  <2> QED
    BY <2>1, <2>4
<1>15. u \in [0 .. n -> V]
  BY <1>1, <1>6, <1>10, <1>14
<1> QED
  BY <1>1, <1>2, <1>11, <1>12, <1>13, <1>15 DEF JoinedByOne

\* The beginning of a file, up to the m-th byte.
Front(b, m) == SubSeq(b, 1, IF m <= Len(b) THEN m ELSE Len(b))

LEMMA FrontIs ==
  ASSUME NEW b \in Seq(Byte), NEW m \in Nat
  PROVE  /\ Front(b, m) \in Seq(Byte)
         /\ Len(Front(b, m)) = (IF m <= Len(b) THEN m ELSE Len(b))
         /\ Len(Front(b, m)) \in 0 .. Len(b)
         /\ \A i \in 1 .. Len(Front(b, m)) : Front(b, m)[i] = b[i]
         /\ m >= Len(b) => Front(b, m) = b
<1>1. Len(b) \in Nat /\ \A i \in 1 .. Len(b) : b[i] \in Byte
  BY LenProperties, ElementOfSeq
<1>2. PICK k \in 0 .. Len(b) : k = IF m <= Len(b) THEN m ELSE Len(b)
  BY <1>1
<1>3. \A i \in 1 .. k : b[i] \in Byte
  BY <1>1
<1>4. PICK f : f = SubSeq(b, 1, k)
  OBVIOUS
<1>5. /\ f \in Seq(Byte) /\ Len(f) = (IF 1 <= k THEN k - 1 + 1 ELSE 0)
      /\ \A i \in 1 .. k - 1 + 1 : f[i] = b[1 + i - 1]
  BY <1>1, <1>2, <1>3, <1>4, SubSeqProperties
<1>6. Len(f) = k /\ \A i \in 1 .. k : f[i] = b[i]
  BY <1>1, <1>2, <1>5
<1>7. f = Front(b, m)
  BY <1>2, <1>4 DEF Front
<1>8. m >= Len(b) => f = b
  BY <1>1, <1>2, <1>5, <1>6, SeqEqual
<1> QED
  BY <1>1, <1>2, <1>5, <1>6, <1>7, <1>8

LEMMA EncodeOfNothing == base64_encode(<<>>) = <<>>
<1>1. <<>> \in Seq(Byte) /\ Len(<<>>) = 0
  BY EmptySeq
<1>2. PICK e : e = base64_encode(<<>>)
  OBVIOUS
<1>3. e \in Seq(Digit \union {Pad}) /\ Len(e) = 4 * ((0 + 2) \div 3)
  BY <1>1, <1>2, EncodedIs
<1>4. Len(e) = 0
  BY <1>3
<1>5. e = <<>>
  BY <1>3, <1>4, EmptySeq
<1> QED
  BY <1>2, <1>5

\* One line more: n bytes after m, which are whole groups of three.
LineAfter(b, m, n) == SubSeq(b, m + 1, IF Len(b) < m + n THEN Len(b) ELSE m + n)

LEMMA FrontGrows ==
  ASSUME NEW b \in Seq(Byte), NEW m \in Nat, m % 3 = 0, NEW n \in Nat
  PROVE  /\ LineAfter(b, m, n) \in Seq(Byte)
         /\ base64_encode(Front(b, m + n))
              = base64_encode(Front(b, m)) \o base64_encode(LineAfter(b, m, n))
<1>0. PICK y : y = LineAfter(b, m, n)
  OBVIOUS
<1>1. Len(b) \in Nat /\ \A i \in 1 .. Len(b) : b[i] \in Byte
  BY LenProperties, ElementOfSeq
<1>2. PICK k \in Nat : k = IF Len(b) < m + n THEN Len(b) ELSE m + n
  BY <1>1
<1>3. \A i \in m + 1 .. k : b[i] \in Byte
  BY <1>1, <1>2
<1>4. /\ y \in Seq(Byte) /\ Len(y) = (IF m + 1 <= k THEN k - (m + 1) + 1 ELSE 0)
      /\ \A i \in 1 .. k - (m + 1) + 1 : y[i] = b[m + 1 + i - 1]
  BY <1>0, <1>1, <1>2, <1>3, SubSeqProperties DEF LineAfter
<1>5. PICK x, z : x = Front(b, m) /\ z = Front(b, m + n)
  OBVIOUS
<1>6. /\ x \in Seq(Byte) /\ z \in Seq(Byte) /\ Len(x) = (IF m <= Len(b) THEN m ELSE Len(b))
      /\ Len(z) = k
      /\ \A i \in 1 .. Len(x) : x[i] = b[i]
      /\ \A i \in 1 .. Len(z) : z[i] = b[i]
      /\ m >= Len(b) => x = b /\ z = b
  BY <1>1, <1>2, <1>5, FrontIs
<1>7. CASE Len(b) <= m
  <2>1. Len(y) = 0
    BY <1>1, <1>2, <1>4, <1>7
  <2>2. y = <<>> /\ x = z
    BY <1>1, <1>4, <1>6, <1>7, <2>1, EmptySeq
  <2>3. base64_encode(x) \in Seq(Digit \union {Pad})
    BY <1>6, EncodedIs
  <2>4. base64_encode(x) \o <<>> = base64_encode(x)
    BY <2>3, ConcatEmptySeq
  <2> QED
    BY <1>0, <1>4, <1>5, <2>2, <2>4, EncodeOfNothing
<1>8. CASE m < Len(b)
  <2>0. x \in Seq(Byte) /\ y \in Seq(Byte)
    BY <1>4, <1>6
  <2>1. Len(x) = m /\ Len(y) = k - m /\ m <= k
    <3>1. m <= k /\ (m + 1 <= k => k - (m + 1) + 1 = k - m) /\ (~(m + 1 <= k) => k = m)
      BY <1>1, <1>2, <1>8
    <3>2. Len(x) = m
      BY <1>1, <1>6, <1>8
    <3>3. Len(y) = k - m
      <4>1. Len(y) = IF m + 1 <= k THEN k - (m + 1) + 1 ELSE 0
        BY <1>4
      <4>2. CASE m + 1 <= k
        BY <3>1, <4>1, <4>2
      <4>3. CASE ~(m + 1 <= k)
        <5>1. k - m = 0
          BY <1>2, <3>1, <4>3
        <5> QED
          BY <4>1, <4>3, <5>1
      <4> QED
        BY <4>2, <4>3
    <3> QED
      BY <3>1, <3>2, <3>3
  <2>2. \A i \in 1 .. k - m : y[i] = b[m + i]
    <3> TAKE i \in 1 .. k - m
    <3>1. i \in 1 .. k - (m + 1) + 1 /\ m + 1 + i - 1 = m + i
      BY <1>2
    <3> QED
      BY <1>4, <3>1
  <2>3. PICK w : w = x \o y
    OBVIOUS
  <2>4. /\ w \in Seq(Byte) /\ Len(w) = Len(x) + Len(y)
        /\ \A i \in 1 .. Len(x) : w[i] = x[i]
        /\ \A i \in 1 .. Len(y) : w[Len(x) + i] = y[i]
    <3>1. PICK s \in Seq(Byte), t \in Seq(Byte) : s = x /\ t = y
      BY <2>0
    <3>2. /\ s \o t \in Seq(Byte) /\ Len(s \o t) = Len(s) + Len(t)
          /\ \A i \in 1 .. Len(s) : (s \o t)[i] = s[i]
          /\ \A i \in 1 .. Len(t) : (s \o t)[Len(s) + i] = t[i]
      BY ConcatIs
    <3> QED
      BY <2>3, <3>1, <3>2
  <2>5. Len(w) = k
    BY <1>2, <2>1, <2>4
  <2>6. ASSUME NEW j \in 1 .. k PROVE w[j] = z[j]
    <3>1. CASE j <= m
      <4>1. j \in 1 .. Len(x) /\ j \in 1 .. Len(z)
        BY <1>6, <2>1, <3>1, SMTT(40)
      <4>2. w[j] = x[j] /\ x[j] = b[j] /\ z[j] = b[j]
        BY <1>6, <2>4, <4>1
      <4> QED
        BY <4>2
    <3>2. CASE j > m
      <4>1. PICK i \in 1 .. k - m : j = m + i
        <5>1. j - m \in 1 .. k - m /\ j = m + (j - m)
          BY <1>2, <3>2
        <5> QED
          BY <5>1
      <4> QED
        BY <1>6, <2>1, <2>2, <2>4, <4>1
    <3> QED
      BY <3>1, <3>2
  <2>7. w = z
    BY <1>6, <2>4, <2>5, <2>6, SeqEqual
  <2>8. PICK q \in Nat : m = 3 * q
    <3>1. m = 3 * (m \div 3) /\ m \div 3 \in Nat
      OBVIOUS
    <3> QED
      BY <3>1
  <2>9. base64_encode(x \o y) = base64_encode(x) \o base64_encode(y)
    <3>1. Len(x) = 3 * q
      BY <2>1, <2>8
    <3> QED
      BY <2>0, <3>1, EncodeAppends
  <2> QED
    BY <1>0, <1>4, <1>5, <2>3, <2>7, <2>9
<1> QED
  BY <1>1, <1>7, <1>8

\* The lines end behind what was measured, and their beginnings are multiples
\* of three.
LEMMA LineEnds ==
  ASSUME NEW len \in Nat
  PROVE  /\ len \div LineBytes + 1 \in Nat
         /\ LineBytes * (len \div LineBytes + 1) > len
<1>1. PICK L \in Nat \ {0} : L = LineBytes
  BY LineAssumption
<1>2. PICK q, r : q = len \div L /\ r = len % L
  OBVIOUS
<1>3. q \in Nat /\ r \in 0 .. L - 1 /\ len = L * q + r
  BY <1>1, <1>2
<1>4. L * (q + 1) = L * q + L
  BY <1>1, <1>3
<1> QED
  BY <1>1, <1>2, <1>3, <1>4

LEMMA LineStarts ==
  ASSUME NEW i \in Nat \ {0}
  PROVE  /\ LineBytes * (i - 1) \in Nat /\ (LineBytes * (i - 1)) % 3 = 0
         /\ LineBytes * i = LineBytes * (i - 1) + LineBytes
<1>1. PICK L \in Nat \ {0} : L = LineBytes /\ L % 3 = 0
  BY LineAssumption
<1>2. PICK l \in Nat : L = 3 * l
  <2>1. L = 3 * (L \div 3) /\ L \div 3 \in Nat
    BY <1>1
  <2> QED
    BY <2>1
<1>3. PICK j \in Nat : j = i - 1
  OBVIOUS
<1>4. l * j \in Nat /\ L * j = 3 * (l * j)
  BY <1>2
<1>5. L * (j + 1) = L * j + L
  BY <1>1
<1>6. (3 * (l * j)) % 3 = 0
  BY <1>4
<1> QED
  BY <1>1, <1>3, <1>4, <1>5, <1>6

\* n lines: put together and decoded they are the beginning of the bytes, up to
\* the end of the last line.
LinesOf(b, n) == [i \in 1 .. n |-> base64_encode(Chunk(b, i))]

LEMMA LinesDecode ==
  ASSUME NEW b \in Seq(Byte), NEW n \in Nat
  PROVE  /\ LinesOf(b, n) \in Seq(Seq(Digit \union {Pad}))
         /\ base64_decode(Joined(LinesOf(b, n))) = Front(b, LineBytes * n)
<1>2. PICK lines : lines = LinesOf(b, n)
  OBVIOUS
<1>3. lines = [i \in 1 .. n |-> base64_encode(Chunk(b, i))]
  BY <1>2 DEF LinesOf
<1>4. ASSUME NEW i \in 1 .. n
      PROVE  /\ lines[i] \in Seq(Digit \union {Pad})
             /\ base64_encode(Front(b, LineBytes * i))
                  = base64_encode(Front(b, LineBytes * (i - 1))) \o lines[i]
  <2>1. PICK m \in Nat : m = LineBytes * (i - 1) /\ m % 3 = 0 /\ LineBytes * i = m + LineBytes
    <3>1. i \in Nat \ {0}
      OBVIOUS
    <3>2. /\ LineBytes * (i - 1) \in Nat /\ (LineBytes * (i - 1)) % 3 = 0
          /\ LineBytes * i = LineBytes * (i - 1) + LineBytes
      BY <3>1, LineStarts
    <3> QED
      BY <3>2
  <2>2. PICK y : y = Chunk(b, i)
    OBVIOUS
  <2>3. y = SubSeq(b, m + 1, IF Len(b) < m + LineBytes THEN Len(b) ELSE m + LineBytes)
    BY <2>1, <2>2 DEF Chunk
  <2>4. /\ y \in Seq(Byte)
        /\ base64_encode(Front(b, m + LineBytes))
             = base64_encode(Front(b, m)) \o base64_encode(y)
    <3>1. PICK n1 \in Nat : n1 = LineBytes
      BY LineAssumption
    <3>2. y = LineAfter(b, m, n1)
      BY <2>3, <3>1 DEF LineAfter
    <3>3. /\ LineAfter(b, m, n1) \in Seq(Byte)
          /\ base64_encode(Front(b, m + n1))
               = base64_encode(Front(b, m)) \o base64_encode(LineAfter(b, m, n1))
      BY <2>1, FrontGrows
    <3> QED
      BY <3>1, <3>2, <3>3
  <2>5. base64_encode(y) \in Seq(Digit \union {Pad})
    BY <2>4, EncodedIs
  <2> QED
    BY <1>3, <2>1, <2>2, <2>4, <2>5
<1>5. lines \in Seq(Seq(Digit \union {Pad})) /\ Len(lines) = n
  <2>1. lines \in [1 .. n -> Seq(Digit \union {Pad})]
    BY <1>3, <1>4
  <2> QED
    BY <2>1, FunctionIsSeq
<1>6. PICK u : /\ u[0] = <<>> /\ Joined(lines) = u[n]
               /\ \A i \in 1 .. n : u[i] = u[i - 1] \o lines[i]
  <2>1. PICK S : S = Digit \union {Pad}
    OBVIOUS
  <2>2. lines \in Seq(Seq(S))
    BY <1>5, <2>1
  <2>3. JoinedByOne(S, lines)
    BY <2>2, JoinedIs
  <2> QED
    BY <1>5, <2>3 DEF JoinedByOne
<1>7. PICK T : T = {i \in 0 .. n : u[i] = base64_encode(Front(b, LineBytes * i))}
  OBVIOUS
<1>8. 0 \in T
  <2>1. LineBytes * 0 = 0
    BY LineAssumption
  <2>2. Front(b, 0) = <<>>
    <3>1. Front(b, 0) \in Seq(Byte) /\ Len(Front(b, 0)) = 0
      <4>1. Len(b) \in Nat
        BY LenProperties
      <4> QED
        BY <4>1, FrontIs
    <3> QED
      BY <3>1, EmptySeq
  <2> QED
    BY <1>6, <1>7, <2>1, <2>2, EncodeOfNothing
<1>9. ASSUME NEW i \in 1 .. n, i - 1 \in T PROVE i \in T
  <2>1. u[i] = u[i - 1] \o lines[i] /\ u[i - 1] = base64_encode(Front(b, LineBytes * (i - 1)))
    BY <1>6, <1>7, <1>9
  <2>2. u[i] = base64_encode(Front(b, LineBytes * i))
    BY <1>4, <2>1
  <2> QED
    BY <1>7, <2>2
<1>10. \A i \in 1 .. n : i - 1 \in T => i \in T
  BY <1>9
<1>11. \A i \in 0 .. n : i \in T
  BY <1>8, <1>10, Induction
<1>12. u[n] = base64_encode(Front(b, LineBytes * n))
  BY <1>7, <1>11
<1>13. Front(b, LineBytes * n) \in Seq(Byte)
  <2>1. LineBytes * n \in Nat
    BY LineAssumption
  <2> QED
    BY <2>1, FrontIs
<1>14. base64_decode(Joined(lines)) = Front(b, LineBytes * n)
  BY <1>6, <1>12, <1>13, DecodeInvertsEncode
<1> QED
  BY <1>2, <1>5, <1>14

\* What AttachmentsDecode says of a part.
Decodes(part) ==
  LET got == base64_decode(Joined(part.lines))
  IN  /\ \A c \in part.held : part.held = {c} => got = c
      /\ \A k \in 1 .. Len(got) :
           \E c \in part.held : k <= Len(c) /\ got[k] = c[k]
      /\ \/ Len(got) >= part.measured
         \/ \E c \in part.held : Len(c) < part.measured

LEMMA EmptyPartDecodes ==
  ASSUME NEW part, part.lines = <<>>, part.held = {}, part.measured = 0
  PROVE  Decodes(part)
<1>1. <<>> \in Seq(Seq(Digit \union {Pad})) /\ Len(<<>>) = 0 /\ <<>> \in Seq(Byte)
  BY EmptySeq
<1>2. Joined(<<>>) = <<>>
  <2>1. PICK pieces \in Seq(Seq(Digit \union {Pad})) : pieces = <<>>
    BY <1>1
  <2>2. PICK S : S = Digit \union {Pad}
    OBVIOUS
  <2>3. JoinedByOne(S, pieces)
    <3>1. pieces \in Seq(Seq(S))
      BY <2>2
    <3> QED
      BY <3>1, JoinedIs
  <2> QED
    BY <1>1, <2>1, <2>3 DEF JoinedByOne
<1>3. base64_decode(<<>>) = <<>>
  BY <1>1, EncodeOfNothing, DecodeInvertsEncode
<1>4. PICK got : got = base64_decode(Joined(part.lines))
  OBVIOUS
<1>5. Len(got) = 0 /\ 1 .. Len(got) = {}
  BY <1>1, <1>2, <1>3, <1>4
<1> QED
  BY <1>4, <1>5 DEF Decodes

-----------------------------------------------------------------------------
\* The mail that CreatMessage builds.

Names == {""} \union {p.name : p \in Paths}
Kinds == {"plain/text", "text/xml", "image/jpeg", "image/png", "image/gif",
          "application/x-msdownload", "application/octet-stream"}
Parts == [name : Names, type : Kinds, lines : Seq(Seq(Digit \union {Pad})),
          held : SUBSET Contents, measured : Nat]
Building == {"names", "open", "read"}

MailTypes ==
  /\ disk \in [Paths -> Contents \union {Absent}]
  /\ attached \in Seq(Paths) /\ Len(attached) <= MaxFiles
  /\ pc \in Building \union {"app", "handle", "perform", "check"}
  /\ next \in 1 .. Len(attached) + 1 /\ length \in Nat
  /\ taken \in Seq(Byte) /\ eof \in BOOLEAN /\ held \in SUBSET Contents
  /\ filename \in Names /\ message \in Seq(Parts)

\* How far the message is.
Progress ==
  /\ Len(message) <= Len(attached)
  /\ pc = "names" => Len(message) = next - 1
  /\ pc \in {"open", "read"} => Len(message) = next
  /\ pc = "handle" => Len(message) = Len(attached)
  /\ pc = "read" => disk[attached[next]] # Absent

\* The names an attachment may be given.
NamesUpTo(i) == {""} \union {attached[k].name : k \in 1 .. i}
Named ==
  /\ \A i \in 1 .. Len(message) :
       /\ message[i].name \in NamesUpTo(i)
       /\ attached[i].dir => message[i].name = attached[i].name
  /\ pc \in Building => filename \in NamesUpTo(Len(message))

\* The buffer has had every byte from what the file held since it was measured,
\* and has had all of the file, as it was then, when it met the end.
FromDisk ==
  /\ disk[attached[next]] \in held
  /\ \E c \in held : Len(c) = length
  /\ \A k \in 1 .. Len(taken) : \E c \in held : k <= Len(c) /\ taken[k] = c[k]
  /\ eof => \E c \in held : Len(c) <= Len(taken)

\* The lines so far are those of the buffer, and the last of them was not cut
\* short unless the file had ended.
LinesSoFar(lines) ==
  /\ lines = LinesOf(taken, Len(lines))
  /\ Len(lines) <= LinesToRead(length)
  /\ eof \/ Len(taken) >= LineBytes * Len(lines)

Reading ==
  /\ pc = "open" => message[Len(message)].lines = <<>>
  /\ pc = "read" => FromDisk /\ LinesSoFar(message[Len(message)].lines)

AllDecode ==
  \A i \in 1 .. Len(message) : (pc = "read" /\ i = Len(message)) \/ Decodes(message[i])

MailInv == MailTypes /\ Progress /\ Named /\ AllDecode /\ Reading

\* A file whose lines have all been read.
LEMMA ReadPartDecodes ==
  ASSUME MailTypes, FromDisk, NEW lines \in Seq(Seq(Digit \union {Pad})), LinesSoFar(lines),
         Len(lines) = LinesToRead(length),
         NEW part, part.lines = lines, part.held = held, part.measured = length
  PROVE  Decodes(part)
<1>1. PICK n \in Nat, m \in Nat : n = Len(lines) /\ m = LineBytes * n /\ m > length
  <2>1. PICK n \in Nat : n = Len(lines) /\ LineBytes * n > length
    BY LineEnds DEF MailTypes, LinesToRead
  <2>2. LineBytes * n \in Nat
    BY LineAssumption
  <2> QED
    BY <2>1, <2>2
<1>2. PICK got : got = base64_decode(Joined(lines))
  OBVIOUS
<1>3. lines = LinesOf(taken, n) /\ (eof \/ Len(taken) >= m)
  BY <1>1 DEF LinesSoFar
<1>4. PICK size \in Nat : size = Len(taken)
  BY LenProperties DEF MailTypes
<1>5. /\ Len(got) = (IF m <= size THEN m ELSE size)
      /\ \A k \in 1 .. Len(got) : got[k] = taken[k]
      /\ m >= size => got = taken
  <2>1. taken \in Seq(Byte)
    BY DEF MailTypes
  <2>2. got = Front(taken, m)
    BY <1>1, <1>2, <1>3, <2>1, LinesDecode
  <2> QED
    BY <1>1, <1>4, <2>1, <2>2, FrontIs
<1>6. held \subseteq Seq(Byte) /\ \A c \in held : Len(c) \in Nat
  <2>1. held \subseteq Seq(Byte)
    BY ContentsAssumption DEF MailTypes
  <2> QED
    BY <2>1, LenProperties
<1>7. PICK len \in Nat : len = length
  BY DEF MailTypes
<1>8. ASSUME NEW k \in 1 .. Len(got)
      PROVE  \E c \in held : k <= Len(c) /\ got[k] = c[k]
  <2>1. k \in 1 .. size
    BY <1>1, <1>4, <1>5
  <2> QED
    BY <1>4, <1>5, <2>1 DEF FromDisk
<1>9. Len(got) >= len \/ \E c \in held : Len(c) < len
  <2>1. CASE m <= size
    BY <1>1, <1>5, <1>7, <2>1
  <2>2. CASE size < m
    <3>1. eof /\ Len(got) = size
      BY <1>1, <1>3, <1>4, <1>5, <2>2
    <3>2. PICK c \in held : Len(c) <= size
      BY <1>4, <3>1 DEF FromDisk
    <3>3. Len(c) \in Nat
      BY <1>6
    <3> QED
      BY <3>1, <3>2, <3>3
  <2> QED
    BY <1>1, <2>1, <2>2
<1>10. ASSUME NEW c \in held, held = {c} PROVE got = c
  <2>1. c \in Seq(Byte) /\ Len(c) \in Nat /\ Len(c) = len
    BY <1>6, <1>7, <1>10 DEF FromDisk
  <2>2. \A k \in 1 .. size : k <= Len(c) /\ taken[k] = c[k]
    BY <1>4, <1>10 DEF FromDisk
  <2>3. size <= Len(c)
    <3>1. CASE size = 0
      BY <2>1, <3>1
    <3>2. CASE size # 0
      <4>1. size \in 1 .. size
        BY <3>2
      <4> QED
        BY <2>2, <4>1
    <3> QED
      BY <3>1, <3>2
  <2>4. size < m
    BY <1>1, <1>7, <2>1, <2>3
  <2>5. eof
    BY <1>1, <1>3, <1>4, <2>4
  <2>6. Len(c) <= size
    BY <1>4, <1>10, <2>5 DEF FromDisk
  <2>7. size = Len(c)
    BY <2>1, <2>3, <2>6
  <2>8. taken = c
    <3>1. taken \in Seq(Byte)
      BY DEF MailTypes
    <3>2. \A k \in 1 .. Len(taken) : taken[k] = c[k]
      BY <1>4, <2>2
    <3> QED
      BY <1>4, <2>1, <2>7, <3>1, <3>2, SeqEqual
  <2> QED
    BY <1>5, <2>4, <2>8
<1> QED
  BY <1>2, <1>7, <1>8, <1>9, <1>10 DEF Decodes

LEMMA ContentTypeIsKind == ASSUME NEW t PROVE ContentType(t) \in Kinds
BY DEF ContentType, Kinds

LEMMA MailInvInitially == Init => MailInv
<1> SUFFICES ASSUME Init PROVE MailInv
  OBVIOUS
<1>1. /\ pc = "app" /\ next = 1 /\ length = 0 /\ filename = ""
      /\ disk \in [Paths -> Contents \union {Absent}]
      /\ eof = FALSE /\ held = {}
  BY DEF Init
<1>2. /\ message \in Seq(Parts) /\ attached \in Seq(Paths)
      /\ Len(message) = 0 /\ Len(attached) = 0
  <2>1. message = <<>> /\ attached = <<>>
    BY DEF Init
  <2> QED
    BY <2>1, EmptySeq
<1>b. taken \in Seq(Byte)
  BY EmptySeq DEF Init
<1>a. next = 1 /\ length = 0 /\ Len(message) = 0 /\ Len(attached) = 0
  BY <1>1, <1>2
<1>3. MailTypes
  <2>1. MaxFiles \in Nat
    BY BoundsAssumption
  <2>2. next \in 1 .. Len(attached) + 1 /\ Len(attached) <= MaxFiles /\ length \in Nat
    BY <1>a, <2>1
  <2>3. filename \in Names /\ pc \in Building \union {"app", "handle", "perform", "check"}
    BY <1>1 DEF Names
  <2> QED
    BY <1>1, <1>b, <1>2, <2>2, <2>3 DEF MailTypes
<1>4. Progress
  <2>1. pc = "app"
    BY <1>1
  <2>2. Len(message) <= Len(attached)
    BY <1>a
  <2> QED
    BY <2>1, <2>2 DEF Progress
<1>5. 1 .. Len(message) = {}
  BY <1>a
<1>6. Named /\ AllDecode /\ Reading
  BY <1>1, <1>5 DEF Named, AllDecode, Building, Reading
<1> QED
  BY <1>3, <1>4, <1>6 DEF MailInv

\* The steps with no file in hand that leave the message alone.
LEMMA SameMessage ==
  ASSUME MailInv, UNCHANGED <<message, attached, filename>>,
         pc # "read", pc' \notin {"open", "read"},
         MailTypes', Progress', pc' \in Building => pc \in Building
  PROVE  MailInv'
<1>1. Named'
  BY ZenonT(40) DEF MailInv, Named, NamesUpTo
<1>2. AllDecode'
  BY DEF MailInv, AllDecode
<1>3. Reading'
  BY DEF Reading
<1> QED
  BY <1>1, <1>2, <1>3 DEF MailInv

\* The file in hand is one of the attachments.
LEMMA InHand ==
  ASSUME MailInv, pc \in {"open", "read"}
  PROVE  /\ Len(message) \in Nat \ {0} /\ Len(attached) \in Nat /\ next \in Nat
         /\ Len(message) = next /\ next <= Len(attached) /\ attached[next] \in Paths
<1>1. Len(message) = next /\ Len(message) <= Len(attached)
  BY DEF MailInv, Progress
<1>2. next \in Nat \ {0} /\ Len(attached) \in Nat
  BY LenProperties DEF MailInv, MailTypes
<1>3. next \in 1 .. Len(attached)
  BY <1>1, <1>2
<1>4. attached[next] \in Paths
  BY <1>3, ElementOfSeq DEF MailInv, MailTypes
<1> QED
  BY <1>1, <1>2, <1>4

LEMMA ChangeKeepsMail ==
  ASSUME MailInv, NEW p \in Paths, Change(p) PROVE MailInv'
<1>1. /\ UNCHANGED <<message, attached, filename, length, taken, eof, pc, next>>
      /\ \E c \in Contents \union {Absent} :
           /\ Open(p) => c # Absent
           /\ disk' = [disk EXCEPT ![p] = c]
           /\ held' = IF Open(p) THEN held \union {c} ELSE held
  BY DEF Change, object
<1>2. MailTypes'
  <2>1. held' \in SUBSET Contents
    BY <1>1 DEF MailInv, MailTypes
  <2> QED
    BY <1>1, <2>1 DEF MailInv, MailTypes
<1>3. pc = "read" => disk'[attached[next]] # Absent
  <2> SUFFICES ASSUME pc = "read" PROVE disk'[attached[next]] # Absent
    OBVIOUS
  <2>1. attached[next] \in Paths
    BY InHand
  <2> QED
    BY <1>1, <2>1 DEF MailInv, Progress, MailTypes, Open
<1>4. Progress'
  BY <1>1, <1>3 DEF MailInv, Progress
<1>5. Named' /\ AllDecode'
  <2>1. Named'
    BY <1>1, ZenonT(40) DEF MailInv, Named, NamesUpTo
  <2>2. AllDecode'
    BY <1>1 DEF MailInv, AllDecode
  <2> QED
    BY <2>1, <2>2
<1>6. Reading'
  <2>1. CASE pc # "read"
    BY <1>1, <2>1 DEF MailInv, Reading
  <2>2. CASE pc = "read"
    <3>1. /\ disk[attached[next]] \in held
          /\ \E c \in held : Len(c) = length
          /\ \A k \in 1 .. Len(taken) : \E c \in held : k <= Len(c) /\ taken[k] = c[k]
          /\ eof => \E c \in held : Len(c) <= Len(taken)
      BY <2>2 DEF MailInv, Reading, FromDisk
    <3>2. held \subseteq held'
      BY <1>1
    <3>3. disk'[attached[next]] \in held'
      <4>1. attached[next] \in Paths
        BY <2>2, InHand
      <4> QED
        BY <1>1, <2>2, <3>1, <4>1 DEF MailInv, MailTypes, Open
    <3>4. FromDisk'
      BY <1>1, <3>1, <3>2, <3>3 DEF FromDisk
    <3>5. LinesSoFar(message[Len(message)].lines)'
      BY <1>1, <2>2 DEF MailInv, Reading, LinesSoFar, LinesOf
    <3> QED
      BY <1>1, <2>2, <3>4, <3>5 DEF Reading
  <2> QED
    BY <2>1, <2>2
<1> QED
  BY <1>2, <1>4, <1>5, <1>6 DEF MailInv

LEMMA AddAttachmentKeepsMail ==
  ASSUME MailInv, NEW p \in Paths, AddAttachment(p) PROVE MailInv'
<1>1. /\ UNCHANGED <<message, filename, file, pc, next, disk>> /\ pc = "app"
      /\ attached' = Append(attached, p) /\ Len(attached) < MaxFiles
  BY DEF AddAttachment, files, locals
<1>2. /\ attached \in Seq(Paths) /\ Len(attached) \in Nat /\ Len(message) \in Nat
      /\ MaxFiles \in Nat
  BY LenProperties, BoundsAssumption DEF MailInv, MailTypes
<1>3. /\ attached' \in Seq(Paths) /\ Len(attached') = Len(attached) + 1
      /\ \A i \in 1 .. Len(attached) : attached'[i] = attached[i]
  BY <1>1, <1>2, AppendProperties
<1>4. MailTypes'
  <2>1. Len(attached') <= MaxFiles /\ next \in 1 .. Len(attached') + 1
    BY <1>1, <1>2, <1>3 DEF MailInv, MailTypes
  <2> QED
    BY <1>1, <1>3, <2>1 DEF MailInv, MailTypes, file
<1>5. Len(message) <= Len(attached)
  BY DEF MailInv, Progress
<1>6. Progress'
  BY <1>1, <1>2, <1>3, <1>5 DEF Progress
<1>7. ASSUME NEW i \in 1 .. Len(message)
      PROVE  /\ message[i].name \in {""} \union {attached'[k].name : k \in 1 .. i}
             /\ attached'[i].dir => message[i].name = attached'[i].name
  <2>1. i \in 1 .. Len(attached) /\ \A k \in 1 .. i : k \in 1 .. Len(attached)
    BY <1>2, <1>5
  <2>2. /\ message[i].name \in {""} \union {attached[k].name : k \in 1 .. i}
        /\ attached[i].dir => message[i].name = attached[i].name
    BY DEF MailInv, Named, NamesUpTo
  <2>3. \A k \in 1 .. i : attached'[k] = attached[k]
    BY <1>3, <2>1
  <2> QED
    BY <1>3, <2>1, <2>2, <2>3
<1>8. Named'
  BY <1>1, <1>7 DEF Named, NamesUpTo, Building
<1>9. AllDecode' /\ Reading'
  BY <1>1 DEF MailInv, AllDecode, Reading
<1> QED
  BY <1>4, <1>6, <1>8, <1>9 DEF MailInv

LEMMA SendMailKeepsMail ==
  ASSUME MailInv, SendMail PROVE MailInv'
<1>1. /\ pc' = "names" /\ next' = 1 /\ filename' = ""
      /\ UNCHANGED <<disk, attached, file>>
  BY DEF SendMail, files
<1>2. message' \in Seq(Parts) /\ Len(message') = 0 /\ Len(attached) \in Nat
  <2>1. message' = <<>>
    BY DEF SendMail
  <2>2. Len(attached) \in Nat
    BY LenProperties DEF MailInv, MailTypes
  <2> QED
    BY <2>1, <2>2, EmptySeq
<1>a. next' = 1 /\ Len(message') = 0 /\ Len(attached) \in Nat
  BY <1>1, <1>2
<1>3. MailTypes'
  <2>1. next' \in 1 .. Len(attached) + 1
    BY <1>a
  <2>2. filename' \in Names /\ pc' \in Building \union {"app", "handle", "perform", "check"}
    BY <1>1 DEF Names, Building
  <2> QED
    BY <1>1, <1>2, <2>1, <2>2 DEF MailInv, MailTypes, file
<1>4. Progress'
  <2>1. Len(message') <= Len(attached) /\ Len(message') = next' - 1
    BY <1>a
  <2> QED
    BY <1>1, <2>1 DEF Progress
<1>5. Named' /\ AllDecode' /\ Reading'
  <2>1. 1 .. Len(message') = {}
    BY <1>2
  <2> QED
    BY <1>1, <2>1 DEF Named, AllDecode, NamesUpTo, Reading
<1> QED
  BY <1>3, <1>4, <1>5 DEF MailInv

LEMMA PartHeaderKeepsMail ==
  ASSUME MailInv, PartHeader PROVE MailInv'
<1>1. /\ pc = "names" /\ pc' = "open" /\ UNCHANGED <<disk, attached, next, file>>
      /\ next <= Len(attached)
      /\ filename' = GetFileName(attached[next], filename)
      /\ message' = Append(message, Part(filename', ContentType(filetype'), <<>>))
  BY DEF PartHeader, files, object
<1>2. PICK path : path = attached[next]
  OBVIOUS
<1>3. /\ Len(message) \in Nat /\ Len(attached) \in Nat /\ next \in Nat \ {0}
      /\ next = Len(message) + 1 /\ path \in Paths
  <2>1. /\ Len(message) \in Nat /\ Len(attached) \in Nat /\ next \in Nat \ {0}
        /\ Len(message) = next - 1
    BY <1>1, LenProperties DEF MailInv, MailTypes, Progress
  <2>2. next \in 1 .. Len(attached)
    BY <1>1, <2>1
  <2> QED
    BY <1>2, <2>1, <2>2, ElementOfSeq DEF MailInv, MailTypes
<1>4. filename' = IF path.dir THEN path.name ELSE filename
  BY <1>1, <1>2 DEF GetFileName
<1>5. filename' \in Names
  BY <1>3, <1>4 DEF MailInv, MailTypes, Names
<1>6. PICK part : part = Part(filename', ContentType(filetype'), <<>>)
  OBVIOUS
<1>7. /\ part \in Parts /\ part.name = filename'
      /\ part.lines = <<>> /\ part.held = {} /\ part.measured = 0
  <2>1. ContentType(filetype') \in Kinds
    BY ContentTypeIsKind
  <2>2. <<>> \in Seq(Seq(Digit \union {Pad})) /\ 0 \in Nat
    BY EmptySeq
  <2> QED
    BY <1>5, <1>6, <2>1, <2>2 DEF Part, Parts
<1>8. /\ message \in Seq(Parts) /\ message' = Append(message, part)
  BY <1>1, <1>6 DEF MailInv, MailTypes
<1>9. /\ message' \in Seq(Parts) /\ Len(message') = Len(message) + 1
      /\ \A i \in 1 .. Len(message) : message'[i] = message[i]
      /\ message'[Len(message) + 1] = part
  BY <1>7, <1>8, AppendProperties
<1>10. MailTypes'
  BY <1>1, <1>5, <1>9 DEF MailInv, MailTypes, Building, file
<1>11. Progress'
  BY <1>1, <1>3, <1>9 DEF Progress
<1>12. AllDecode'
  <2> SUFFICES ASSUME NEW i \in 1 .. Len(message) + 1 PROVE Decodes(message'[i])
    BY <1>9 DEF AllDecode
  <2>1. CASE i = Len(message) + 1
    BY <1>7, <1>9, <2>1, EmptyPartDecodes
  <2>2. CASE i \in 1 .. Len(message)
    BY <1>1, <1>9, <2>2 DEF MailInv, AllDecode
  <2>3. i = Len(message) + 1 \/ i \in 1 .. Len(message)
    BY <1>3
  <2> QED
    BY <2>1, <2>2, <2>3
<1>13. filename' \in {""} \union {attached[k].name : k \in 1 .. Len(message) + 1}
  <2>1. filename \in {""} \union {attached[k].name : k \in 1 .. Len(message)}
    BY <1>1 DEF MailInv, Named, NamesUpTo, Building
  <2>2. Len(message) + 1 \in 1 .. Len(message) + 1 /\ attached[Len(message) + 1] = path
    BY <1>2, <1>3
  <2>3. \A k \in 1 .. Len(message) : k \in 1 .. Len(message) + 1
    BY <1>3
  <2> QED
    BY <1>4, <2>1, <2>2, <2>3
<1>14. Named'
  <2>1. ASSUME NEW i \in 1 .. Len(message) + 1
        PROVE  /\ message'[i].name \in {""} \union {attached[k].name : k \in 1 .. i}
               /\ attached[i].dir => message'[i].name = attached[i].name
    <3>1. CASE i = Len(message) + 1
      <4>1. message'[i].name = filename' /\ attached[i] = path
        BY <1>2, <1>3, <1>7, <1>9, <3>1
      <4> QED
        BY <1>4, <1>13, <3>1, <4>1
    <3>2. CASE i \in 1 .. Len(message)
      <4>1. message'[i] = message[i]
        BY <1>9, <3>2
      <4>2. /\ message[i].name \in {""} \union {attached[k].name : k \in 1 .. i}
            /\ attached[i].dir => message[i].name = attached[i].name
        BY <3>2 DEF MailInv, Named, NamesUpTo
      <4> QED
        BY <4>1, <4>2
    <3>3. i = Len(message) + 1 \/ i \in 1 .. Len(message)
      BY <1>3
    <3> QED
      BY <3>1, <3>2, <3>3
  <2>2. attached' = attached /\ Len(message') = Len(message) + 1
    BY <1>1, <1>9
  <2> QED
    BY <1>13, <2>1, <2>2 DEF Named, NamesUpTo
<1>15. Reading'
  <2>1. Len(message') = Len(message) + 1 /\ message'[Len(message) + 1].lines = <<>>
    BY <1>7, <1>9
  <2> QED
    BY <1>1, <2>1 DEF Reading
<1> QED
  BY <1>10, <1>11, <1>12, <1>14, <1>15 DEF MailInv

LEMMA OpenFileKeepsMail ==
  ASSUME MailInv, OpenFile PROVE MailInv'
<1>0. PICK bytes : bytes = disk[attached[next]]
  OBVIOUS
<1>1. /\ pc = "open" /\ UNCHANGED <<disk, attached, filename, message>>
      /\ IF bytes = Absent
         THEN /\ pc' = "names" /\ next' = next + 1
              /\ UNCHANGED <<length, taken, eof, held>>
         ELSE /\ pc' = "read" /\ next' = next /\ length' = Len(bytes)
              /\ taken' = <<>> /\ eof' = FALSE /\ held' = {bytes}
  BY <1>0 DEF OpenFile, files, object, file
<1>2. /\ Len(message) \in Nat \ {0} /\ Len(attached) \in Nat /\ next \in Nat
      /\ Len(message) = next /\ next <= Len(attached) /\ attached[next] \in Paths
  BY <1>1, InHand
<1>3. bytes # Absent => bytes \in Contents /\ Len(bytes) \in Nat
  <2>1. bytes \in Contents \union {Absent}
    BY <1>0, <1>2 DEF MailInv, MailTypes
  <2>2. bytes # Absent => bytes \in Contents /\ bytes \in Seq(Byte)
    BY <2>1, ContentsAssumption
  <2> QED
    BY <2>2, LenProperties
<1>4. <<>> \in Seq(Byte) /\ Len(<<>>) = 0
  BY EmptySeq
<1>5. MailTypes'
  <2>1. next' \in 1 .. Len(attached) + 1
    BY <1>1, <1>2 DEF MailInv, MailTypes
  <2>2. /\ length' \in Nat /\ taken' \in Seq(Byte) /\ eof' \in BOOLEAN
        /\ held' \in SUBSET Contents
    BY <1>1, <1>3, <1>4 DEF MailInv, MailTypes
  <2> QED
    BY <1>1, <2>1, <2>2 DEF MailInv, MailTypes, Building
<1>6. Progress'
  BY <1>0, <1>1, <1>2 DEF Progress
<1>7. Named' /\ AllDecode'
  BY <1>1 DEF MailInv, Named, AllDecode, NamesUpTo, Building
<1>8. Reading'
  <2>1. CASE bytes = Absent
    BY <1>1, <2>1 DEF Reading
  <2>2. CASE bytes # Absent
    <3>1. message[Len(message)].lines = <<>>
      BY <1>1 DEF MailInv, Reading
    <3>2. FromDisk'
      <4>1. 1 .. Len(taken') = {}
        BY <1>1, <1>4, <2>2
      <4>2. held' = {bytes} /\ disk'[attached'[next']] = bytes /\ length' = Len(bytes) /\ ~eof'
        BY <1>0, <1>1, <2>2
      <4> QED
        BY <4>1, <4>2 DEF FromDisk
    <3>3. LinesSoFar(<<>>)'
      <4>1. LinesOf(taken', 0) = <<>>
        <5>1. <<>> \in Seq(Seq(Digit \union {Pad}))
          BY EmptySeq
        <5>2. LinesOf(taken', 0) \in Seq(Seq(Digit \union {Pad})) /\ Len(LinesOf(taken', 0)) = 0
          <6>1. taken' \in Seq(Byte)
            BY <1>1, <1>4, <2>2
          <6>2. PICK b \in Seq(Byte) : b = taken'
            BY <6>1
          <6>3. LinesOf(b, 0) \in Seq(Seq(Digit \union {Pad}))
            BY LinesDecode
          <6>4. Len(LinesOf(b, 0)) = 0
            <7>1. DOMAIN LinesOf(b, 0) = 1 .. 0
              BY DEF LinesOf
            <7>2. DOMAIN LinesOf(b, 0) = 1 .. Len(LinesOf(b, 0)) /\ Len(LinesOf(b, 0)) \in Nat
              BY <6>3, LenProperties
            <7> QED
              BY <7>1, <7>2
          <6> QED
            BY <6>2, <6>3, <6>4
        <5> QED
          BY <5>2, EmptySeq
      <4>2. LinesToRead(length') \in Nat
        BY <1>1, <1>3, <2>2, LineEnds DEF LinesToRead
      <4>3. LineBytes * 0 = 0 /\ Len(taken') = 0
        BY <1>1, <1>4, <2>2, LineAssumption
      <4>4. Len(<<>>) <= LinesToRead(length') /\ Len(taken') >= LineBytes * Len(<<>>)
        BY <1>4, <4>2, <4>3
      <4> QED
        BY <1>4, <4>1, <4>4 DEF LinesSoFar
    <3> QED
      BY <1>1, <2>2, <3>1, <3>2, <3>3 DEF Reading
  <2> QED
    BY <2>1, <2>2
<1> QED
  BY <1>5, <1>6, <1>7, <1>8 DEF MailInv

\* Lines that were whole stay as they are when the buffer is given more.
LEMMA LinesStay ==
  ASSUME NEW b \in Seq(Byte), NEW b2 \in Seq(Byte), NEW n \in Nat,
         Len(b) <= Len(b2), \A k \in 1 .. Len(b) : b2[k] = b[k], Len(b) >= LineBytes * n
  PROVE  LinesOf(b2, n) = LinesOf(b, n)
<1>1. PICK x \in Nat, y \in Nat : x = Len(b) /\ y = Len(b2)
  BY LenProperties
<1>2. ASSUME NEW i \in 1 .. n PROVE Chunk(b2, i) = Chunk(b, i)
  <2>1. PICK m \in Nat, L \in Nat \ {0} :
          m = LineBytes * (i - 1) /\ L = LineBytes /\ LineBytes * i = m + L /\ m + L <= x
    <3>1. PICK L \in Nat \ {0} : L = LineBytes
      BY LineAssumption
    <3>2. PICK m \in Nat : m = L * (i - 1) /\ L * i = m + L
      <4>1. L * (i - 1) \in Nat /\ L * i = L * (i - 1) + L
        BY <3>1, LineStarts
      <4> QED
        BY <4>1
    <3>3. L * i <= L * n
      <4>1. PICK d \in Nat : n = i + d
        <5>1. n - i \in Nat /\ n = i + (n - i)
          OBVIOUS
        <5> QED
          BY <5>1
      <4>2. L * n = L * i + L * d /\ L * d \in Nat
        BY <4>1
      <4> QED
        BY <4>2
    <3> QED
      BY <1>1, <3>1, <3>2, <3>3
  <2>2. Chunk(b, i) = SubSeq(b, m + 1, m + L) /\ Chunk(b2, i) = SubSeq(b2, m + 1, m + L)
    <3>1. (IF x < m + L THEN x ELSE m + L) = m + L /\ (IF y < m + L THEN y ELSE m + L) = m + L
      BY <1>1, <2>1
    <3> QED
      BY <1>1, <2>1, <3>1 DEF Chunk
  <2>3. PICK s, s2 : s = SubSeq(b, m + 1, m + L) /\ s2 = SubSeq(b2, m + 1, m + L)
    OBVIOUS
  <2>4. /\ s \in Seq(Byte) /\ Len(s) = m + L - (m + 1) + 1
        /\ \A j \in 1 .. m + L - (m + 1) + 1 : s[j] = b[m + 1 + j - 1]
    <3>1. m + 1 \in Nat /\ m + L \in Nat /\ m + 1 <= m + L
      OBVIOUS
    <3>2. \A j \in m + 1 .. m + L : b[j] \in Byte
      <4>1. \A j \in m + 1 .. m + L : j \in 1 .. Len(b)
        BY <1>1, <2>1
      <4> QED
        BY <4>1, ElementOfSeq
    <3> QED
      BY <2>3, <3>1, <3>2, SubSeqProperties
  <2>5. /\ s2 \in Seq(Byte) /\ Len(s2) = m + L - (m + 1) + 1
        /\ \A j \in 1 .. m + L - (m + 1) + 1 : s2[j] = b2[m + 1 + j - 1]
    <3>1. m + 1 \in Nat /\ m + L \in Nat /\ m + 1 <= m + L
      OBVIOUS
    <3>2. \A j \in m + 1 .. m + L : b2[j] \in Byte
      <4>1. \A j \in m + 1 .. m + L : j \in 1 .. Len(b2)
        BY <1>1, <2>1
      <4> QED
        BY <4>1, ElementOfSeq
    <3> QED
      BY <2>3, <3>1, <3>2, SubSeqProperties
  <2>6. \A j \in 1 .. Len(s) : s2[j] = s[j]
    <3> SUFFICES ASSUME NEW j \in 1 .. Len(s) PROVE s2[j] = s[j]
      OBVIOUS
    <3>1. j \in 1 .. m + L - (m + 1) + 1 /\ j \in 1 .. L
      BY <2>1, <2>4
    <3>2. m + 1 + j - 1 \in 1 .. x
      BY <2>1, <3>1
    <3>3. b2[m + 1 + j - 1] = b[m + 1 + j - 1]
      BY <1>1, <3>2
    <3> QED
      BY <2>4, <2>5, <3>1, <3>3
  <2> QED
    BY <2>2, <2>3, <2>4, <2>5, <2>6, SeqEqual
<1> QED
  BY <1>2 DEF LinesOf

LEMMA ReadBlockKeepsMail ==
  ASSUME MailInv, ReadBlock PROVE MailInv'
<1>1. PICK bytes, size, most, last :
        /\ bytes = disk[attached[next]] /\ size = Len(taken) /\ most = size + BlockBytes
        /\ last = IF Len(bytes) < most THEN Len(bytes) ELSE most
  OBVIOUS
<1>2. /\ pc = "read" /\ ~eof
      /\ taken' = taken \o SubSeq(bytes, size + 1, last)
      /\ eof' = (last <= size)
      /\ UNCHANGED <<disk, attached, pc, next, filename, message, length, held>>
  BY <1>1 DEF ReadBlock, files, object
<1>3. /\ bytes \in held /\ bytes \in Seq(Byte) /\ Len(bytes) \in Nat /\ size \in Nat
      /\ taken \in Seq(Byte) /\ most \in Nat /\ most > size
  <2>1. bytes \in held
    BY <1>1, <1>2 DEF MailInv, Reading, FromDisk
  <2>2. bytes \in Seq(Byte)
    BY <2>1, ContentsAssumption DEF MailInv, MailTypes
  <2>3. taken \in Seq(Byte)
    BY DEF MailInv, MailTypes
  <2>4. Len(bytes) \in Nat /\ size \in Nat
    BY <1>1, <2>2, <2>3, LenProperties
  <2> QED
    BY <1>1, <2>1, <2>2, <2>3, <2>4, BlockAssumption
<1>4. last \in Nat /\ last <= Len(bytes) /\ (last <= size => Len(bytes) <= size)
  BY <1>1, <1>3
<1>5. PICK more : more = SubSeq(bytes, size + 1, last)
  OBVIOUS
<1>6. /\ more \in Seq(Byte)
      /\ Len(more) = (IF size + 1 <= last THEN last - (size + 1) + 1 ELSE 0)
      /\ \A k \in 1 .. last - (size + 1) + 1 : more[k] = bytes[size + 1 + k - 1]
  <2>1. \A k \in size + 1 .. last : bytes[k] \in Byte
    <3>1. \A k \in size + 1 .. last : k \in 1 .. Len(bytes)
      BY <1>3, <1>4
    <3> QED
      BY <1>3, <3>1, ElementOfSeq
  <2> QED
    BY <1>3, <1>4, <1>5, <2>1, SubSeqProperties
<1>7. /\ taken' \in Seq(Byte) /\ Len(taken') = size + Len(more)
      /\ \A k \in 1 .. size : taken'[k] = taken[k]
      /\ \A k \in 1 .. Len(more) : taken'[size + k] = more[k]
  <2>1. PICK s \in Seq(Byte), t \in Seq(Byte) : s = taken /\ t = more
    BY <1>3, <1>6
  <2>2. /\ s \o t \in Seq(Byte) /\ Len(s \o t) = Len(s) + Len(t)
        /\ \A k \in 1 .. Len(s) : (s \o t)[k] = s[k]
        /\ \A k \in 1 .. Len(t) : (s \o t)[Len(s) + k] = t[k]
    BY ConcatIs
  <2>3. taken' = s \o t
    BY <1>2, <1>5, <2>1
  <2> QED
    BY <1>1, <2>1, <2>2, <2>3
<1>8. MailTypes'
  BY <1>2, <1>7 DEF MailInv, MailTypes
<1>9. Progress'
  BY <1>2 DEF MailInv, Progress
<1>10. Named'
  BY <1>2, ZenonT(40) DEF MailInv, Named, NamesUpTo
<1>11. AllDecode'
  BY <1>2 DEF MailInv, AllDecode
<1>12. FromDisk'
  <2>1. disk'[attached'[next']] \in held' /\ \E c \in held' : Len(c) = length'
    BY <1>2 DEF MailInv, Reading, FromDisk
  <2>2. ASSUME NEW k \in 1 .. Len(taken')
        PROVE  \E c \in held : k <= Len(c) /\ taken'[k] = c[k]
    <3>1. CASE k \in 1 .. size
      BY <1>1, <1>2, <1>7, <3>1 DEF MailInv, Reading, FromDisk
    <3>2. CASE k \notin 1 .. size
      <4>1. PICK j \in 1 .. Len(more) : k = size + j
        <5>1. Len(more) \in Nat /\ k \in 1 .. size + Len(more)
          BY <1>6, <1>7, LenProperties
        <5>2. k - size \in 1 .. Len(more) /\ k = size + (k - size)
          BY <1>3, <3>2, <5>1
        <5> QED
          BY <5>2
      <4>2. /\ j \in 1 .. last - (size + 1) + 1 /\ size + 1 + j - 1 = k /\ k <= Len(bytes)
        BY <1>3, <1>4, <1>6, <4>1
      <4>3. taken'[k] = bytes[k]
        BY <1>6, <1>7, <4>1, <4>2
      <4> QED
        BY <1>3, <4>2, <4>3
    <3> QED
      BY <3>1, <3>2
  <2>3. eof' => \E c \in held : Len(c) <= Len(taken')
    <3> SUFFICES ASSUME eof' PROVE \E c \in held : Len(c) <= Len(taken')
      OBVIOUS
    <3>1. Len(bytes) <= size
      BY <1>2, <1>4
    <3>2. Len(taken') >= size
      BY <1>3, <1>6, <1>7, LenProperties
    <3>3. Len(bytes) <= Len(taken')
      BY <1>3, <1>7, <3>1, <3>2, LenProperties
    <3> QED
      BY <1>3, <3>3
  <2> QED
    BY <1>2, <2>1, <2>2, <2>3 DEF FromDisk
<1>13. PICK lines : lines = message[Len(message)].lines
  OBVIOUS
<1>14. LinesSoFar(lines)'
  <2>1. /\ lines = LinesOf(taken, Len(lines)) /\ Len(lines) <= LinesToRead(length)
        /\ size >= LineBytes * Len(lines)
    BY <1>1, <1>2, <1>13 DEF MailInv, Reading, LinesSoFar
  <2>2. Len(lines) \in Nat
    <3>1. Len(message) \in 1 .. Len(message)
      BY <1>2, InHand
    <3>2. message[Len(message)] \in Parts
      BY <3>1, ElementOfSeq DEF MailInv, MailTypes
    <3>3. lines \in Seq(Seq(Digit \union {Pad}))
      BY <1>13, <3>2 DEF Parts
    <3> QED
      BY <3>3, LenProperties
  <2>3. size <= Len(taken') /\ Len(taken') \in Nat
    BY <1>3, <1>6, <1>7, LenProperties
  <2>4. LinesOf(taken', Len(lines)) = LinesOf(taken, Len(lines))
    <3>1. PICK b \in Seq(Byte), b2 \in Seq(Byte), n \in Nat :
            b = taken /\ b2 = taken' /\ n = Len(lines)
      BY <1>3, <1>7, <2>2
    <3>2. /\ Len(b) <= Len(b2) /\ \A k \in 1 .. Len(b) : b2[k] = b[k]
          /\ Len(b) >= LineBytes * n
      BY <1>1, <1>7, <2>1, <2>3, <3>1
    <3>3. LinesOf(b2, n) = LinesOf(b, n)
      BY <3>2, LinesStay
    <3> QED
      BY <3>1, <3>3
  <2>5. Len(taken') >= LineBytes * Len(lines)
    <3>1. LineBytes * Len(lines) \in Nat
      BY <2>2, LineAssumption
    <3> QED
      BY <1>3, <2>1, <2>3, <3>1
  <2> QED
    BY <1>2, <2>1, <2>4, <2>5 DEF LinesSoFar
<1>15. Reading'
  BY <1>2, <1>12, <1>13, <1>14 DEF Reading
<1> QED
  BY <1>8, <1>9, <1>10, <1>11, <1>15 DEF MailInv

\* A line more, or the file's record, in the part in hand: the other parts and all
\* names stay.
LEMMA LastPartSet ==
  ASSUME MailInv, pc = "read", NEW part \in Parts,
         part.name = message[Len(message)].name,
         message' = [message EXCEPT ![Len(message)] = part]
  PROVE  /\ message' \in Seq(Parts) /\ Len(message') = Len(message)
         /\ message'[Len(message)] = part
         /\ \A i \in 1 .. Len(message) : /\ message'[i].name = message[i].name
                                         /\ i # Len(message) => message'[i] = message[i]
<1>1. PICK n : n = Len(message)
  OBVIOUS
<1>2. message \in [1 .. n -> Parts] /\ n \in 1 .. n /\ n \in Nat
  <2>1. message \in Seq(Parts)
    BY DEF MailInv, MailTypes
  <2>2. message \in [1 .. Len(message) -> Parts]
    BY <2>1, LenProperties
  <2> QED
    BY <1>1, <2>2, InHand
<1>3. /\ message' \in [1 .. n -> Parts] /\ message'[n] = part
      /\ \A i \in 1 .. n : i # n => message'[i] = message[i]
  BY <1>1, <1>2
<1>4. message' \in Seq(Parts) /\ Len(message') = n
  BY <1>2, <1>3, FunctionIsSeq
<1> QED
  BY <1>1, <1>2, <1>3, <1>4

LEMMA NamesStay ==
  ASSUME MailInv, UNCHANGED <<attached, filename>>, pc \in Building,
         Len(message') = Len(message),
         \A i \in 1 .. Len(message) : message'[i].name = message[i].name
  PROVE  Named'
<1>1. \A i \in 1 .. Len(message) :
        /\ message'[i].name \in {""} \union {attached[k].name : k \in 1 .. i}
        /\ attached[i].dir => message'[i].name = attached[i].name
  BY DEF MailInv, Named, NamesUpTo
<1>2. filename \in {""} \union {attached[k].name : k \in 1 .. Len(message)}
  BY DEF MailInv, Named, NamesUpTo
<1> QED
  BY <1>1, <1>2 DEF Named, NamesUpTo

LEMMA ReadLineKeepsMail ==
  ASSUME MailInv, ReadLine PROVE MailInv'
<1>1. PICK old, n, line : /\ old = message[Len(message)] /\ n = Len(old.lines)
                          /\ line = base64_encode(Chunk(taken, n + 1))
  OBVIOUS
<1>2. /\ pc = "read" /\ n < LinesToRead(length)
      /\ eof \/ Len(taken) >= LineBytes * (n + 1)
      /\ UNCHANGED <<disk, attached, pc, next, filename, length, taken, eof, held>>
      /\ message' = [message EXCEPT ![Len(message)].lines = Append(old.lines, line)]
  <2>1. Len(message) \in DOMAIN message
    <3>1. pc = "read"
      BY DEF ReadLine
    <3>2. message \in Seq(Parts)
      BY DEF MailInv, MailTypes
    <3> QED
      BY <3>1, <3>2, InHand, LenProperties
  <2> QED
    BY <1>1, <2>1 DEF ReadLine, LinesRead, files, object, file
<1>3. Len(message) \in 1 .. Len(message) /\ message \in Seq(Parts) /\ taken \in Seq(Byte)
  BY <1>2, InHand DEF MailInv, MailTypes
<1>4. old \in Parts /\ old.lines \in Seq(Seq(Digit \union {Pad})) /\ n \in Nat
  <2>1. old \in Parts
    BY <1>1, <1>3, ElementOfSeq
  <2>2. old.lines \in Seq(Seq(Digit \union {Pad}))
    BY <2>1 DEF Parts
  <2> QED
    BY <1>1, <2>1, <2>2, LenProperties
<1>5. PICK all : all = LinesOf(taken, n + 1)
  OBVIOUS
<1>6. /\ all \in Seq(Seq(Digit \union {Pad})) /\ Len(all) = n + 1
      /\ all[n + 1] = line /\ \A i \in 1 .. n : all[i] = old.lines[i]
  <2>1. all \in Seq(Seq(Digit \union {Pad}))
    BY <1>3, <1>4, <1>5, LinesDecode
  <2>2. all = [i \in 1 .. n + 1 |-> base64_encode(Chunk(taken, i))]
    BY <1>5 DEF LinesOf
  <2>3. Len(all) = n + 1
    <3>1. DOMAIN all = 1 .. n + 1 /\ DOMAIN all = 1 .. Len(all) /\ Len(all) \in Nat
      BY <2>1, <2>2, LenProperties
    <3> QED
      BY <1>4, <3>1
  <2>4. old.lines = [i \in 1 .. n |-> base64_encode(Chunk(taken, i))]
    BY <1>1, <1>2 DEF MailInv, Reading, LinesSoFar, LinesOf
  <2>5. n + 1 \in 1 .. n + 1 /\ \A i \in 1 .. n : i \in 1 .. n + 1
    BY <1>4
  <2> QED
    BY <1>1, <2>1, <2>2, <2>3, <2>4, <2>5
<1>7. PICK lines : lines = Append(old.lines, line)
  OBVIOUS
<1>8. lines = all
  <2>1. line \in Seq(Digit \union {Pad})
    <3>1. n + 1 \in 1 .. Len(all)
      BY <1>4, <1>6
    <3> QED
      BY <1>6, <3>1, ElementOfSeq
  <2>2. /\ lines \in Seq(Seq(Digit \union {Pad})) /\ Len(lines) = n + 1
        /\ \A i \in 1 .. n : lines[i] = old.lines[i]
        /\ lines[n + 1] = line
    BY <1>1, <1>4, <1>7, <2>1, AppendProperties
  <2>3. \A i \in 1 .. Len(lines) : lines[i] = all[i]
    <3>1. \A i \in 1 .. Len(lines) : i \in 1 .. n \/ i = n + 1
      BY <1>4, <2>2
    <3> QED
      BY <1>6, <2>2, <3>1
  <2> QED
    BY <1>6, <2>2, <2>3, SeqEqual
<1>9. PICK part : part = [old EXCEPT !.lines = lines]
  OBVIOUS
<1>10. part \in Parts /\ part.name = old.name /\ part.lines = lines
  BY <1>4, <1>6, <1>8, <1>9 DEF Parts
<1>11. message' = [message EXCEPT ![Len(message)] = part]
  BY <1>1, <1>2, <1>7, <1>9
<1>12. /\ message' \in Seq(Parts) /\ Len(message') = Len(message)
       /\ message'[Len(message)] = part
       /\ \A i \in 1 .. Len(message) : /\ message'[i].name = message[i].name
                                       /\ i # Len(message) => message'[i] = message[i]
  BY <1>1, <1>2, <1>10, <1>11, LastPartSet
<1>13. MailTypes'
  BY <1>2, <1>12 DEF MailInv, MailTypes
<1>14. Progress'
  BY <1>2, <1>12 DEF MailInv, Progress
<1>15. Named'
  BY <1>2, <1>12, NamesStay DEF Building
<1>16. AllDecode'
  BY <1>2, <1>12 DEF MailInv, AllDecode
<1>17. LinesSoFar(lines)'
  <2>1. Len(lines) = n + 1 /\ lines = LinesOf(taken, n + 1)
    BY <1>5, <1>6, <1>8
  <2>2. n + 1 <= LinesToRead(length)
    <3>1. LinesToRead(length) \in Nat
      BY LineEnds DEF LinesToRead, MailInv, MailTypes
    <3> QED
      BY <1>2, <1>4, <3>1
  <2> QED
    BY <1>2, <2>1, <2>2 DEF LinesSoFar
<1>18. FromDisk'
  BY <1>2 DEF MailInv, Reading, FromDisk
<1>19. Reading'
  <2>1. message'[Len(message')].lines = lines
    BY <1>10, <1>12
  <2> QED
    BY <1>2, <1>17, <1>18, <2>1 DEF Reading
<1> QED
  BY <1>13, <1>14, <1>15, <1>16, <1>19 DEF MailInv

LEMMA CloseFileKeepsMail ==
  ASSUME MailInv, CloseFile PROVE MailInv'
<1>1. PICK old : old = message[Len(message)]
  OBVIOUS
<1>2. /\ pc = "read" /\ pc' = "names" /\ Len(old.lines) = LinesToRead(length)
      /\ next' = next + 1 /\ UNCHANGED <<disk, attached, filename>>
      /\ message' = [message EXCEPT ![Len(message)].held = held,
                                    ![Len(message)].measured = length]
      /\ length' = 0 /\ taken' = <<>> /\ eof' = FALSE /\ held' = {}
  BY <1>1 DEF CloseFile, LinesRead, files, object
<1>3. /\ Len(message) \in 1 .. Len(message) /\ message \in Seq(Parts)
      /\ length \in Nat /\ held \in SUBSET Contents
  BY <1>2, InHand DEF MailInv, MailTypes
<1>4. old \in Parts /\ old.lines \in Seq(Seq(Digit \union {Pad}))
  <2>1. old \in Parts
    BY <1>1, <1>3, ElementOfSeq
  <2> QED
    BY <2>1 DEF Parts
<1>5. PICK part : part = [old EXCEPT !.held = held, !.measured = length]
  OBVIOUS
<1>6. /\ part \in Parts /\ part.name = old.name /\ part.lines = old.lines
      /\ part.held = held /\ part.measured = length
  BY <1>3, <1>4, <1>5 DEF Parts
<1>7. message' = [message EXCEPT ![Len(message)] = part]
  <2>1. Len(message) \in DOMAIN message
    BY <1>3, LenProperties
  <2> QED
    BY <1>1, <1>2, <1>5, <2>1
<1>8. /\ message' \in Seq(Parts) /\ Len(message') = Len(message)
      /\ message'[Len(message)] = part
      /\ \A i \in 1 .. Len(message) : /\ message'[i].name = message[i].name
                                      /\ i # Len(message) => message'[i] = message[i]
  BY <1>1, <1>2, <1>6, <1>7, LastPartSet
<1>9. /\ Len(message) \in Nat /\ Len(attached) \in Nat /\ next \in Nat \ {0}
      /\ Len(message) = next /\ next <= Len(attached)
  BY <1>2, InHand
<1>10. MailTypes'
  <2>1. next' \in 1 .. Len(attached) + 1
    BY <1>2, <1>9
  <2>2. <<>> \in Seq(Byte)
    BY EmptySeq
  <2> QED
    BY <1>2, <1>8, <2>1, <2>2 DEF MailInv, MailTypes, Building
<1>11. Progress'
  BY <1>2, <1>8, <1>9 DEF Progress
<1>12. Named'
  BY <1>2, <1>8, NamesStay DEF Building
<1>13. AllDecode'
  <2>1. FromDisk /\ LinesSoFar(old.lines) /\ MailTypes
    BY <1>1, <1>2 DEF MailInv, Reading
  <2>2. Decodes(part)
    BY <1>2, <1>4, <1>6, <2>1, ReadPartDecodes
  <2> SUFFICES ASSUME NEW i \in 1 .. Len(message) PROVE Decodes(message'[i])
    BY <1>8 DEF AllDecode
  <2>3. CASE i = Len(message)
    BY <1>8, <2>2, <2>3
  <2>4. CASE i # Len(message)
    <3>1. Decodes(message[i])
      BY <2>4 DEF MailInv, AllDecode
    <3>2. message'[i] = message[i]
      BY <1>8, <2>4
    <3> QED
      BY <3>1, <3>2
  <2> QED
    BY <2>3, <2>4
<1>14. Reading'
  BY <1>2 DEF Reading
<1> QED
  BY <1>10, <1>11, <1>12, <1>13, <1>14 DEF MailInv

LEMMA EndMessageKeepsMail ==
  ASSUME MailInv, EndMessage PROVE MailInv'
<1>1. /\ pc = "names" /\ pc' = "handle" /\ next > Len(attached)
      /\ UNCHANGED <<disk, attached, next, filename, file, message>>
  BY DEF EndMessage, files, object, locals
<1>2. /\ Len(message) \in Nat /\ Len(attached) \in Nat /\ next \in Nat
      /\ Len(message) = next - 1 /\ Len(message) <= Len(attached)
  BY <1>1, LenProperties DEF MailInv, MailTypes, Progress
<1>3. MailTypes' /\ Progress'
  BY <1>1, <1>2 DEF MailInv, MailTypes, Progress, Building, file
<1> QED
  BY <1>1, <1>3, SameMessage DEF Building

\* The steps after the message is finished.
LEMMA SendingKeepsMail ==
  ASSUME MailInv, EasyInit \/ Perform \/ Complain \/ Return
  PROVE  MailInv'
<1>1. /\ UNCHANGED <<disk, attached, next, filename, file, message>>
      /\ pc \in {"handle", "perform", "check"} /\ pc' \in {"app", "perform", "check"}
  BY DEF EasyInit, Perform, Complain, Return, files, object, locals
<1>2. MailTypes'
  BY <1>1 DEF MailInv, MailTypes, file
<1>3. Progress'
  BY <1>1 DEF MailInv, Progress
<1> QED
  BY <1>1, <1>2, <1>3, SameMessage DEF Building

LEMMA StepKeepsMail == MailInv /\ [Next]_vars => MailInv'
<1> SUFFICES ASSUME MailInv, [Next]_vars PROVE MailInv'
  OBVIOUS
<1>1. CASE UNCHANGED vars
  <2>1. UNCHANGED <<disk, attached, pc, next, filename, length, taken, eof, held, message>>
    BY <1>1 DEF vars, files, object, locals, file
  <2>2. MailTypes' /\ Progress'
    BY <2>1 DEF MailInv, MailTypes, Progress
  <2>3. Named'
    BY <2>1, ZenonT(40) DEF MailInv, Named, NamesUpTo
  <2>4. AllDecode'
    BY <2>1 DEF MailInv, AllDecode
  <2>5. FromDisk => FromDisk'
    BY <2>1 DEF FromDisk
  <2>6. pc = "read" => LinesSoFar(message[Len(message)].lines)'
    BY <2>1 DEF MailInv, Reading, LinesSoFar, LinesOf
  <2>7. Reading'
    BY <2>1, <2>5, <2>6 DEF MailInv, Reading
  <2> QED
    BY <2>2, <2>3, <2>4, <2>7 DEF MailInv
<1> QED
  BY <1>1, ChangeKeepsMail, AddAttachmentKeepsMail, SendMailKeepsMail,
     PartHeaderKeepsMail, OpenFileKeepsMail, ReadBlockKeepsMail, ReadLineKeepsMail,
     CloseFileKeepsMail, EndMessageKeepsMail, SendingKeepsMail
  DEF Next, Mailer

LEMMA MailInvAlways == Spec => []MailInv
BY MailInvInitially, StepKeepsMail, PTL DEF Spec

\* A finished message has a part for every attachment, and what its lines decode
\* to is the file, if it did not change between ftell and fclose, and otherwise a
\* mixture of what it held in that time, as long as what was measured unless the
\* file was shorter for a while (CreatMessage, base64_encode and base64_decode);
\* for files, lines and blocks of any length and any number of attachments and
\* mails.
THEOREM AttachmentsAlwaysDecode == Spec => []AttachmentsDecode
<1>1. MailInv => AttachmentsDecode
  BY DEF MailInv, Progress, AllDecode, Decodes, AttachmentsDecode
<1> QED
  BY <1>1, MailInvAlways, PTL

\* A part is named after its path or after an earlier attachment of the same mail
\* (CreatMessage, GetFileName).
THEOREM NamesAreOfThisMail == Spec => []NamesOfThisMail
<1>1. MailInv => NamesOfThisMail
  BY DEF MailInv, Named, NamesUpTo, NamesOfThisMail
<1> QED
  BY <1>1, MailInvAlways, PTL

-----------------------------------------------------------------------------
\* Sending.

Unsent == {"names", "open", "read", "handle", "perform"}
SendInv ==
  /\ changes \in 0 .. MaxChanges /\ mails \in 0 .. MaxMails
  /\ nTimes \in 0 .. Tries + 1
  /\ failed \in BOOLEAN /\ ret \in BOOLEAN /\ handle \in BOOLEAN
  /\ copies \in {0, 1}
  /\ pc \in Unsent => copies = 0 /\ nTimes = 0
  /\ pc = "check" => /\ ~failed => copies = 1
                     /\ failed => nTimes <= Tries
                     /\ failed /\ nTimes > 0 => ~ret
  /\ pc = "app" /\ mails > 0 /\ ret /\ handle => copies = 1

LEMMA SendInvInitially == Init => SendInv
<1> SUFFICES ASSUME Init PROVE SendInv
  OBVIOUS
<1>1. {MaxFiles, MaxMails, MaxChanges} \subseteq Nat
  BY BoundsAssumption
<1>2. MaxMails \in Nat /\ MaxChanges \in Nat
  BY <1>1
<1>3. /\ pc = "app" /\ mails = 0 /\ changes = 0 /\ nTimes = 0 /\ copies = 0
      /\ failed = FALSE /\ ret = TRUE /\ handle = TRUE
  BY DEF Init
<1>4. changes \in 0 .. MaxChanges /\ mails \in 0 .. MaxMails /\ nTimes \in 0 .. Tries + 1
  BY <1>2, <1>3 DEF Tries
<1>5. failed \in BOOLEAN /\ ret \in BOOLEAN /\ handle \in BOOLEAN /\ copies \in {0, 1}
  BY <1>3
<1>6. pc \in Unsent => copies = 0 /\ nTimes = 0
  BY <1>3
<1>7. pc = "check" => /\ ~failed => copies = 1
                      /\ failed => nTimes <= Tries
                      /\ failed /\ nTimes > 0 => ~ret
  BY <1>3
<1>8. pc = "app" /\ mails > 0 /\ ret /\ handle => copies = 1
  <2>1. ~(mails > 0)
    BY <1>3
  <2> QED
    BY <2>1
<1> QED
  BY <1>4, <1>5, <1>6, <1>7, <1>8 DEF SendInv

LEMMA StepKeepsSend == SendInv /\ [Next]_vars => SendInv'
<1> SUFFICES ASSUME SendInv, [Next]_vars PROVE SendInv'
  OBVIOUS
<1> USE DEF SendInv, Unsent, Tries, files, object, locals, sending
<1>0. MaxMails \in Nat /\ MaxChanges \in Nat
  <2>1. {MaxFiles, MaxMails, MaxChanges} \subseteq Nat
    BY BoundsAssumption
  <2> QED
    BY <2>1
<1>1. ASSUME NEW p \in Paths, Change(p) \/ AddAttachment(p) PROVE SendInv'
  <2>1. /\ UNCHANGED <<mails, pc, nTimes, failed, ret, copies, handle>>
        /\ changes' = changes \/ (changes < MaxChanges /\ changes' = changes + 1)
    BY <1>1 DEF Change, AddAttachment
  <2> QED
    BY <1>0, <2>1
<1>2. CASE SendMail
  <2>1. /\ pc' = "names" /\ mails < MaxMails /\ mails' = mails + 1
        /\ nTimes' = 0 /\ failed' = FALSE /\ ret' = TRUE /\ copies' = 0 /\ handle' = TRUE
        /\ changes' = changes
    BY <1>2 DEF SendMail
  <2>2. mails' \in 0 .. MaxMails /\ nTimes' \in 0 .. Tries + 1
    BY <1>0, <2>1
  <2> QED
    BY <2>1, <2>2
<1>3. CASE PartHeader \/ OpenFile \/ ReadBlock \/ ReadLine \/ CloseFile \/ EndMessage
  BY <1>3 DEF PartHeader, OpenFile, ReadBlock, ReadLine, CloseFile, EndMessage
<1>4. CASE EasyInit
  <2>1. /\ UNCHANGED <<changes, mails, nTimes, failed, ret, copies>> /\ pc = "handle"
        /\ \/ pc' = "perform" /\ handle' = handle
           \/ pc' = "app" /\ handle' = FALSE
    BY <1>4 DEF EasyInit
  <2> QED
    BY <2>1
<1>5. CASE Perform
  <2>1. /\ changes' = changes /\ mails' = mails /\ nTimes' = nTimes /\ ret' = ret
        /\ handle' = handle /\ pc = "perform" /\ pc' = "check"
    BY <1>5 DEF Perform
  <2>2. copies = 0 /\ nTimes = 0
    BY <2>1
  <2>3. /\ failed' \in BOOLEAN
        /\ copies' = copies + 1 \/ (failed' = TRUE /\ copies' = copies)
    BY <1>5 DEF Perform
  <2>4. copies' \in {0, 1}
    BY <2>2, <2>3
  <2>5. ~failed' => copies' = 1
    <3>1. copies + 1 = 1
      BY <2>2
    <3> QED
      BY <2>3, <3>1
  <2>6. nTimes' = 0
    BY <2>1, <2>2
  <2>7. nTimes' <= 5 /\ ~(nTimes' > 0) /\ nTimes' \in 0 .. 6
    BY <2>6
  <2>8. /\ changes' \in 0 .. MaxChanges /\ mails' \in 0 .. MaxMails
        /\ ret' \in BOOLEAN /\ handle' \in BOOLEAN
    BY <2>1
  <2>9. pc' = "check" => /\ ~failed' => copies' = 1
                         /\ failed' => nTimes' <= Tries
                         /\ failed' /\ nTimes' > 0 => ~ret'
    BY <2>5, <2>7
  <2>a. nTimes' \in 0 .. Tries + 1
    BY <2>7
  <2>b. pc' \notin Unsent /\ pc' # "app"
    BY <2>1
  <2> QED
    BY <2>3, <2>4, <2>8, <2>9, <2>a, <2>b DEF SendInv
<1>6. CASE Complain
  <2>1. /\ changes' = changes /\ mails' = mails /\ failed' = failed
        /\ copies' = copies /\ handle' = handle
        /\ pc = "check" /\ failed /\ nTimes' = nTimes + 1
        /\ \/ nTimes' > 5 /\ pc' = "app" /\ ret' = ret
           \/ ~(nTimes' > 5) /\ pc' = "check" /\ ret' = FALSE
    BY <1>6 DEF Complain
  <2>2. nTimes \in Nat /\ nTimes <= 5
    BY <2>1
  <2>3. nTimes' \in 0 .. Tries + 1
    BY <2>1, <2>2
  <2>4. CASE nTimes' > 5
    <3>1. nTimes > 0 /\ pc' = "app" /\ ret' = ret
      BY <2>1, <2>2, <2>4
    <3>2. ~ret
      BY <2>1, <3>1
    <3> QED
      BY <2>1, <2>3, <3>1, <3>2
  <2>5. CASE ~(nTimes' > 5)
    <3>1. nTimes' <= 5 /\ pc' = "check" /\ ret' = FALSE
      BY <2>1, <2>2, <2>5
    <3> QED
      BY <2>1, <2>3, <3>1
  <2> QED
    BY <2>4, <2>5
<1>7. CASE Return
  BY <1>7 DEF Return
<1>8. CASE UNCHANGED vars
  BY <1>8 DEF vars
<1> QED
  BY <1>1, <1>2, <1>3, <1>4, <1>5, <1>6, <1>7, <1>8 DEF Next, Mailer

LEMMA SendInvAlways == Spec => []SendInv
BY SendInvInitially, StepKeepsSend, PTL DEF Spec

\* SendMail tells the truth when it returns true with a handle, and the server
\* never takes a second copy.
THEOREM MailIsTakenOnce == Spec => []TakenOnce
<1>1. SendInv => TakenOnce
  BY DEF SendInv, TakenOnce
<1> QED
  BY <1>1, SendInvAlways, PTL

\* Every variable of SmtpMail keeps its type.
THEOREM TypeCorrect == Spec => []TypeOK
<1>1. MailInv /\ SendInv => TypeOK
  <2> SUFFICES ASSUME MailInv, SendInv PROVE TypeOK
    OBVIOUS
  <2>1. Len(attached) \in Nat /\ MaxFiles \in Nat /\ message \in [1 .. Len(message) -> Parts]
    BY LenProperties, BoundsAssumption DEF MailInv, MailTypes
  <2>2. next \in 1 .. MaxFiles + 1
    BY <2>1 DEF MailInv, MailTypes
  <2>3. ASSUME NEW i \in 1 .. Len(message), NEW k \in 1 .. Len(message[i].lines)
        PROVE  message[i].lines[k] \in Seq(Digit \union {Pad})
    <3>1. message[i].lines \in Seq(Seq(Digit \union {Pad}))
      BY <2>1 DEF Parts
    <3> QED
      BY <3>1, ElementOfSeq
  <2>4. copies \in Nat
    BY DEF SendInv
  <2> QED
    BY <2>2, <2>3, <2>4 DEF MailInv, MailTypes, SendInv, TypeOK, Building
<1> QED
  BY <1>1, MailInvAlways, SendInvAlways, PTL

-----------------------------------------------------------------------------
\* URLs: a text from its end, and the pieces of one in their places.

LEMMA InductionDown ==
  ASSUME NEW n \in Nat, NEW T, n \in T, \A i \in 1 .. n : i \in T => i - 1 \in T
  PROVE  \A i \in 0 .. n : i \in T
<1>1. PICK U : U = {j \in 0 .. n : n - j \in T}
  OBVIOUS
<1>2. 0 \in U
  <2>1. n - 0 = n /\ 0 \in 0 .. n
    OBVIOUS
  <2> QED
    BY <1>1, <2>1
<1>3. \A j \in 1 .. n : j - 1 \in U => j \in U
  <2> SUFFICES ASSUME NEW j \in 1 .. n, j - 1 \in U PROVE j \in U
    OBVIOUS
  <2>1. n - (j - 1) \in T
    BY <1>1
  <2>2. n - (j - 1) \in 1 .. n /\ n - (j - 1) - 1 = n - j /\ j \in 0 .. n
    OBVIOUS
  <2>3. n - (j - 1) - 1 \in T
    BY <2>1, <2>2
  <2> QED
    BY <1>1, <2>2, <2>3
<1>4. \A j \in 0 .. n : j \in U
  BY <1>2, <1>3, Induction
<1>5. ASSUME NEW i \in 0 .. n PROVE i \in T
  <2>1. n - i \in 0 .. n /\ n - (n - i) = i
    OBVIOUS
  <2>2. n - i \in U
    BY <1>4, <2>1
  <2> QED
    BY <1>1, <2>1, <2>2
<1> QED
  BY <1>5

\* What deescapeURL makes of a text from its i-th character on.
Rest(text, f, i) ==
  IF i > Len(text) THEN <<>>
  ELSE IF text[i] # Percent THEN <<text[i]>> \o f[i + 1]
  ELSE <<(hexChar2dec(At(text, i, 0)) * 16
           + hexChar2dec(At(text, i + 1, 0))) % 256>> \o f[i + 3]
UnescapedFrom(text) ==
  \E g : /\ deescapeURL(text) = g[1]
         /\ \A i \in 1 .. Len(text) + 3 : g[i] = Rest(text, g, i)

LEMMA RestSame ==
  ASSUME NEW text, NEW f, NEW g, NEW i,
         i > Len(text) \/ (f[i + 1] = g[i + 1] /\ f[i + 3] = g[i + 3])
  PROVE  Rest(text, f, i) = Rest(text, g, i)
BY Zenon DEF Rest

LEMMA UnescapedIs ==
  ASSUME NEW text, Len(text) \in Nat
  PROVE  UnescapedFrom(text)
<1>1. PICK n \in Nat : n = Len(text)
  OBVIOUS
<1>2. PICK T : T = {k \in 0 .. n : \E g : g = [i \in 1 .. n + 3 |->
                      IF i > n - k THEN Rest(text, g, i) ELSE <<>>]}
  OBVIOUS
<1>3. 0 \in T
  <2>1. PICK g : g = [i \in 1 .. n + 3 |-> <<>>]
    OBVIOUS
  <2>2. \A i \in 1 .. n + 3 : g[i] = (IF i > n - 0 THEN Rest(text, g, i) ELSE <<>>)
    <3> TAKE i \in 1 .. n + 3
    <3>1. g[i] = <<>> /\ n - 0 = n
      BY <2>1
    <3>2. i > n => Rest(text, g, i) = <<>>
      BY <1>1 DEF Rest
    <3> QED
      BY <3>1, <3>2
  <2>3. g = [i \in 1 .. n + 3 |-> g[i]]
    BY <2>1
  <2>4. g = [i \in 1 .. n + 3 |-> IF i > n - 0 THEN Rest(text, g, i) ELSE <<>>]
    BY <2>2, <2>3
  <2>5. 0 \in 0 .. n
    OBVIOUS
  <2> QED
    BY <1>2, <2>4, <2>5
<1>4. ASSUME NEW k \in 1 .. n, k - 1 \in T PROVE k \in T
  <2>1. PICK g : g = [i \in 1 .. n + 3 |->
                        IF i > n - (k - 1) THEN Rest(text, g, i) ELSE <<>>]
    BY <1>2, <1>4
  <2>2. PICK h : h = [i \in 1 .. n + 3 |->
                        IF i > n - k THEN Rest(text, g, i) ELSE <<>>]
    OBVIOUS
  <2>3. ASSUME NEW i \in 1 .. n + 3, i > n - (k - 1) PROVE h[i] = g[i]
    <3>1. i > n - k
      BY <2>3
    <3> QED
      BY <2>1, <2>2, <2>3, <3>1
  <2>4. ASSUME NEW i \in 1 .. n + 3, i > n - k PROVE Rest(text, h, i) = Rest(text, g, i)
    <3>1. CASE i > n
      BY <1>1, <3>1, RestSame
    <3>2. CASE i <= n
      <4>1. /\ i + 1 \in 1 .. n + 3 /\ i + 1 > n - (k - 1)
            /\ i + 3 \in 1 .. n + 3 /\ i + 3 > n - (k - 1)
        BY <2>4, <3>2
      <4>2. h[i + 1] = g[i + 1] /\ h[i + 3] = g[i + 3]
        BY <2>3, <4>1
      <4> QED
        BY <4>2, RestSame
    <3> QED
      BY <3>1, <3>2
  <2>5. h = [i \in 1 .. n + 3 |-> IF i > n - k THEN Rest(text, h, i) ELSE <<>>]
    BY <2>2, <2>4
  <2>6. k \in 0 .. n
    OBVIOUS
  <2> QED
    BY <1>2, <2>5, <2>6
<1>5. PICK h : h = [i \in 1 .. n + 3 |-> Rest(text, h, i)]
  <2>1. \A k \in 0 .. n : k \in T
    BY <1>3, <1>4, Induction
  <2>a. n \in T
    BY <2>1
  <2>2. PICK h : h = [i \in 1 .. n + 3 |-> IF i > n - n THEN Rest(text, h, i) ELSE <<>>]
    BY <1>2, <2>a
  <2>3. \A i \in 1 .. n + 3 : i > n - n
    OBVIOUS
  <2>4. h = [i \in 1 .. n + 3 |-> Rest(text, h, i)]
    BY <2>2, <2>3
  <2> QED
    BY <2>4
<1>6. PICK g : g = CHOOSE f : f = [i \in 1 .. Len(text) + 3 |-> Rest(text, f, i)]
  OBVIOUS
<1>7. g = [i \in 1 .. Len(text) + 3 |-> Rest(text, g, i)]
  BY <1>1, <1>5, <1>6, Zenon
<1>8. deescapeURL(text) = g[1]
  BY <1>6, Zenon DEF deescapeURL, Rest
<1>9. \A i \in 1 .. Len(text) + 3 : g[i] = Rest(text, g, i)
  BY <1>7
<1> QED
  BY <1>8, <1>9 DEF UnescapedFrom

\* The bytes behind the i-th.
After(x, i) == [k \in 1 .. Len(x) - i |-> x[i + k]]

LEMMA AfterIs ==
  ASSUME NEW S, NEW x \in Seq(S), NEW i \in 0 .. Len(x)
  PROVE  /\ After(x, i) \in Seq(S) /\ Len(After(x, i)) = Len(x) - i
         /\ \A k \in 1 .. Len(x) - i : After(x, i)[k] = x[i + k]
<1>1. Len(x) \in Nat /\ Len(x) - i \in Nat
  BY LenProperties
<1>2. \A k \in 1 .. Len(x) - i : x[i + k] \in S
  <2> TAKE k \in 1 .. Len(x) - i
  <2>1. i + k \in 1 .. Len(x)
    BY <1>1
  <2> QED
    BY <2>1, ElementOfSeq
<1>3. PICK n \in Nat : n = Len(x) - i
  BY <1>1
<1>4. PICK a : a = After(x, i)
  OBVIOUS
<1>5. a \in [1 .. n -> S] /\ \A k \in 1 .. n : a[k] = x[i + k]
  BY <1>2, <1>3, <1>4 DEF After
<1>6. a \in Seq(S) /\ Len(a) = n
  BY <1>5, FunctionIsSeq
<1> QED
  BY <1>3, <1>4, <1>5, <1>6

LEMMA AfterAll ==
  ASSUME NEW S, NEW x \in Seq(S)
  PROVE  After(x, 0) = x /\ After(x, Len(x)) = <<>>
<1>1. Len(x) \in Nat /\ 0 \in 0 .. Len(x) /\ Len(x) \in 0 .. Len(x)
  BY LenProperties
<1>2. PICK a : a = After(x, 0)
  OBVIOUS
<1>3. a \in Seq(S) /\ Len(a) = Len(x) - 0 /\ \A k \in 1 .. Len(x) - 0 : a[k] = x[0 + k]
  BY <1>1, <1>2, AfterIs
<1>4. Len(a) = Len(x) /\ \A k \in 1 .. Len(a) : a[k] = x[k]
  BY <1>1, <1>3
<1>5. a = x
  BY <1>3, <1>4, SeqEqual
<1>6. PICK b : b = After(x, Len(x))
  OBVIOUS
<1>7. b \in Seq(S) /\ Len(b) = Len(x) - Len(x)
  BY <1>1, <1>6, AfterIs
<1>8. b = <<>>
  BY <1>1, <1>7, EmptySeq
<1> QED
  BY <1>2, <1>5, <1>6, <1>8

LEMMA AfterGrows ==
  ASSUME NEW S, NEW x \in Seq(S), NEW i \in 1 .. Len(x)
  PROVE  <<x[i]>> \o After(x, i) = After(x, i - 1)
<1>1. /\ Len(x) \in Nat /\ i \in 0 .. Len(x) /\ i - 1 \in 0 .. Len(x)
      /\ Len(x) - i \in Nat /\ Len(x) - (i - 1) = Len(x) - i + 1
  BY LenProperties
<1>2. PICK n \in Nat : n = Len(x) - i
  BY <1>1
<1>3. PICK a : a = After(x, i)
  OBVIOUS
<1>4. a \in Seq(S) /\ Len(a) = n /\ \A k \in 1 .. n : a[k] = x[i + k]
  BY <1>1, <1>2, <1>3, AfterIs
<1>5. PICK b : b = After(x, i - 1)
  OBVIOUS
<1>6. b \in Seq(S) /\ Len(b) = n + 1 /\ \A k \in 1 .. n + 1 : b[k] = x[i - 1 + k]
  <2>1. /\ b \in Seq(S) /\ Len(b) = Len(x) - (i - 1)
        /\ \A k \in 1 .. Len(x) - (i - 1) : b[k] = x[(i - 1) + k]
    BY <1>1, <1>5, AfterIs
  <2> QED
    BY <1>1, <1>2, <2>1
<1>7. PICK h : h = <<x[i]>>
  OBVIOUS
<1>8. h \in Seq(S) /\ Len(h) = 1 /\ h[1] = x[i]
  <2>1. x[i] \in S
    BY ElementOfSeq
  <2> QED
    BY <1>7, <2>1
<1>9. PICK r : r = h \o a
  OBVIOUS
<1>10. /\ r \in Seq(S) /\ Len(r) = 1 + n
       /\ \A k \in 1 .. 1 : r[k] = h[k]
       /\ \A k \in 1 .. n : r[1 + k] = a[k]
  <2>1. /\ h \o a \in Seq(S) /\ Len(h \o a) = Len(h) + Len(a)
        /\ \A k \in 1 .. Len(h) : (h \o a)[k] = h[k]
        /\ \A k \in 1 .. Len(a) : (h \o a)[Len(h) + k] = a[k]
    <3>1. h \in Seq(S) /\ a \in Seq(S)
      BY <1>4, <1>8
    <3> QED
      BY <3>1, ConcatIs
  <2> QED
    BY <1>4, <1>8, <1>9, <2>1
<1>11. ASSUME NEW k \in 1 .. n + 1 PROVE r[k] = b[k]
  <2>1. CASE k = 1
    <3>1. r[1] = x[i] /\ b[1] = x[i - 1 + 1] /\ i - 1 + 1 = i
      BY <1>6, <1>8, <1>10
    <3> QED
      BY <2>1, <3>1
  <2>2. CASE k # 1
    <3>1. PICK j \in 1 .. n : k = 1 + j
      <4>1. k - 1 \in 1 .. n /\ k = 1 + (k - 1)
        BY <2>2
      <4> QED
        BY <4>1
    <3>2. r[k] = x[i + j]
      BY <1>4, <1>10, <3>1
    <3>3. b[k] = x[i - 1 + k] /\ i - 1 + k = i + j
      BY <1>6, <3>1
    <3> QED
      BY <3>2, <3>3
  <2> QED
    BY <2>1, <2>2
<1>12. r = b
  <2>1. Len(r) = Len(b) /\ \A k \in 1 .. Len(r) : r[k] = b[k]
    BY <1>6, <1>10, <1>11
  <2> QED
    BY <1>6, <1>10, <2>1, SeqEqual
<1> QED
  BY <1>3, <1>5, <1>7, <1>9, <1>12

\* What deescapeURL reads as the byte c.
Stands(p, c) ==
  /\ p \in Seq(Int)
  /\ \/ Len(p) = 1 /\ p[1] = c /\ c # Percent
     \/ /\ Len(p) = 3 /\ p[1] = Percent
        /\ (hexChar2dec(p[2]) * 16 + hexChar2dec(p[3])) % 256 = c


\* Each of the pieces is in the text where it was put.
JoinedAt(S, pieces) ==
  \E u : /\ u[0] = <<>> /\ Joined(pieces) = u[Len(pieces)]
         /\ \A i \in 0 .. Len(pieces) :
              u[i] \in Seq(S) /\ Len(u[i]) <= Len(Joined(pieces))
         /\ \A i \in 1 .. Len(pieces) :
              /\ Len(u[i]) = Len(u[i - 1]) + Len(pieces[i])
              /\ \A k \in 1 .. Len(pieces[i]) :
                   Joined(pieces)[Len(u[i - 1]) + k] = pieces[i][k]

LEMMA PiecesInPlace ==
  ASSUME NEW S, NEW pieces \in Seq(Seq(S)) PROVE JoinedAt(S, pieces)
<1>1. PICK m \in Nat : m = Len(pieces)
  BY LenProperties
<1>2. PICK u \in [0 .. m -> Seq(S)] :
        /\ u[0] = <<>> /\ Joined(pieces) = u[m]
        /\ \A i \in 1 .. m : u[i] = u[i - 1] \o pieces[i]
  BY <1>1, JoinedIs DEF JoinedByOne
<1>3. PICK text : text = Joined(pieces)
  OBVIOUS
<1>4. \A i \in 0 .. m : u[i] \in Seq(S) /\ Len(u[i]) \in Nat
  BY <1>2, LenProperties
<1>5. ASSUME NEW i \in 1 .. m
      PROVE  /\ Len(u[i]) = Len(u[i - 1]) + Len(pieces[i]) /\ Len(pieces[i]) \in Nat
             /\ \A k \in 1 .. Len(u[i - 1]) : u[i][k] = u[i - 1][k]
             /\ \A k \in 1 .. Len(pieces[i]) : u[i][Len(u[i - 1]) + k] = pieces[i][k]
  <2>1. i - 1 \in 0 .. m
    OBVIOUS
  <2>2. PICK s \in Seq(S), t \in Seq(S) : s = u[i - 1] /\ t = pieces[i]
    BY <1>1, <1>2, <2>1, ElementOfSeq
  <2>3. u[i] = s \o t
    BY <1>2, <2>2
  <2>4. /\ Len(s \o t) = Len(s) + Len(t)
        /\ \A k \in 1 .. Len(s) : (s \o t)[k] = s[k]
        /\ \A k \in 1 .. Len(t) : (s \o t)[Len(s) + k] = t[k]
    BY ConcatIs
  <2>5. Len(t) \in Nat
    BY LenProperties
  <2> QED
    BY <2>2, <2>3, <2>4, <2>5
<1>6. PICK T : T = {i \in 0 .. m : /\ Len(u[i]) <= Len(text)
                                  /\ \A k \in 1 .. Len(u[i]) : text[k] = u[i][k]}
  OBVIOUS
<1>7. m \in T
  <2>1. m \in 0 .. m /\ Len(u[m]) <= Len(text)
    BY <1>2, <1>3, <1>4
  <2> QED
    BY <1>2, <1>3, <1>6, <2>1
<1>8. ASSUME NEW i \in 1 .. m, i \in T PROVE i - 1 \in T
  <2>1. i - 1 \in 0 .. m /\ i \in 0 .. m
    OBVIOUS
  <2>2. Len(u[i]) <= Len(text) /\ \A k \in 1 .. Len(u[i]) : text[k] = u[i][k]
    BY <1>6, <1>8
  <2>3. PICK a \in Nat, b \in Nat : a = Len(u[i - 1]) /\ b = Len(u[i])
    BY <1>4, <2>1
  <2>4. a <= b
    <3>1. Len(u[i]) = Len(u[i - 1]) + Len(pieces[i]) /\ Len(pieces[i]) \in Nat
      BY <1>5
    <3>2. PICK c \in Nat : c = Len(pieces[i])
      BY <3>1
    <3>3. b = a + c
      BY <2>3, <3>1, <3>2
    <3> QED
      BY <3>3
  <2>5. Len(text) \in Nat /\ Len(text) = Len(u[m])
    BY <1>2, <1>3, <1>4
  <2>6. a <= Len(text)
    BY <2>2, <2>3, <2>4, <2>5
  <2>7. \A k \in 1 .. a : text[k] = u[i - 1][k]
    <3> TAKE k \in 1 .. a
    <3>1. k \in 1 .. b
      BY <2>3, <2>4
    <3>2. text[k] = u[i][k]
      BY <2>2, <2>3, <3>1
    <3>3. u[i][k] = u[i - 1][k]
      BY <1>5, <2>3
    <3> QED
      BY <3>2, <3>3
  <2> QED
    BY <1>6, <2>1, <2>3, <2>6, <2>7
<1>9. \A i \in 0 .. m : i \in T
  BY <1>7, <1>8, InductionDown
<1>10. \A i \in 0 .. m : Len(u[i]) <= Len(text)
  BY <1>6, <1>9
<1>11. ASSUME NEW i \in 1 .. m, NEW k \in 1 .. Len(pieces[i])
       PROVE  text[Len(u[i - 1]) + k] = pieces[i][k]
  <2>1. i \in 0 .. m /\ i - 1 \in 0 .. m
    OBVIOUS
  <2>2. \A j \in 1 .. Len(u[i]) : text[j] = u[i][j]
    BY <1>6, <1>9, <2>1
  <2>3. PICK a \in Nat, b \in Nat : a = Len(u[i - 1]) /\ b = Len(pieces[i])
    BY <1>4, <1>5, <2>1
  <2>4. Len(u[i]) = a + b /\ u[i][a + k] = pieces[i][k]
    <3>1. /\ Len(u[i]) = Len(u[i - 1]) + Len(pieces[i])
          /\ u[i][Len(u[i - 1]) + k] = pieces[i][k]
      BY <1>5
    <3> QED
      BY <2>3, <3>1
  <2>5. a + k \in 1 .. a + b
    <3>1. k \in 1 .. b
      BY <2>3
    <3> QED
      BY <3>1
  <2> QED
    BY <2>2, <2>3, <2>4, <2>5
<1>12. \A i \in 1 .. m : Len(u[i]) = Len(u[i - 1]) + Len(pieces[i])
  BY <1>5
<1>13. /\ u[0] = <<>> /\ text = u[m]
       /\ \A i \in 0 .. m : u[i] \in Seq(S) /\ Len(u[i]) <= Len(text)
       /\ \A i \in 1 .. m :
            /\ Len(u[i]) = Len(u[i - 1]) + Len(pieces[i])
            /\ \A k \in 1 .. Len(pieces[i]) : text[Len(u[i - 1]) + k] = pieces[i][k]
  BY <1>2, <1>3, <1>4, <1>10, <1>11, <1>12
<1>14. /\ u[0] = <<>> /\ Joined(pieces) = u[Len(pieces)]
       /\ \A i \in 0 .. Len(pieces) :
            u[i] \in Seq(S) /\ Len(u[i]) <= Len(Joined(pieces))
       /\ \A i \in 1 .. Len(pieces) :
            /\ Len(u[i]) = Len(u[i - 1]) + Len(pieces[i])
            /\ \A k \in 1 .. Len(pieces[i]) :
                 Joined(pieces)[Len(u[i - 1]) + k] = pieces[i][k]
  BY <1>1, <1>3, <1>13
<1> QED
  BY <1>14, Zenon DEF JoinedAt

\* A text of such pieces is turned into the bytes they stand for.
LEMMA UnescapeInverts ==
  ASSUME NEW x \in Seq(Int), NEW pieces \in Seq(Seq(Int)), Len(pieces) = Len(x),
         \A i \in 1 .. Len(x) : Stands(pieces[i], x[i])
  PROVE  deescapeURL(Joined(pieces)) = x
<1>1. PICK m \in Nat : m = Len(x)
  BY LenProperties
<1>2. PICK text : text = Joined(pieces)
  OBVIOUS
<1>3. PICK u : /\ u[0] = <<>> /\ text = u[m]
               /\ \A i \in 0 .. m : u[i] \in Seq(Int) /\ Len(u[i]) <= Len(text)
               /\ \A i \in 1 .. m :
                    /\ Len(u[i]) = Len(u[i - 1]) + Len(pieces[i])
                    /\ \A k \in 1 .. Len(pieces[i]) :
                         text[Len(u[i - 1]) + k] = pieces[i][k]
  <2>1. JoinedAt(Int, pieces)
    BY PiecesInPlace
  <2>2. PICK u : /\ u[0] = <<>> /\ Joined(pieces) = u[Len(pieces)]
                 /\ \A i \in 0 .. Len(pieces) :
                      u[i] \in Seq(Int) /\ Len(u[i]) <= Len(Joined(pieces))
                 /\ \A i \in 1 .. Len(pieces) :
                      /\ Len(u[i]) = Len(u[i - 1]) + Len(pieces[i])
                      /\ \A k \in 1 .. Len(pieces[i]) :
                           Joined(pieces)[Len(u[i - 1]) + k] = pieces[i][k]
    BY <2>1, Zenon DEF JoinedAt
  <2>3. m = Len(pieces)
    BY <1>1
  <2>4. /\ u[0] = <<>> /\ text = u[m]
        /\ \A i \in 0 .. m : u[i] \in Seq(Int) /\ Len(u[i]) <= Len(text)
        /\ \A i \in 1 .. m :
             /\ Len(u[i]) = Len(u[i - 1]) + Len(pieces[i])
             /\ \A k \in 1 .. Len(pieces[i]) :
                  text[Len(u[i - 1]) + k] = pieces[i][k]
    BY <1>2, <2>2, <2>3
  <2> QED
    BY <2>4, ZenonT(40)
<1>4. \A i \in 0 .. m : Len(u[i]) \in Nat
  BY <1>3, LenProperties
<1>5. PICK n \in Nat : n = Len(text) /\ n = Len(u[m])
  BY <1>3, <1>4
<1>6. PICK g : /\ deescapeURL(text) = g[1]
               /\ \A i \in 1 .. n + 3 : g[i] = Rest(text, g, i)
  BY <1>5, UnescapedIs DEF UnescapedFrom
<1>7. PICK T : T = {i \in 0 .. m : g[Len(u[i]) + 1] = After(x, i)}
  OBVIOUS
<1>8. m \in T
  <2>1. n + 1 \in 1 .. n + 3 /\ n + 1 > n
    OBVIOUS
  <2>2. g[n + 1] = <<>>
    BY <1>5, <1>6, <2>1 DEF Rest
  <2>3. After(x, m) = <<>>
    BY <1>1, AfterAll
  <2>4. m \in 0 .. m
    OBVIOUS
  <2> QED
    BY <1>5, <1>7, <2>2, <2>3, <2>4
<1>9. ASSUME NEW i \in 1 .. m, i \in T PROVE i - 1 \in T
  <2>1. i - 1 \in 0 .. m /\ i \in 0 .. m
    OBVIOUS
  <2>2. PICK a \in Nat, b \in Nat : a = Len(u[i - 1]) /\ b = Len(u[i])
    BY <1>4, <2>1
  <2>3. b <= n
    BY <1>3, <1>5, <2>1, <2>2
  <2>4. PICK p, l : p = pieces[i] /\ l = Len(p)
    OBVIOUS
  <2>5. b = a + l /\ \A k \in 1 .. l : text[a + k] = p[k]
    BY <1>3, <2>2, <2>4
  <2>6. g[b + 1] = After(x, i)
    BY <1>7, <1>9, <2>2
  <2>7. Stands(p, x[i])
    BY <1>1, <2>4
  <2>8. <<x[i]>> \o After(x, i) = After(x, i - 1)
    BY <1>1, AfterGrows
  <2>9. CASE l = 1 /\ p[1] = x[i] /\ x[i] # Percent
    <3>1. text[a + 1] = x[i] /\ b = a + 1 /\ a + 1 <= n /\ a + 1 + 1 = b + 1
      BY <2>3, <2>5, <2>9
    <3>2. a + 1 \in 1 .. n + 3 /\ ~ (a + 1 > n)
      BY <3>1
    <3>3. g[a + 1] = Rest(text, g, a + 1)
      BY <1>6, <3>2
    <3>4. Rest(text, g, a + 1) = <<x[i]>> \o g[a + 1 + 1]
      BY <1>5, <2>9, <3>1, <3>2, Zenon DEF Rest
    <3>5. g[a + 1] = After(x, i - 1)
      BY <2>6, <2>8, <3>1, <3>3, <3>4
    <3> QED
      BY <1>7, <2>1, <2>2, <3>5
  <2>10. CASE /\ l = 3 /\ p[1] = Percent
              /\ (hexChar2dec(p[2]) * 16 + hexChar2dec(p[3])) % 256 = x[i]
    <3>1. /\ text[a + 1] = Percent /\ text[a + 2] = p[2] /\ text[a + 3] = p[3]
          /\ b = a + 3 /\ a + 3 <= n
      BY <2>3, <2>5, <2>10, SMTT(40)
    <3>2. /\ a + 1 \in 1 .. n + 3 /\ ~ (a + 1 > n) /\ a + 1 + 3 = b + 1
          /\ a + 1 < n /\ a + 1 + 1 < n /\ a + 1 + 1 = a + 2 /\ a + 1 + 1 + 1 = a + 3
      BY <3>1
    <3>3. g[a + 1] = Rest(text, g, a + 1)
      BY <1>6, <3>2
    <3>4. At(text, a + 1, 0) = p[2] /\ At(text, a + 1 + 1, 0) = p[3]
      BY <1>5, <3>1, <3>2, Zenon DEF At
    <3>5. Rest(text, g, a + 1)
            = <<(hexChar2dec(At(text, a + 1, 0)) * 16
                  + hexChar2dec(At(text, a + 1 + 1, 0))) % 256>> \o g[a + 1 + 3]
      BY <1>5, <3>1, <3>2, Zenon DEF Rest
    <3>6. Rest(text, g, a + 1) = <<x[i]>> \o g[b + 1]
      BY <2>10, <3>2, <3>4, <3>5, Zenon
    <3>7. g[a + 1] = After(x, i - 1)
      BY <2>6, <2>8, <3>3, <3>6
    <3> QED
      BY <1>7, <2>1, <2>2, <3>7
  <2> QED
    BY <2>4, <2>7, <2>9, <2>10 DEF Stands
<1>10. 0 \in T
  <2>1. \A i \in 0 .. m : i \in T
    BY <1>8, <1>9, InductionDown
  <2> QED
    BY <2>1
<1>11. Len(u[0]) = 0
  BY <1>3, EmptySeq
<1>12. g[0 + 1] = After(x, 0)
  BY <1>7, <1>10, <1>11
<1>13. After(x, 0) = x
  BY AfterAll
<1> QED
  BY <1>2, <1>6, <1>12, <1>13

-----------------------------------------------------------------------------
\* escapeURL and urlEncode.

LEMMA HexBack ==
  ASSUME NEW n \in 0 .. 15
  PROVE  hexChar2dec(dec2hexChar(n)) = n /\ dec2hexChar(n) \in Nat
BY DEF hexChar2dec, dec2hexChar

LEMMA HexStands ==
  ASSUME NEW c \in Byte PROVE Stands(<<Percent>> \o Hex(c), c)
<1>1. PICK h, l : h = dec2hexChar(c \div 16) /\ l = dec2hexChar(c % 16)
  OBVIOUS
<1>2. /\ c \div 16 \in 0 .. 15 /\ c % 16 \in 0 .. 15
      /\ ((c \div 16) * 16 + (c % 16)) % 256 = c
  BY DEF Byte
<1>3. /\ h \in Nat /\ l \in Nat
      /\ hexChar2dec(h) = c \div 16 /\ hexChar2dec(l) = c % 16
  BY <1>1, <1>2, HexBack
<1>4. PICK s, t : s = <<Percent>> /\ t = Hex(c)
  OBVIOUS
<1>5. s \in Seq(Int) /\ Len(s) = 1 /\ s[1] = Percent
  BY <1>4 DEF Percent
<1>6. t = <<h, l>>
  BY <1>1, <1>4 DEF Hex
<1>7. t \in Seq(Int) /\ Len(t) = 2 /\ t[1] = h /\ t[2] = l
  BY <1>3, <1>6
<1>8. PICK p : p = s \o t
  OBVIOUS
<1>9. /\ p \in Seq(Int) /\ Len(p) = 3 /\ p[1] = Percent /\ p[2] = h /\ p[3] = l
  <2>1. s \in Seq(Int) /\ t \in Seq(Int)
    BY <1>5, <1>7
  <2>2. /\ s \o t \in Seq(Int) /\ Len(s \o t) = Len(s) + Len(t)
        /\ \A k \in 1 .. Len(s) : (s \o t)[k] = s[k]
        /\ \A k \in 1 .. Len(t) : (s \o t)[Len(s) + k] = t[k]
    BY <2>1, ConcatIs
  <2>3. /\ Len(p) = 1 + 2 /\ \A k \in 1 .. 1 : p[k] = s[k]
        /\ \A k \in 1 .. 2 : p[1 + k] = t[k]
    BY <1>5, <1>7, <1>8, <2>2
  <2>4. p[1] = s[1] /\ p[2] = t[1] /\ p[3] = t[2]
    BY <2>3
  <2> QED
    BY <1>5, <1>7, <1>8, <2>2, <2>3, <2>4
<1>10. (hexChar2dec(p[2]) * 16 + hexChar2dec(p[3])) % 256 = c
  BY <1>2, <1>3, <1>9
<1>11. Stands(p, c)
  BY <1>9, <1>10 DEF Stands
<1> QED
  BY <1>4, <1>8, <1>11

LEMMA ItselfStands ==
  ASSUME NEW c \in Int, c # Percent PROVE Stands(<<c>>, c)
<1>1. PICK p : p = <<c>>
  OBVIOUS
<1>2. p \in Seq(Int) /\ Len(p) = 1 /\ p[1] = c
  BY <1>1
<1>3. Stands(p, c)
  BY <1>2 DEF Stands
<1> QED
  BY <1>1, <1>3

LEMMA WiderSeq ==
  ASSUME NEW S, NEW V, S \subseteq V, NEW x \in Seq(S) PROVE x \in Seq(V)
<1>1. PICK m \in Nat : m = Len(x)
  BY LenProperties
<1>2. x \in [1 .. m -> S]
  BY <1>1, LenProperties
<1>3. x \in [1 .. m -> V]
  BY <1>2
<1> QED
  BY <1>3, FunctionIsSeq

\* escapeURL is inverted for all bytes.
LEMMA EscapeIsInverted ==
  ASSUME NEW x \in Seq(Byte) PROVE deescapeURL(escapeURL(x)) = x
<1>1. PICK m \in Nat : m = Len(x)
  BY LenProperties
<1>2. PICK ps : ps = [i \in 1 .. Len(x) |->
                        IF x[i] \in Alnum \union {47, 46} THEN <<x[i]>>
                        ELSE <<Percent>> \o Hex(x[i])]
  OBVIOUS
<1>3. escapeURL(x) = Joined(ps)
  BY <1>2 DEF escapeURL
<1>4. ASSUME NEW i \in 1 .. m PROVE Stands(ps[i], x[i])
  <2>1. x[i] \in Byte
    BY <1>1, ElementOfSeq
  <2>2. ps[i] = IF x[i] \in Alnum \union {47, 46} THEN <<x[i]>>
                ELSE <<Percent>> \o Hex(x[i])
    BY <1>1, <1>2
  <2>3. CASE x[i] \in Alnum \union {47, 46}
    <3>1. x[i] \in Int /\ x[i] # Percent
      <4>1. PICK c : c = x[i]
        OBVIOUS
      <4>2. c \in Alnum \union {47, 46}
        BY <2>3, <4>1
      <4>3. c \in Int /\ c # 37
        BY <4>2 DEF Alnum
      <4> QED
        BY <4>1, <4>3 DEF Percent
    <3>2. ps[i] = <<x[i]>>
      BY <2>2, <2>3
    <3> QED
      BY <3>1, <3>2, ItselfStands
  <2>4. CASE x[i] \notin Alnum \union {47, 46}
    <3>1. ps[i] = <<Percent>> \o Hex(x[i])
      BY <2>2, <2>4
    <3> QED
      BY <2>1, <3>1, HexStands
  <2> QED
    BY <2>3, <2>4
<1>5. ps \in Seq(Seq(Int)) /\ Len(ps) = m
  <2>1. \A i \in 1 .. m : ps[i] \in Seq(Int)
    BY <1>4 DEF Stands
  <2>2. ps \in [1 .. m -> Seq(Int)]
    BY <1>1, <1>2, <2>1
  <2>3. PICK V : V = Seq(Int)
    OBVIOUS
  <2> QED
    BY <2>2, <2>3, FunctionIsSeq
<1>6. x \in Seq(Int)
  <2>1. Byte \subseteq Int
    BY DEF Byte
  <2> QED
    BY <2>1, WiderSeq
<1>7. deescapeURL(Joined(ps)) = x
  BY <1>1, <1>4, <1>5, <1>6, UnescapeInverts
<1> QED
  BY <1>3, <1>7

\* urlEncode is inverted for the characters 1 to 127.
LEMMA CStringIs ==
  ASSUME NEW x \in Seq(1 .. 127) PROVE CString(x) = x
<1>1. PICK m \in Nat : m = Len(x)
  BY LenProperties
<1>2. \A k \in 1 .. m : x[k] \in 1 .. 127
  BY <1>1, ElementOfSeq
<1>3. PICK n : n = CHOOSE i \in 0 .. Len(x) :
                     /\ \A k \in 1 .. i : x[k] # 0
                     /\ i < Len(x) => x[i + 1] = 0
  OBVIOUS
<1>4. \A k \in 1 .. m : x[k] # 0
  <2> TAKE k \in 1 .. m
  <2>1. PICK c \in 1 .. 127 : c = x[k]
    BY <1>2
  <2>2. c # 0
    OBVIOUS
  <2> QED
    BY <2>1, <2>2
<1>5. \E k \in 0 .. Len(x) : /\ \A j \in 1 .. k : x[j] # 0
                             /\ k < Len(x) => x[k + 1] = 0
  <2>1. m \in 0 .. Len(x) /\ ~ (m < Len(x))
    BY <1>1
  <2> QED
    BY <1>4, <2>1
<1>6. n \in 0 .. Len(x) /\ (n < Len(x) => x[n + 1] = 0)
  BY <1>3, <1>5
<1>7. n = m
  <2>1. ASSUME n < m PROVE FALSE
    <3>1. n + 1 \in 1 .. m
      BY <1>1, <1>6, <2>1
    <3> QED
      BY <1>1, <1>4, <1>6, <2>1, <3>1
  <2> QED
    BY <1>1, <1>6, <2>1
<1>8. CString(x) = SubSeq(x, 1, n)
  BY <1>3 DEF CString
<1>9. PICK f : f = SubSeq(x, 1, m)
  OBVIOUS
<1>10. /\ f \in Seq(1 .. 127) /\ Len(f) = (IF 1 <= m THEN m - 1 + 1 ELSE 0)
       /\ \A i \in 1 .. m - 1 + 1 : f[i] = x[1 + i - 1]
  BY <1>1, <1>2, <1>9, SubSeqProperties
<1>11. Len(f) = m /\ \A i \in 1 .. m : f[i] = x[i]
  BY <1>1, <1>10
<1>12. f = x
  BY <1>1, <1>10, <1>11, SeqEqual
<1> QED
  BY <1>7, <1>8, <1>9, <1>12

LEMMA UrlEncodeIsInverted ==
  ASSUME NEW x \in Seq(1 .. 127) PROVE deescapeURL(urlEncode(x)) = x
<1>1. PICK m \in Nat : m = Len(x)
  BY LenProperties
<1>2. PICK ps : ps = [i \in 1 .. Len(x) |-> urlPiece(x[i])]
  OBVIOUS
<1>3. urlEncode(x) = Joined(ps)
  BY <1>2, CStringIs DEF urlEncode
<1>4. ASSUME NEW i \in 1 .. m PROVE Stands(ps[i], x[i])
  <2>1. PICK c : c = x[i]
    OBVIOUS
  <2>2. c \in 1 .. 127 /\ c \in Byte
    <3>1. c \in 1 .. 127
      BY <1>1, <2>1, ElementOfSeq
    <3> QED
      BY <3>1 DEF Byte
  <2>3. ps[i] = urlPiece(c)
    BY <1>1, <1>2, <2>1
  <2>4. CASE c \in Alnum \union {45, 95, 46, 126}
    <3>1. c \in Int /\ c # Percent
      BY <2>2, <2>4 DEF Alnum, Percent
    <3>2. ps[i] = <<c>>
      BY <2>3, <2>4 DEF urlPiece
    <3> QED
      BY <2>1, <3>1, <3>2, ItselfStands
  <2>5. CASE c \notin Alnum \union {45, 95, 46, 126}
    <3>1. ~ (c >= 128)
      BY <2>2
    <3>2. ps[i] = <<Percent>> \o Hex(c)
      BY <2>3, <2>5, <3>1 DEF urlPiece
    <3> QED
      BY <2>1, <2>2, <3>2, HexStands
  <2> QED
    BY <2>4, <2>5
<1>5. ps \in Seq(Seq(Int)) /\ Len(ps) = m
  <2>1. \A i \in 1 .. m : ps[i] \in Seq(Int)
    BY <1>4 DEF Stands
  <2>2. ps \in [1 .. m -> Seq(Int)]
    BY <1>1, <1>2, <2>1
  <2>3. PICK V : V = Seq(Int)
    OBVIOUS
  <2> QED
    BY <2>2, <2>3, FunctionIsSeq
<1>6. x \in Seq(Int)
  <2>1. PICK S, V : S = 1 .. 127 /\ V = Int
    OBVIOUS
  <2>2. S \subseteq V /\ x \in Seq(S)
    BY <2>1
  <2>3. x \in Seq(V)
    BY <2>2, WiderSeq
  <2> QED
    BY <2>1, <2>3
<1>7. deescapeURL(Joined(ps)) = x
  BY <1>1, <1>4, <1>5, <1>6, UnescapeInverts
<1> QED
  BY <1>3, <1>7

\* The characters of a base64 text are such.
Char(d) ==
  CASE d \in 0 .. 25 -> 65 + d
    [] d \in 26 .. 51 -> 71 + d
    [] d \in 52 .. 61 -> d - 4
    [] d = 62 -> 43
    [] d = 63 -> 47
    [] d = Pad -> 61

LEMMA CharIs ==
  ASSUME NEW d \in Digit \union {Pad} PROVE Char(d) \in 1 .. 127
<1>1. d \in 0 .. 64
  BY DEF Digit, Pad
<1>2. CASE d \in 0 .. 25
  <2>1. Char(d) = 65 + d
    BY <1>2 DEF Char, Pad
  <2> QED
    BY <1>2, <2>1
<1>3. CASE d \in 26 .. 51
  <2>1. Char(d) = 71 + d
    BY <1>3 DEF Char, Pad
  <2> QED
    BY <1>3, <2>1
<1>4. CASE d \in 52 .. 61
  <2>1. Char(d) = d - 4
    BY <1>4 DEF Char, Pad
  <2> QED
    BY <1>4, <2>1
<1>5. CASE d \in {62, 63, 64}
  <2>1. Char(d) \in {43, 47, 61}
    BY <1>5 DEF Char, Pad
  <2> QED
    BY <2>1
<1> QED
  BY <1>1, <1>2, <1>3, <1>4, <1>5

LEMMA CharsArePrintable ==
  ASSUME NEW t \in Seq(Digit \union {Pad})
  PROVE  base64_chars(t) \in Seq(1 .. 127)
<1>1. PICK m \in Nat : m = Len(t)
  BY LenProperties
<1>2. DOMAIN t = 1 .. m /\ \A k \in 1 .. m : t[k] \in Digit \union {Pad}
  BY <1>1, LenProperties, ElementOfSeq
<1>3. PICK c : c = base64_chars(t)
  OBVIOUS
<1>4. c = [k \in DOMAIN t |-> Char(t[k])]
  BY <1>3 DEF base64_chars, Char
<1>5. \A k \in 1 .. m : Char(t[k]) \in 1 .. 127
  BY <1>2, CharIs
<1>6. c \in [1 .. m -> 1 .. 127]
  BY <1>2, <1>4, <1>5
<1>7. PICK V : V = 1 .. 127
  OBVIOUS
<1> QED
  BY <1>3, <1>6, <1>7, FunctionIsSeq

\* Every text has a last digit.
LEMMA TextEnds ==
  ASSUME NEW text, Len(text) \in Nat
  PROVE  Ended(text, Valid(text))
<1>1. PICK l \in Nat : l = Len(text)
  OBVIOUS
<1>2. PICK T : T = {n \in 0 .. l : n < l => text[n + 1] \notin Digit}
  OBVIOUS
<1>3. l \in T /\ T \subseteq Nat
  BY <1>2
<1>4. PICK n \in T : \A k \in T : n <= k
  BY <1>3, LeastNumber
<1>5. ASSUME NEW k \in 1 .. n PROVE text[k] \in Digit
  <2>1. k - 1 \in 0 .. l /\ k - 1 < l /\ k - 1 + 1 = k /\ ~ (n <= k - 1)
    BY <1>2, <1>4
  <2>2. k - 1 \notin T
    BY <1>4, <2>1
  <2> QED
    BY <1>2, <2>1, <2>2
<1>6. Ended(text, n)
  BY <1>1, <1>2, <1>4, <1>5 DEF Ended
<1> QED
  BY <1>6, ValidIs

-----------------------------------------------------------------------------
\* The pair that shifts: a step for each byte, or digit.

EncodeStep(p, x) ==
  LET v == Wrap(p.val * 256 + x)
      b == p.valb + 8
  IN  IF b < 6
      THEN [val |-> v, valb |-> b - 6, out |-> Append(p.out, Low6(v, b))]
      ELSE [val |-> v, valb |-> b - 12,
            out |-> p.out \o <<Low6(v, b), Low6(v, b - 6)>>]
DecodeStep(p, x) ==
  LET v == Wrap(p.val * 64 + x)
      b == p.valb + 6
  IN  IF b < 0 THEN [val |-> v, valb |-> b, out |-> p.out]
      ELSE [val |-> v, valb |-> b - 8, out |-> Append(p.out, (v \div 2 ^ b) % 256)]
Shifted(encode, p, x) == IF encode THEN EncodeStep(p, x) ELSE DecodeStep(p, x)
ShiftsExist(encode, n, x, a) ==
  \E g : g = [i \in 0 .. n |-> IF i = 0 THEN a ELSE Shifted(encode, g[i - 1], x[i])]

LEMMA ShiftsDoExist ==
  ASSUME NEW encode, NEW n \in Nat, NEW x, NEW a
  PROVE  ShiftsExist(encode, n, x, a)
<1>1. PICK T : T = {k \in 0 .. n : \E g : g = [i \in 0 .. n |->
                      IF i = 0 \/ i > k THEN a ELSE Shifted(encode, g[i - 1], x[i])]}
  OBVIOUS
<1>2. 0 \in T
  <2>1. PICK g : g = [i \in 0 .. n |-> a]
    OBVIOUS
  <2>2. \A i \in 0 .. n : i = 0 \/ i > 0
    OBVIOUS
  <2>3. g = [i \in 0 .. n |-> IF i = 0 \/ i > 0 THEN a ELSE Shifted(encode, g[i - 1], x[i])]
    BY <2>1, <2>2
  <2> QED
    BY <1>1, <2>3
<1>3. ASSUME NEW k \in 1 .. n, k - 1 \in T PROVE k \in T
  <2>1. PICK g : g = [i \in 0 .. n |->
                        IF i = 0 \/ i > k - 1 THEN a ELSE Shifted(encode, g[i - 1], x[i])]
    BY <1>1, <1>3
  <2>2. PICK h : h = [i \in 0 .. n |->
                        IF i = 0 \/ i > k THEN a ELSE Shifted(encode, g[i - 1], x[i])]
    OBVIOUS
  <2>3. ASSUME NEW i \in 0 .. n, ~ (i > k - 1) PROVE h[i] = g[i]
    <3>1. ~ (i > k)
      BY <2>3
    <3> QED
      BY <2>1, <2>2, <2>3, <3>1
  <2>4. ASSUME NEW i \in 0 .. n, i # 0, ~ (i > k) PROVE h[i - 1] = g[i - 1]
    <3>1. i - 1 \in 0 .. n /\ ~ (i - 1 > k - 1)
      BY <2>4
    <3> QED
      BY <2>3, <3>1
  <2>5. h = [i \in 0 .. n |->
               IF i = 0 \/ i > k THEN a ELSE Shifted(encode, h[i - 1], x[i])]
    BY <2>2, <2>4
  <2>6. k \in 0 .. n
    OBVIOUS
  <2> QED
    BY <1>1, <2>5, <2>6
<1>4. n \in T
  <2>1. \A k \in 0 .. n : k \in T
    BY <1>2, <1>3, Induction
  <2> QED
    BY <2>1
<1>5. PICK h : h = [i \in 0 .. n |->
                      IF i = 0 \/ i > n THEN a ELSE Shifted(encode, h[i - 1], x[i])]
  BY <1>1, <1>4
<1>6. \A i \in 0 .. n : ~ (i > n)
  OBVIOUS
<1>7. h = [i \in 0 .. n |-> IF i = 0 THEN a ELSE Shifted(encode, h[i - 1], x[i])]
  BY <1>5, <1>6
<1> QED
  BY <1>7 DEF ShiftsExist

\* The states of base64_decodestr after each digit.
DecodedBySteps(text, n) ==
  \E u : /\ base64_decodestr(text) = u[n].out
         /\ u[0] = [val |-> 0, valb |-> -8, out |-> <<>>]
         /\ \A i \in 1 .. n : u[i] = DecodeStep(u[i - 1], text[i])

LEMMA DecodestrIs ==
  ASSUME NEW text, NEW n \in Nat, n = Valid(text)
  PROVE  DecodedBySteps(text, n)
<1>1. PICK a : a = [val |-> 0, valb |-> -8, out |-> <<>>]
  OBVIOUS
<1>2. PICK h : h = [i \in 0 .. n |-> IF i = 0 THEN a ELSE DecodeStep(h[i - 1], text[i])]
  <2>1. ShiftsExist(FALSE, n, text, a)
    BY ShiftsDoExist
  <2>2. PICK h : h = [i \in 0 .. n |-> IF i = 0 THEN a
                                       ELSE Shifted(FALSE, h[i - 1], text[i])]
    BY <2>1 DEF ShiftsExist
  <2>3. h = [i \in 0 .. n |-> IF i = 0 THEN a ELSE DecodeStep(h[i - 1], text[i])]
    BY <2>2, Zenon DEF Shifted
  <2> QED
    BY <2>3
<1>3. PICK u : u = CHOOSE g : g = [i \in 0 .. Valid(text) |->
                  IF i = 0 THEN [val |-> 0, valb |-> -8, out |-> <<>>]
                  ELSE DecodeStep(g[i - 1], text[i])]
  OBVIOUS
<1>4. u = [i \in 0 .. Valid(text) |->
             IF i = 0 THEN [val |-> 0, valb |-> -8, out |-> <<>>]
             ELSE DecodeStep(u[i - 1], text[i])]
  BY <1>1, <1>2, <1>3, Zenon
<1>5. base64_decodestr(text) = u[Valid(text)].out
  BY <1>3, Zenon DEF base64_decodestr, DecodeStep
<1>6. \A i \in 0 .. n : u[i] = IF i = 0 THEN a ELSE DecodeStep(u[i - 1], text[i])
  BY <1>1, <1>4
<1>7. \A i \in 1 .. n : u[i] = DecodeStep(u[i - 1], text[i])
  <2> TAKE i \in 1 .. n
  <2>1. i \in 0 .. n /\ i # 0
    OBVIOUS
  <2> QED
    BY <1>6, <2>1
<1>8. u[0] = a
  BY <1>6
<1> QED
  BY <1>1, <1>5, <1>7, <1>8, Zenon DEF DecodedBySteps

\* The states of base64_encodestr after each byte, and its end.
LastDigit(p) ==
  IF p.valb > -6 THEN Append(p.out, Low6(p.val * 256, p.valb + 8)) ELSE p.out
Padded(out) == out \o [k \in 1 .. (-Len(out)) % 4 |-> Pad]
EncodedBySteps(x, n) ==
  \E u : /\ base64_encodestr(x) = Padded(LastDigit(u[n]))
         /\ u[0] = [val |-> 0, valb |-> -6, out |-> <<>>]
         /\ \A i \in 1 .. n : u[i] = EncodeStep(u[i - 1], x[i])

LEMMA EncodestrIs ==
  ASSUME NEW x, NEW n \in Nat, n = Len(x)
  PROVE  EncodedBySteps(x, n)
<1>1. PICK a : a = [val |-> 0, valb |-> -6, out |-> <<>>]
  OBVIOUS
<1>2. PICK h : h = [i \in 0 .. n |-> IF i = 0 THEN a ELSE EncodeStep(h[i - 1], x[i])]
  <2>1. ShiftsExist(TRUE, n, x, a)
    BY ShiftsDoExist
  <2>2. PICK h : h = [i \in 0 .. n |-> IF i = 0 THEN a
                                       ELSE Shifted(TRUE, h[i - 1], x[i])]
    BY <2>1 DEF ShiftsExist
  <2>3. h = [i \in 0 .. n |-> IF i = 0 THEN a ELSE EncodeStep(h[i - 1], x[i])]
    BY <2>2, Zenon DEF Shifted
  <2> QED
    BY <2>3
<1>3. PICK u : u = CHOOSE g : g = [i \in 0 .. Len(x) |->
                  IF i = 0 THEN [val |-> 0, valb |-> -6, out |-> <<>>]
                  ELSE EncodeStep(g[i - 1], x[i])]
  OBVIOUS
<1>4. u = [i \in 0 .. Len(x) |->
             IF i = 0 THEN [val |-> 0, valb |-> -6, out |-> <<>>]
             ELSE EncodeStep(u[i - 1], x[i])]
  BY <1>1, <1>2, <1>3, Zenon
<1>5. base64_encodestr(x) = Padded(LastDigit(u[Len(x)]))
  <2>1. base64_encodestr(x)
          = Padded(LastDigit((CHOOSE g : g = [i \in 0 .. Len(x) |->
                                IF i = 0 THEN [val |-> 0, valb |-> -6, out |-> <<>>]
                                ELSE EncodeStep(g[i - 1], x[i])])[Len(x)]))
    BY Zenon DEF base64_encodestr, EncodeStep, LastDigit, Padded
  <2> QED
    BY <1>3, <2>1, Zenon
<1>6. \A i \in 0 .. n : u[i] = IF i = 0 THEN a ELSE EncodeStep(u[i - 1], x[i])
  BY <1>1, <1>4
<1>7. \A i \in 1 .. n : u[i] = EncodeStep(u[i - 1], x[i])
  <2> TAKE i \in 1 .. n
  <2>1. i \in 0 .. n /\ i # 0
    OBVIOUS
  <2> QED
    BY <1>6, <2>1
<1>8. u[0] = a
  BY <1>6
<1> QED
  BY <1>1, <1>5, <1>7, <1>8, Zenon DEF EncodedBySteps

-----------------------------------------------------------------------------
\* Their numbers.

LEMMA WrapIs ==
  ASSUME NEW x \in Nat
  PROVE  Wrap(x) \in Nat /\ \E j \in Int : Wrap(x) = 4096 * j + x
<1>1. Wrap(x) \in Nat /\ Wrap(x) = x - 65536 * (x \div 65536) /\ x \div 65536 \in Nat
  BY DEF Wrap
<1>2. PICK k \in Nat : k = x \div 65536
  BY <1>1
<1>3. PICK j \in Int : j = 0 - 16 * k
  OBVIOUS
<1>4. Wrap(x) = 4096 * j + x
  BY <1>1, <1>2, <1>3
<1> QED
  BY <1>1, <1>4

LEMMA DivMod ==
  ASSUME NEW x \in Nat, NEW n \in {4, 16, 64, 256}
  PROVE  \E q \in Nat, r \in 0 .. n - 1 : x = n * q + r /\ x \div n = q /\ x % n = r
<1>1. CASE n = 4
  BY <1>1
<1>2. CASE n = 16
  BY <1>2
<1>3. CASE n = 64
  BY <1>3
<1>4. CASE n = 256
  BY <1>4
<1> QED
  BY <1>1, <1>2, <1>3, <1>4

\* What the low bits of val hold when digit d is shifted in after digit c, or
\* byte d after byte c.
LowBitsAre(v, c, d) ==
  /\ v \in Nat /\ v % 64 = d
  /\ (v \div 16) % 256 = (c * 4 + ((d \div 16) % 4)) % 256
  /\ (v \div 4) % 256 = ((c % 16) * 16 + ((d \div 4) % 16)) % 256
  /\ v % 256 = ((c % 4) * 64 + d) % 256
LowBytesAre(v, c, d) ==
  /\ v \in Nat /\ v % 256 = d
  /\ (v \div 4) % 64 = d \div 4
  /\ (v \div 16) % 64 = (c % 4) * 16 + d \div 16
  /\ (v \div 64) % 64 = (c % 16) * 4 + d \div 64
  /\ v % 64 = d % 64

LEMMA LowBits ==
  ASSUME NEW w \in Nat, NEW c \in Digit, w % 64 = c, NEW d \in Digit,
         NEW v, v = Wrap(w * 64 + d)
  PROVE  LowBitsAre(v, c, d)
<1>1. c \in 0 .. 63 /\ d \in 0 .. 63
  BY DEF Digit
<1>2. PICK k \in Nat : w = 64 * k + c
  BY DivMod, SMTT(40)
<1>3. w * 64 + d \in Nat /\ w * 64 + d = 4096 * k + 64 * c + d
  BY <1>1, <1>2
<1>4. PICK j \in Int : v \in Nat /\ v = 4096 * j + 64 * c + d
  <2>1. PICK x \in Nat : x = w * 64 + d
    BY <1>3
  <2>2. PICK i \in Int : Wrap(x) \in Nat /\ Wrap(x) = 4096 * i + x
    BY WrapIs
  <2>3. v = Wrap(x)
    BY <2>1
  <2>4. PICK j \in Int : j = i + k
    OBVIOUS
  <2>5. v = 4096 * j + 64 * c + d
    BY <1>1, <1>3, <2>1, <2>2, <2>3, <2>4
  <2> QED
    BY <2>2, <2>3, <2>5
<1>5. PICK f \in 0 .. 3, g \in 0 .. 15 : /\ d = 16 * f + g /\ d \div 16 = f
  <2>1. PICK f \in Nat, g \in 0 .. 15 : d = 16 * f + g /\ d \div 16 = f
    BY <1>1, DivMod
  <2>2. f \in 0 .. 3
    BY <1>1, <2>1
  <2> QED
    BY <2>1, <2>2
<1>6. v % 64 = d
  <2>1. v = 64 * (64 * j + c) + d
    BY <1>1, <1>4
  <2> QED
    BY <1>1, <2>1
<1>7. (v \div 16) % 256 = (c * 4 + ((d \div 16) % 4)) % 256
  <2>1. v = 16 * (256 * j + 4 * c + f) + g
    BY <1>1, <1>4, <1>5
  <2>2. v \div 16 = 256 * j + (4 * c + f)
    BY <1>1, <2>1
  <2>3. 4 * c + f \in 0 .. 255
    BY <1>1
  <2>4. (v \div 16) % 256 = 4 * c + f
    BY <2>2, <2>3
  <2>5. f % 4 = f
    OBVIOUS
  <2>6. (c * 4 + f) % 256 = 4 * c + f
    BY <1>1, <2>3
  <2> QED
    BY <1>5, <2>4, <2>5, <2>6
<1>8. (v \div 4) % 256 = ((c % 16) * 16 + ((d \div 4) % 16)) % 256
  <2>1. PICK e \in Nat, h \in 0 .. 15 : c = 16 * e + h /\ c % 16 = h
    BY <1>1, DivMod
  <2>2. PICK x \in 0 .. 15, y \in 0 .. 3 : d = 4 * x + y /\ d \div 4 = x
    <3>1. PICK x \in Nat, y \in 0 .. 3 : d = 4 * x + y /\ d \div 4 = x
      BY <1>1, DivMod
    <3>2. x \in 0 .. 15
      BY <1>1, <3>1
    <3> QED
      BY <3>1, <3>2
  <2>3. v = 4 * (256 * (4 * j + e) + (16 * h + x)) + y
    BY <1>1, <1>4, <2>1, <2>2
  <2>4. v \div 4 = 256 * (4 * j + e) + (16 * h + x)
    BY <2>3
  <2>5. 16 * h + x \in 0 .. 255
    OBVIOUS
  <2>6. (v \div 4) % 256 = 16 * h + x
    BY <2>4, <2>5
  <2>7. x % 16 = x /\ (h * 16 + x) % 256 = 16 * h + x
    BY <2>5
  <2> QED
    BY <2>1, <2>2, <2>6, <2>7
<1>9. v % 256 = ((c % 4) * 64 + d) % 256
  <2>1. PICK e \in Nat, h \in 0 .. 3 : c = 4 * e + h /\ c % 4 = h
    BY <1>1, DivMod
  <2>2. v = 256 * (16 * j + e) + (64 * h + d)
    BY <1>1, <1>4, <2>1
  <2>3. 64 * h + d \in 0 .. 255
    BY <1>1
  <2>4. v % 256 = 64 * h + d /\ (h * 64 + d) % 256 = 64 * h + d
    BY <2>2, <2>3
  <2> QED
    BY <2>1, <2>4
<1> QED
  BY <1>4, <1>6, <1>7, <1>8, <1>9 DEF LowBitsAre

LEMMA LowBytes ==
  ASSUME NEW w \in Nat, NEW c \in Byte, w % 256 = c, NEW d \in Byte,
         NEW v, v = Wrap(w * 256 + d)
  PROVE  LowBytesAre(v, c, d)
<1>1. c \in 0 .. 255 /\ d \in 0 .. 255
  BY DEF Byte
<1>2. PICK k \in Nat : w = 256 * k + c
  <2>1. PICK k \in Nat, r \in 0 .. 255 : w = 256 * k + r /\ w % 256 = r
    BY DivMod
  <2> QED
    BY <2>1, ZenonT(40)
<1>3. PICK j \in Int : v \in Nat /\ v = 4096 * j + 256 * c + d
  <2>1. PICK x \in Nat : x = w * 256 + d
    BY <1>1
  <2>2. PICK i \in Int : Wrap(x) \in Nat /\ Wrap(x) = 4096 * i + x
    BY WrapIs
  <2>3. v = Wrap(x)
    BY <2>1
  <2>4. x = 4096 * (16 * k) + 256 * c + d
    BY <1>1, <1>2, <2>1
  <2>5. PICK j \in Int : j = i + 16 * k
    OBVIOUS
  <2>6. v = 4096 * j + 256 * c + d
    BY <1>1, <2>2, <2>3, <2>4, <2>5
  <2> QED
    BY <2>2, <2>3, <2>6
<1>4. v % 256 = d
  <2>1. v = 256 * (16 * j + c) + d
    BY <1>1, <1>3
  <2> QED
    BY <1>1, <2>1
<1>5. PICK p \in 0 .. 63, r \in 0 .. 3 : d = 4 * p + r /\ d \div 4 = p
  <2>1. PICK p \in Nat, r \in 0 .. 3 : d = 4 * p + r /\ d \div 4 = p
    BY <1>1, DivMod
  <2>2. p \in 0 .. 63
    BY <1>1, <2>1
  <2> QED
    BY <2>1, <2>2
<1>6. (v \div 4) % 64 = d \div 4
  <2>1. v = 4 * (64 * (16 * j + c) + p) + r
    BY <1>1, <1>3, <1>5
  <2>2. v \div 4 = 64 * (16 * j + c) + p
    BY <1>1, <2>1
  <2> QED
    BY <1>1, <1>5, <2>2
<1>7. (v \div 16) % 64 = (c % 4) * 16 + d \div 16
  <2>1. PICK e \in Nat, h \in 0 .. 3 : c = 4 * e + h /\ c % 4 = h
    BY <1>1, DivMod
  <2>2. PICK x \in 0 .. 15, y \in 0 .. 15 : d = 16 * x + y /\ d \div 16 = x
    <3>1. PICK x \in Nat, y \in 0 .. 15 : d = 16 * x + y /\ d \div 16 = x
      BY <1>1, DivMod
    <3>2. x \in 0 .. 15
      BY <1>1, <3>1
    <3> QED
      BY <3>1, <3>2
  <2>3. v = 16 * (64 * (4 * j + e) + (16 * h + x)) + y
    BY <1>3, <2>1, <2>2
  <2>4. v \div 16 = 64 * (4 * j + e) + (16 * h + x)
    BY <2>3
  <2>5. 16 * h + x \in 0 .. 63
    OBVIOUS
  <2>6. (v \div 16) % 64 = 16 * h + x
    BY <2>4, <2>5
  <2> QED
    BY <2>1, <2>2, <2>6
<1>8. (v \div 64) % 64 = (c % 16) * 4 + d \div 64
  <2>1. PICK e \in Nat, h \in 0 .. 15 : c = 16 * e + h /\ c % 16 = h
    BY <1>1, DivMod
  <2>2. PICK x \in 0 .. 3, y \in 0 .. 63 : d = 64 * x + y /\ d \div 64 = x
    <3>1. PICK x \in Nat, y \in 0 .. 63 : d = 64 * x + y /\ d \div 64 = x
      BY <1>1, DivMod
    <3>2. x \in 0 .. 3
      BY <1>1, <3>1
    <3> QED
      BY <3>1, <3>2
  <2>3. v = 64 * (64 * (j + e) + (4 * h + x)) + y
    BY <1>3, <2>1, <2>2
  <2>4. v \div 64 = 64 * (j + e) + (4 * h + x)
    BY <2>3
  <2>5. 4 * h + x \in 0 .. 63
    OBVIOUS
  <2>6. (v \div 64) % 64 = 4 * h + x
    BY <2>4, <2>5
  <2> QED
    BY <2>1, <2>2, <2>6
<1>9. v % 64 = d % 64
  <2>1. PICK x \in Nat, y \in 0 .. 63 : d = 64 * x + y /\ d % 64 = y
    BY <1>1, DivMod
  <2>2. v = 64 * (64 * j + 4 * c + x) + y
    BY <1>1, <1>3, <2>1
  <2>3. v % 64 = y
    BY <1>1, <2>2
  <2> QED
    BY <2>1, <2>3
<1> QED
  BY <1>3, <1>4, <1>6, <1>7, <1>8, <1>9 DEF LowBytesAre

\* The bytes that base64_decode makes of a text.
DecodedAre(text, n, dec) ==
  /\ dec = base64_decode(text)
  /\ dec \in Seq(Byte) /\ Len(dec) = (6 * n) \div 8
  /\ \A q \in Nat :
       /\ 4 * q + 2 <= n =>
            dec[3 * q + 1] = (text[4 * q + 1] * 4 + ((text[4 * q + 2] \div 16) % 4)) % 256
       /\ 4 * q + 3 <= n =>
            dec[3 * q + 2] = ((text[4 * q + 2] % 16) * 16
                               + ((text[4 * q + 3] \div 4) % 16)) % 256
       /\ 4 * q + 4 <= n =>
            dec[3 * q + 3] = ((text[4 * q + 3] % 4) * 64 + text[4 * q + 4]) % 256

LEMMA ByteIsByte ==
  ASSUME NEW a \in Nat, NEW b \in Nat, NEW c \in Nat, NEW d \in Nat, NEW p \in 0 .. 2
  PROVE  ByteOf(a, b, c, d, p) \in Byte
<1>1. ASSUME NEW x \in Nat PROVE x % 256 \in Byte
  BY DEF Byte
<1>2. CASE p = 0
  <2>1. a * 4 + ((b \div 16) % 4) \in Nat
    OBVIOUS
  <2>2. ByteOf(a, b, c, d, p) = (a * 4 + ((b \div 16) % 4)) % 256
    BY <1>2 DEF ByteOf
  <2> QED
    BY <1>1, <2>1, <2>2
<1>3. CASE p = 1
  <2>1. (b % 16) * 16 + ((c \div 4) % 16) \in Nat
    OBVIOUS
  <2>2. ByteOf(a, b, c, d, p) = ((b % 16) * 16 + ((c \div 4) % 16)) % 256
    BY <1>3 DEF ByteOf
  <2> QED
    BY <1>1, <2>1, <2>2
<1>4. CASE p = 2
  <2>1. (c % 4) * 64 + d \in Nat
    OBVIOUS
  <2>2. ByteOf(a, b, c, d, p) = ((c % 4) * 64 + d) % 256
    BY <1>4 DEF ByteOf
  <2> QED
    BY <1>1, <2>1, <2>2
<1> QED
  BY <1>2, <1>3, <1>4

LEMMA DecodedBytes ==
  ASSUME NEW text \in Seq(Byte), NEW n, n = Valid(text)
  PROVE  DecodedAre(text, n, base64_decode(text))
<1>1. Len(text) \in Nat
  BY LenProperties
<1>2. n \in 0 .. Len(text) /\ \A k \in 1 .. n : text[k] \in Digit
  BY <1>1, TextEnds DEF Ended
<1>3. PICK s : s = SubSeq(text, 1, n)
  OBVIOUS
<1>4. s \in Seq(Digit) /\ Len(s) = n /\ \A k \in 1 .. n : s[k] = text[k]
  <2>1. s \in [1 .. n -> Digit] /\ \A k \in 1 .. n : s[k] = text[k]
    <3>1. /\ Len(s) = (IF 1 <= n THEN n - 1 + 1 ELSE 0) /\ s \in Seq(Byte)
          /\ \A i \in 1 .. n - 1 + 1 : s[i] = text[1 + i - 1]
      <4>1. \A i \in 1 .. n : text[i] \in Byte
        BY <1>1, <1>2, ElementOfSeq
      <4> QED
        BY <1>1, <1>2, <1>3, <4>1, SubSeqProperties
    <3>2. Len(s) = n /\ \A i \in 1 .. n : s[i] = text[i]
      BY <1>1, <1>2, <3>1
    <3>3. s \in [1 .. n -> Byte]
      BY <3>1, <3>2, LenProperties
    <3> QED
      BY <1>2, <3>2, <3>3
  <2> QED
    BY <1>1, <1>2, <2>1, FunctionIsSeq
<1>5. PICK l \in Nat : l = (6 * n) \div 8
  BY <1>1, <1>2
<1>6. PICK dec : dec = base64_decode(text)
  OBVIOUS
<1>7. dec = [k \in 1 .. l |->
               LET g == 4 * ((k - 1) \div 3)
               IN  ByteOf(At(s, g, Npos), At(s, g + 1, Npos), At(s, g + 2, Npos),
                          At(s, g + 3, Npos), (k - 1) % 3)]
  BY <1>3, <1>5, <1>6 DEF base64_decode
<1>8. \A g \in Nat : At(s, g, Npos) \in Nat /\ (g < n => At(s, g, Npos) = text[g + 1])
  <2> TAKE g \in Nat
  <2>1. /\ g < Len(s) => At(s, g, Npos) = s[g + 1] /\ At(s, g, Npos) \in Digit
        /\ g >= Len(s) => At(s, g, Npos) = Npos
    BY <1>4, AtIs
  <2>2. Digit \subseteq Nat /\ Npos \in Nat
    BY DEF Digit, Npos
  <2>3. n \in Nat
    BY <1>1, <1>2
  <2>4. CASE g < n
    <3>1. g + 1 \in 1 .. n
      BY <2>3, <2>4
    <3> QED
      BY <1>4, <2>1, <2>2, <2>4, <3>1
  <2>5. CASE g >= n
    <3>1. ~ (g < n)
      BY <2>3, <2>5
    <3> QED
      BY <1>4, <2>1, <2>2, <2>5, <3>1
  <2> QED
    BY <2>3, <2>4, <2>5
<1>9. ASSUME NEW k \in 1 .. l, NEW g, g = 4 * ((k - 1) \div 3)
      PROVE  /\ dec[k] = ByteOf(At(s, g, Npos), At(s, g + 1, Npos), At(s, g + 2, Npos),
                                At(s, g + 3, Npos), (k - 1) % 3)
             /\ dec[k] \in Byte
  <2>1. g \in Nat /\ g + 1 \in Nat /\ g + 2 \in Nat /\ g + 3 \in Nat /\ (k - 1) % 3 \in 0 .. 2
    BY <1>9
  <2>2. dec[k] = ByteOf(At(s, g, Npos), At(s, g + 1, Npos), At(s, g + 2, Npos),
                        At(s, g + 3, Npos), (k - 1) % 3)
    BY <1>7, <1>9
  <2>3. /\ At(s, g, Npos) \in Nat /\ At(s, g + 1, Npos) \in Nat
        /\ At(s, g + 2, Npos) \in Nat /\ At(s, g + 3, Npos) \in Nat
    BY <1>8, <2>1
  <2> QED
    BY <2>1, <2>2, <2>3, ByteIsByte, SMTT(40)
<1>10. dec \in Seq(Byte) /\ Len(dec) = l
  <2>1. dec \in [1 .. l -> Byte]
    BY <1>7, <1>9
  <2> QED
    BY <2>1, FunctionIsSeq
<1>11. n \in Nat
  BY <1>1, <1>2
<1>12. ASSUME NEW q \in Nat, 4 * q + 2 <= n
       PROVE  dec[3 * q + 1]
                = (text[4 * q + 1] * 4 + ((text[4 * q + 2] \div 16) % 4)) % 256
  <2>1. PICK k : k = 3 * q + 1
    OBVIOUS
  <2>2. k \in 1 .. l /\ 4 * q = 4 * ((k - 1) \div 3) /\ (k - 1) % 3 = 0
    BY <1>5, <1>11, <1>12, <2>1
  <2>3. dec[k] = ByteOf(At(s, 4 * q, Npos), At(s, 4 * q + 1, Npos), At(s, 4 * q + 2, Npos),
                        At(s, 4 * q + 3, Npos), 0)
    BY <1>9, <2>2
  <2>4. At(s, 4 * q, Npos) = text[4 * q + 1] /\ At(s, 4 * q + 1, Npos) = text[4 * q + 2]
    <3>1. 4 * q \in Nat /\ 4 * q < n
      BY <1>11, <1>12
    <3>2. 4 * q + 1 \in Nat /\ 4 * q + 1 < n
      BY <1>11, <1>12
    <3>3. 4 * q + 1 + 1 = 4 * q + 2
      OBVIOUS
    <3>4. At(s, 4 * q, Npos) = text[4 * q + 1]
      BY <1>8, <3>1
    <3>5. At(s, 4 * q + 1, Npos) = text[4 * q + 1 + 1]
      BY <1>8, <3>2
    <3> QED
      BY <3>3, <3>4, <3>5
  <2> QED
    BY <2>1, <2>3, <2>4 DEF ByteOf
<1>13. ASSUME NEW q \in Nat, 4 * q + 3 <= n
       PROVE  dec[3 * q + 2] = ((text[4 * q + 2] % 16) * 16
                                 + ((text[4 * q + 3] \div 4) % 16)) % 256
  <2>1. PICK k : k = 3 * q + 2
    OBVIOUS
  <2>2. k \in 1 .. l /\ 4 * q = 4 * ((k - 1) \div 3) /\ (k - 1) % 3 = 1
    BY <1>5, <1>11, <1>13, <2>1
  <2>3. dec[k] = ByteOf(At(s, 4 * q, Npos), At(s, 4 * q + 1, Npos), At(s, 4 * q + 2, Npos),
                        At(s, 4 * q + 3, Npos), 1)
    BY <1>9, <2>2
  <2>4. At(s, 4 * q + 1, Npos) = text[4 * q + 2] /\ At(s, 4 * q + 2, Npos) = text[4 * q + 3]
    <3>1. 4 * q + 1 \in Nat /\ 4 * q + 1 < n
      BY <1>11, <1>13
    <3>2. 4 * q + 2 \in Nat /\ 4 * q + 2 < n
      BY <1>11, <1>13
    <3>3. 4 * q + 2 + 1 = 4 * q + 3
      OBVIOUS
    <3>4. At(s, 4 * q + 1, Npos) = text[4 * q + 1 + 1]
      BY <1>8, <3>1
    <3>5. At(s, 4 * q + 2, Npos) = text[4 * q + 2 + 1]
      BY <1>8, <3>2
    <3> QED
      BY <3>3, <3>4, <3>5
  <2> QED
    BY <2>1, <2>3, <2>4 DEF ByteOf
<1>14. ASSUME NEW q \in Nat, 4 * q + 4 <= n
       PROVE  dec[3 * q + 3] = ((text[4 * q + 3] % 4) * 64 + text[4 * q + 4]) % 256
  <2>1. PICK k : k = 3 * q + 3
    OBVIOUS
  <2>2. k \in 1 .. l /\ 4 * q = 4 * ((k - 1) \div 3) /\ (k - 1) % 3 = 2
    BY <1>5, <1>11, <1>14, <2>1
  <2>3. dec[k] = ByteOf(At(s, 4 * q, Npos), At(s, 4 * q + 1, Npos), At(s, 4 * q + 2, Npos),
                        At(s, 4 * q + 3, Npos), 2)
    BY <1>9, <2>2
  <2>4. At(s, 4 * q + 2, Npos) = text[4 * q + 3] /\ At(s, 4 * q + 3, Npos) = text[4 * q + 4]
    <3>1. 4 * q + 2 \in Nat /\ 4 * q + 2 < n
      BY <1>11, <1>14
    <3>2. 4 * q + 3 \in Nat /\ 4 * q + 3 < n
      BY <1>11, <1>14
    <3>3. 4 * q + 3 + 1 = 4 * q + 4
      OBVIOUS
    <3>4. At(s, 4 * q + 2, Npos) = text[4 * q + 2 + 1]
      BY <1>8, <3>1
    <3>5. At(s, 4 * q + 3, Npos) = text[4 * q + 3 + 1]
      BY <1>8, <3>2
    <3> QED
      BY <3>3, <3>4, <3>5
  <2> QED
    BY <2>1, <2>3, <2>4 DEF ByteOf
<1> QED
  BY <1>5, <1>6, <1>10, <1>12, <1>13, <1>14 DEF DecodedAre

-----------------------------------------------------------------------------
\* The decoders, step by step.

\* One more of what is expected.
LEMMA OutGrows ==
  ASSUME NEW S, NEW out \in Seq(S), NEW m \in Nat, Len(out) = m, NEW dec,
         \A k \in 1 .. m : out[k] = dec[k], NEW x \in S, x = dec[m + 1]
  PROVE  /\ Append(out, x) \in Seq(S) /\ Len(Append(out, x)) = m + 1
         /\ \A k \in 1 .. m + 1 : Append(out, x)[k] = dec[k]
<1>1. PICK a : a = Append(out, x)
  OBVIOUS
<1>2. /\ a \in Seq(S) /\ Len(a) = Len(out) + 1
      /\ \A k \in 1 .. Len(out) : a[k] = out[k]
      /\ a[Len(out) + 1] = x
  BY <1>1, AppendProperties
<1>3. ASSUME NEW k \in 1 .. m + 1 PROVE a[k] = dec[k]
  <2>1. CASE k = m + 1
    BY <1>2, <2>1
  <2>2. CASE k \in 1 .. m
    BY <1>2, <2>2
  <2> QED
    BY <2>1, <2>2
<1> QED
  BY <1>1, <1>2, <1>3

DecodeState(p, i, text, dec) ==
  /\ p.val \in Nat /\ p.valb = ((6 * i) % 8) - 8
  /\ p.out \in Seq(Byte) /\ Len(p.out) = (6 * i) \div 8
  /\ \A k \in 1 .. (6 * i) \div 8 : p.out[k] = dec[k]
  /\ i > 0 => p.val % 64 = text[i]

LEMMA DecodeStepKeeps ==
  ASSUME NEW text, NEW n \in Nat, \A k \in 1 .. n : text[k] \in Digit,
         NEW dec, DecodedAre(text, n, dec), NEW i \in 1 .. n,
         NEW p, DecodeState(p, i - 1, text, dec)
  PROVE  DecodeState(DecodeStep(p, text[i]), i, text, dec)
<1>1. PICK w, c, d, v, out : /\ w = p.val /\ c = w % 64 /\ d = text[i]
                             /\ v = Wrap(w * 64 + d) /\ out = p.out
  OBVIOUS
<1>2. w \in Nat /\ c \in Digit /\ d \in Digit
  <2>1. w \in Nat
    BY <1>1 DEF DecodeState
  <2>2. c \in Digit
    BY <1>1, <2>1 DEF Digit
  <2> QED
    BY <1>1, <2>1, <2>2
<1>3. /\ v \in Nat /\ v % 64 = d
      /\ (v \div 16) % 256 = (c * 4 + ((d \div 16) % 4)) % 256
      /\ (v \div 4) % 256 = ((c % 16) * 16 + ((d \div 4) % 16)) % 256
      /\ v % 256 = ((c % 4) * 64 + d) % 256
  <2>1. w % 64 = c /\ v = Wrap(w * 64 + d)
    BY <1>1
  <2>2. w \in Nat /\ c \in Digit /\ d \in Digit
    BY <1>2
  <2>3. LowBitsAre(v, c, d)
    BY <2>1, <2>2, LowBits
  <2> QED
    BY <2>3 DEF LowBitsAre
<1>4. PICK b : b = p.valb + 6
  OBVIOUS
<1>5. PICK r : r = DecodeStep(p, text[i])
  OBVIOUS
<1>6. r = IF b < 0 THEN [val |-> v, valb |-> b, out |-> out]
          ELSE [val |-> v, valb |-> b - 8, out |-> Append(out, (v \div 2 ^ b) % 256)]
  BY <1>1, <1>4, <1>5 DEF DecodeStep
<1>7. PICK q \in Nat, j \in 1 .. 4 : i = 4 * q + j
  <2>1. (i - 1) \div 4 \in Nat /\ ((i - 1) % 4) + 1 \in 1 .. 4
        /\ i = 4 * ((i - 1) \div 4) + (((i - 1) % 4) + 1)
    OBVIOUS
  <2> QED
    BY <2>1
<1>8. i > 1 => c = text[i - 1]
  <2> SUFFICES ASSUME i > 1 PROVE c = text[i - 1]
    OBVIOUS
  <2>1. i - 1 > 0
    OBVIOUS
  <2> QED
    BY <1>1, <2>1 DEF DecodeState
<1>9. PICK m \in Nat : m = (6 * (i - 1)) \div 8
  OBVIOUS
<1>10. /\ b = ((6 * (i - 1)) % 8) - 8 + 6
       /\ out \in Seq(Byte) /\ Len(out) = m /\ \A k \in 1 .. m : out[k] = dec[k]
  BY <1>1, <1>4, <1>9 DEF DecodeState
<1>11. ASSUME NEW x, x = dec[m + 1], m + 1 <= (6 * n) \div 8,
              r.val = v, r.valb = ((6 * i) % 8) - 8, r.out = Append(out, x),
              (6 * i) \div 8 = m + 1
       PROVE  DecodeState(r, i, text, dec)
  <2>1. x \in Byte
    <3>1. dec \in Seq(Byte) /\ Len(dec) = (6 * n) \div 8 /\ Len(dec) \in Nat
      BY LenProperties DEF DecodedAre
    <3>2. m + 1 \in 1 .. Len(dec)
      BY <1>11, <3>1
    <3> QED
      BY <1>11, <3>1, <3>2, ElementOfSeq
  <2>2. /\ r.out \in Seq(Byte) /\ Len(r.out) = m + 1
        /\ \A k \in 1 .. m + 1 : r.out[k] = dec[k]
    BY <1>10, <1>11, <2>1, OutGrows
  <2> QED
    BY <1>1, <1>3, <1>11, <2>2, ZenonT(40) DEF DecodeState
<1>12. CASE j = 1
  <2>1. /\ b = -2 /\ (6 * i) \div 8 = m /\ ((6 * i) % 8) - 8 = -2 /\ b < 0
    BY <1>7, <1>9, <1>10, <1>12
  <2>2. r = [val |-> v, valb |-> b, out |-> out]
    BY <1>6, <2>1
  <2>3. r.val = v /\ r.valb = ((6 * i) % 8) - 8 /\ r.out = out
    BY <2>1, <2>2
  <2>4. DecodeState(r, i, text, dec)
    BY <1>1, <1>3, <1>10, <2>1, <2>3, ZenonT(40) DEF DecodeState
  <2> QED
    BY <1>5, <2>4
<1>13. CASE j = 2
  <2>1. /\ b = 4 /\ (6 * i) \div 8 = m + 1 /\ ((6 * i) % 8) - 8 = -4 /\ ~ (b < 0)
        /\ m = 3 * q /\ 4 * q + 2 <= n /\ m + 1 <= (6 * n) \div 8 /\ i > 1
        /\ i = 4 * q + 2 /\ i - 1 = 4 * q + 1
    BY <1>7, <1>9, <1>10, <1>13
  <2>2. PICK x : x = (v \div 16) % 256
    OBVIOUS
  <2>3. r = [val |-> v, valb |-> b - 8, out |-> Append(out, x)]
    <3>1. 2 ^ b = 16
      BY <2>1
    <3> QED
      BY <1>6, <2>1, <2>2, <3>1
  <2>4. r.val = v /\ r.valb = ((6 * i) % 8) - 8 /\ r.out = Append(out, x)
    BY <2>1, <2>3
  <2>5. x = dec[m + 1]
    <3>1. dec[3 * q + 1] = (text[4 * q + 1] * 4 + ((text[4 * q + 2] \div 16) % 4)) % 256
      BY <2>1 DEF DecodedAre
    <3>2. text[4 * q + 1] = c /\ text[4 * q + 2] = d
      BY <1>1, <1>8, <2>1
    <3> QED
      BY <1>3, <2>1, <2>2, <3>1, <3>2
  <2> QED
    BY <1>5, <1>11, <2>1, <2>4, <2>5
<1>14. CASE j = 3
  <2>1. /\ b = 2 /\ (6 * i) \div 8 = m + 1 /\ ((6 * i) % 8) - 8 = -6 /\ ~ (b < 0)
        /\ m = 3 * q + 1 /\ 4 * q + 3 <= n /\ m + 1 <= (6 * n) \div 8 /\ i > 1
        /\ i = 4 * q + 3 /\ i - 1 = 4 * q + 2
    BY <1>7, <1>9, <1>10, <1>14
  <2>2. PICK x : x = (v \div 4) % 256
    OBVIOUS
  <2>3. r = [val |-> v, valb |-> b - 8, out |-> Append(out, x)]
    <3>1. 2 ^ b = 4
      BY <2>1
    <3> QED
      BY <1>6, <2>1, <2>2, <3>1
  <2>4. r.val = v /\ r.valb = ((6 * i) % 8) - 8 /\ r.out = Append(out, x)
    BY <2>1, <2>3
  <2>5. x = dec[m + 1]
    <3>1. dec[3 * q + 2] = ((text[4 * q + 2] % 16) * 16
                             + ((text[4 * q + 3] \div 4) % 16)) % 256
      BY <2>1 DEF DecodedAre
    <3>2. text[4 * q + 2] = c /\ text[4 * q + 3] = d /\ m + 1 = 3 * q + 2
      BY <1>1, <1>8, <2>1
    <3> QED
      BY <1>3, <2>2, <3>1, <3>2
  <2> QED
    BY <1>5, <1>11, <2>1, <2>4, <2>5
<1>15. CASE j = 4
  <2>1. /\ b = 0 /\ (6 * i) \div 8 = m + 1 /\ ((6 * i) % 8) - 8 = -8 /\ ~ (b < 0)
        /\ m = 3 * q + 2 /\ 4 * q + 4 <= n /\ m + 1 <= (6 * n) \div 8 /\ i > 1
        /\ i = 4 * q + 4 /\ i - 1 = 4 * q + 3
    BY <1>7, <1>9, <1>10, <1>15
  <2>2. PICK x : x = v % 256
    OBVIOUS
  <2>3. r = [val |-> v, valb |-> b - 8, out |-> Append(out, x)]
    <3>1. 2 ^ b = 1 /\ v \div 1 = v
      BY <1>3, <2>1
    <3> QED
      BY <1>6, <2>1, <2>2, <3>1
  <2>4. r.val = v /\ r.valb = ((6 * i) % 8) - 8 /\ r.out = Append(out, x)
    BY <2>1, <2>3
  <2>5. x = dec[m + 1]
    <3>1. dec[3 * q + 3] = ((text[4 * q + 3] % 4) * 64 + text[4 * q + 4]) % 256
      BY <2>1 DEF DecodedAre
    <3>2. text[4 * q + 3] = c /\ text[4 * q + 4] = d /\ m + 1 = 3 * q + 3
      BY <1>1, <1>8, <2>1
    <3> QED
      BY <1>3, <2>2, <3>1, <3>2
  <2> QED
    BY <1>5, <1>11, <2>1, <2>4, <2>5
<1> QED
  BY <1>12, <1>13, <1>14, <1>15

\* The two decoders agree on any text.
LEMMA DecodersAgree ==
  ASSUME NEW text \in Seq(Byte)
  PROVE  base64_decode(text) = base64_decodestr(text)
<1>1. PICK n : n = Valid(text)
  OBVIOUS
<1>2. Len(text) \in Nat
  BY LenProperties
<1>3. n \in 0 .. Len(text) /\ \A k \in 1 .. n : text[k] \in Digit
  BY <1>1, <1>2, TextEnds DEF Ended
<1>4. n \in Nat
  BY <1>2, <1>3
<1>5. PICK dec : dec = base64_decode(text) /\ DecodedAre(text, n, dec)
  BY <1>1, DecodedBytes
<1>6. PICK u : /\ base64_decodestr(text) = u[n].out
               /\ u[0] = [val |-> 0, valb |-> -8, out |-> <<>>]
               /\ \A i \in 1 .. n : u[i] = DecodeStep(u[i - 1], text[i])
  <2>1. DecodedBySteps(text, n)
    BY <1>1, <1>4, DecodestrIs
  <2> QED
    BY <2>1, Zenon DEF DecodedBySteps
<1>7. PICK T : T = {i \in 0 .. n : DecodeState(u[i], i, text, dec)}
  OBVIOUS
<1>8. 0 \in T
  <2>1. u[0].val = 0 /\ u[0].valb = -8 /\ u[0].out = <<>>
    BY <1>6
  <2>2. u[0].out \in Seq(Byte) /\ Len(u[0].out) = 0
    BY <2>1, EmptySeq
  <2>3. (6 * 0) \div 8 = 0 /\ ((6 * 0) % 8) - 8 = -8 /\ 0 \in 0 .. n
    BY <1>4
  <2>4. u[0].val \in Nat
    BY <2>1
  <2>5. DecodeState(u[0], 0, text, dec)
    BY <2>1, <2>2, <2>3, <2>4 DEF DecodeState
  <2> QED
    BY <1>7, <2>3, <2>5
<1>9. ASSUME NEW i \in 1 .. n, i - 1 \in T PROVE i \in T
  <2>1. DecodeState(u[i - 1], i - 1, text, dec) /\ i \in 0 .. n
    BY <1>7, <1>9
  <2>2. DecodeState(DecodeStep(u[i - 1], text[i]), i, text, dec)
    BY <1>3, <1>4, <1>5, <2>1, DecodeStepKeeps
  <2>3. u[i] = DecodeStep(u[i - 1], text[i])
    BY <1>6
  <2> QED
    BY <1>7, <2>1, <2>2, <2>3
<1>10. DecodeState(u[n], n, text, dec)
  <2>1. \A i \in 0 .. n : i \in T
    BY <1>4, <1>8, <1>9, Induction
  <2>2. n \in T
    BY <1>4, <2>1
  <2> QED
    BY <1>7, <2>2
<1>11. PICK out : out = u[n].out
  OBVIOUS
<1>12. /\ out \in Seq(Byte) /\ dec \in Seq(Byte) /\ Len(out) = Len(dec)
       /\ \A k \in 1 .. Len(out) : out[k] = dec[k]
  BY <1>5, <1>10, <1>11 DEF DecodeState, DecodedAre
<1>13. out = dec
  BY <1>12, SeqEqual
<1> QED
  BY <1>5, <1>6, <1>11, <1>13

-----------------------------------------------------------------------------
\* The encoders.

\* Several more of what is expected.
GrownTo(S, out, m, all) ==
  out \in Seq(S) /\ Len(out) = m /\ \A k \in 1 .. m : out[k] = all[k]

LEMMA OutGrowsBy ==
  ASSUME NEW S, NEW out, NEW m \in Nat, NEW all, GrownTo(S, out, m, all),
         NEW t \in Seq(S), NEW l \in Nat, Len(t) = l, \A k \in 1 .. l : t[k] = all[m + k]
  PROVE  GrownTo(S, out \o t, m + l, all)
<1> USE DEF GrownTo
<1>1. PICK a : a = out \o t
  OBVIOUS
<1>2. /\ a \in Seq(S) /\ Len(a) = m + l
      /\ \A k \in 1 .. m : a[k] = out[k]
      /\ \A k \in 1 .. l : a[m + k] = t[k]
  <2>1. out \in Seq(S) /\ t \in Seq(S)
    OBVIOUS
  <2>2. /\ out \o t \in Seq(S) /\ Len(out \o t) = Len(out) + Len(t)
        /\ \A k \in 1 .. Len(out) : (out \o t)[k] = out[k]
        /\ \A k \in 1 .. Len(t) : (out \o t)[Len(out) + k] = t[k]
    BY <2>1, ConcatIs
  <2> QED
    BY <1>1, <2>2
<1>3. ASSUME NEW k \in 1 .. m + l PROVE a[k] = all[k]
  <2>1. CASE k \in 1 .. m
    BY <1>2, <2>1
  <2>2. CASE k > m
    <3>1. PICK j \in 1 .. l : k = m + j
      <4>1. k - m \in 1 .. l /\ k = m + (k - m)
        BY <2>2
      <4> QED
        BY <4>1
    <3> QED
      BY <1>2, <3>1
  <2> QED
    BY <2>1, <2>2
<1> QED
  BY <1>1, <1>2, <1>3

\* The digits that base64_encode makes of some bytes.
Letter == Digit \union {Pad}
EncodedAre(x, n, e) ==
  /\ e = base64_encode(x)
  /\ e \in Seq(Letter) /\ Len(e) = 4 * ((n + 2) \div 3)
  /\ \A q \in Nat :
       /\ 3 * q + 1 <= n => e[4 * q + 1] = x[3 * q + 1] \div 4
       /\ 3 * q + 2 <= n => e[4 * q + 2] = (x[3 * q + 1] % 4) * 16 + x[3 * q + 2] \div 16
       /\ 3 * q + 3 <= n => e[4 * q + 3] = (x[3 * q + 2] % 16) * 4 + x[3 * q + 3] \div 64
       /\ 3 * q + 3 <= n => e[4 * q + 4] = x[3 * q + 3] % 64
       /\ n = 3 * q + 1 => e[4 * q + 2] = (x[n] % 4) * 16
       /\ n = 3 * q + 2 => e[4 * q + 3] = (x[n] % 16) * 4
  /\ \A k \in (8 * n + 5) \div 6 + 1 .. Len(e) : e[k] = Pad

LEMMA EncodedDigits ==
  ASSUME NEW x \in Seq(Byte), NEW n \in Nat, n = Len(x)
  PROVE  EncodedAre(x, n, base64_encode(x))
<1>1. PICK e : e = base64_encode(x)
  OBVIOUS
<1>2. PICK m \in Nat : m = (8 * n + 5) \div 6
  OBVIOUS
<1>3. /\ e \in Seq(Letter) /\ Len(e) = 4 * ((n + 2) \div 3)
      /\ \A k \in 1 .. Len(e) :
           e[k] = LET g == 3 * ((k - 1) \div 4) IN
                  IF k > m THEN Pad
                  ELSE DigitOf(At(x, g, 0), At(x, g + 1, 0), At(x, g + 2, 0), (k - 1) % 4)
  <2>1. Digits(x) = m
    BY <1>2 DEF Digits
  <2> QED
    BY <1>1, <2>1, EncodedIs DEF Letter
<1>4. \A g \in Nat : /\ g < n => At(x, g, 0) = x[g + 1]
                     /\ g >= n => At(x, g, 0) = 0
  BY AtIs
<1>5. \A k \in m + 1 .. Len(e) : e[k] = Pad
  <2> TAKE k \in m + 1 .. Len(e)
  <2>1. Len(e) \in Nat
    BY <1>3, LenProperties
  <2>2. k \in 1 .. Len(e) /\ k > m
    BY <2>1
  <2> QED
    BY <1>3, <2>2
<1>6. ASSUME NEW q \in Nat, NEW p \in 0 .. 3, 4 * q + p + 1 <= m
      PROVE  e[4 * q + p + 1]
               = DigitOf(At(x, 3 * q, 0), At(x, 3 * q + 1, 0), At(x, 3 * q + 2, 0), p)
  <2>1. PICK k : k = 4 * q + p + 1
    OBVIOUS
  <2>2. k \in 1 .. 4 * ((n + 2) \div 3)
    BY <1>2, <1>6, <2>1
  <2>3. ~ (k > m) /\ 3 * q = 3 * ((k - 1) \div 4) /\ (k - 1) % 4 = p
    BY <1>6, <2>1
  <2>4. e[k] = IF k > m THEN Pad
               ELSE DigitOf(At(x, 3 * q, 0), At(x, 3 * q + 1, 0), At(x, 3 * q + 2, 0), p)
    BY <1>3, <2>2, <2>3
  <2> QED
    BY <2>1, <2>3, <2>4
<1>7. ASSUME NEW q \in Nat, 3 * q + 1 <= n
      PROVE  e[4 * q + 1] = x[3 * q + 1] \div 4
  <2>1. 4 * q + 0 + 1 <= m /\ 4 * q + 0 + 1 = 4 * q + 1 /\ 0 \in 0 .. 3
    BY <1>2, <1>7
  <2>2. 3 * q \in Nat /\ 3 * q < n
    BY <1>7
  <2>3. At(x, 3 * q, 0) = x[3 * q + 1]
    BY <1>4, <2>2
  <2>4. e[4 * q + 1] = DigitOf(At(x, 3 * q, 0), At(x, 3 * q + 1, 0), At(x, 3 * q + 2, 0), 0)
    BY <1>6, <2>1
  <2> QED
    BY <2>3, <2>4 DEF DigitOf
<1>8. ASSUME NEW q \in Nat, 3 * q + 1 <= n
      PROVE  e[4 * q + 2] = (x[3 * q + 1] % 4) * 16 + At(x, 3 * q + 1, 0) \div 16
  <2>1. 4 * q + 1 + 1 <= m /\ 4 * q + 1 + 1 = 4 * q + 2 /\ 1 \in 0 .. 3
    BY <1>2, <1>8
  <2>2. 3 * q \in Nat /\ 3 * q < n
    BY <1>8
  <2>3. At(x, 3 * q, 0) = x[3 * q + 1]
    BY <1>4, <2>2
  <2>4. e[4 * q + 2] = DigitOf(At(x, 3 * q, 0), At(x, 3 * q + 1, 0), At(x, 3 * q + 2, 0), 1)
    BY <1>6, <2>1
  <2> QED
    BY <2>3, <2>4 DEF DigitOf
<1>9. ASSUME NEW q \in Nat, 3 * q + 2 <= n
      PROVE  e[4 * q + 3] = (x[3 * q + 2] % 16) * 4 + At(x, 3 * q + 2, 0) \div 64
  <2>1. 4 * q + 2 + 1 <= m /\ 4 * q + 2 + 1 = 4 * q + 3 /\ 2 \in 0 .. 3
    BY <1>2, <1>9
  <2>2. 3 * q + 1 \in Nat /\ 3 * q + 1 < n /\ 3 * q + 1 + 1 = 3 * q + 2
    BY <1>9
  <2>3. At(x, 3 * q + 1, 0) = x[3 * q + 2]
    BY <1>4, <2>2
  <2>4. e[4 * q + 3] = DigitOf(At(x, 3 * q, 0), At(x, 3 * q + 1, 0), At(x, 3 * q + 2, 0), 2)
    BY <1>6, <2>1
  <2> QED
    BY <2>3, <2>4 DEF DigitOf
<1>10. ASSUME NEW q \in Nat, 3 * q + 3 <= n
       PROVE  e[4 * q + 4] = x[3 * q + 3] % 64
  <2>1. 4 * q + 3 + 1 <= m /\ 4 * q + 3 + 1 = 4 * q + 4 /\ 3 \in 0 .. 3
    BY <1>2, <1>10
  <2>2. 3 * q + 2 \in Nat /\ 3 * q + 2 < n /\ 3 * q + 2 + 1 = 3 * q + 3
    BY <1>10
  <2>3. At(x, 3 * q + 2, 0) = x[3 * q + 3]
    BY <1>4, <2>2
  <2>4. e[4 * q + 4] = DigitOf(At(x, 3 * q, 0), At(x, 3 * q + 1, 0), At(x, 3 * q + 2, 0), 3)
    BY <1>6, <2>1
  <2> QED
    BY <2>3, <2>4 DEF DigitOf
<1>11. ASSUME NEW q \in Nat, 3 * q + 2 <= n
       PROVE  At(x, 3 * q + 1, 0) = x[3 * q + 2]
  <2>1. 3 * q + 1 \in Nat /\ 3 * q + 1 < n /\ 3 * q + 1 + 1 = 3 * q + 2 /\ 3 * q + 1 <= n
    BY <1>11
  <2> QED
    BY <1>4, <2>1
<1>12. ASSUME NEW q \in Nat, 3 * q + 3 <= n
       PROVE  At(x, 3 * q + 2, 0) = x[3 * q + 3]
  <2>1. 3 * q + 2 \in Nat /\ 3 * q + 2 < n /\ 3 * q + 2 + 1 = 3 * q + 3
    BY <1>12
  <2> QED
    BY <1>4, <2>1
<1>13. ASSUME NEW q \in Nat, n = 3 * q + 1
       PROVE  e[4 * q + 2] = (x[n] % 4) * 16
  <2>1. 3 * q + 1 \in Nat /\ 3 * q + 1 >= n /\ 3 * q + 1 <= n
    BY <1>13
  <2>2. At(x, 3 * q + 1, 0) = 0
    BY <1>4, <2>1
  <2>3. PICK y : y = (x[n] % 4) * 16
    OBVIOUS
  <2>4. y \in Int
    <3>1. x[n] \in Byte
      <4>1. n \in 1 .. Len(x)
        BY <1>13
      <4> QED
        BY <4>1, ElementOfSeq
    <3> QED
      BY <2>3, <3>1 DEF Byte
  <2>5. e[4 * q + 2] = y + 0 \div 16
    BY <1>8, <1>13, <2>1, <2>2, <2>3
  <2> QED
    BY <2>3, <2>4, <2>5
<1>14. ASSUME NEW q \in Nat, n = 3 * q + 2
       PROVE  e[4 * q + 3] = (x[n] % 16) * 4
  <2>1. 3 * q + 2 \in Nat /\ 3 * q + 2 >= n /\ 3 * q + 2 <= n
    BY <1>14
  <2>2. At(x, 3 * q + 2, 0) = 0
    BY <1>4, <2>1
  <2>3. PICK y : y = (x[n] % 16) * 4
    OBVIOUS
  <2>4. y \in Int
    <3>1. x[n] \in Byte
      <4>1. n \in 1 .. Len(x)
        BY <1>14
      <4> QED
        BY <4>1, ElementOfSeq
    <3> QED
      BY <2>3, <3>1 DEF Byte
  <2>5. e[4 * q + 3] = y + 0 \div 64
    BY <1>9, <1>14, <2>1, <2>2, <2>3
  <2> QED
    BY <2>3, <2>4, <2>5
<1>15. ASSUME NEW q \in Nat
       PROVE  /\ 3 * q + 2 <= n => 3 * q + 1 <= n
              /\ 3 * q + 3 <= n => 3 * q + 2 <= n
  OBVIOUS
<1>16. \A q \in Nat :
         3 * q + 2 <= n => e[4 * q + 2] = (x[3 * q + 1] % 4) * 16 + x[3 * q + 2] \div 16
  BY <1>8, <1>11, <1>15
<1>17. \A q \in Nat :
         3 * q + 3 <= n => e[4 * q + 3] = (x[3 * q + 2] % 16) * 4 + x[3 * q + 3] \div 64
  BY <1>9, <1>12, <1>15
<1> QED
  BY <1>1, <1>2, <1>3, <1>5, <1>7, <1>10, <1>13, <1>14, <1>16, <1>17 DEF EncodedAre

EncodeState(p, i, x, e) ==
  /\ p.val \in Nat /\ p.valb = 2 * (i % 3) - 6
  /\ p.out \in Seq(Letter) /\ Len(p.out) = (8 * i) \div 6
  /\ \A k \in 1 .. (8 * i) \div 6 : p.out[k] = e[k]
  /\ i > 0 => p.val % 256 = x[i]

LEMMA EncodeStepKeeps ==
  ASSUME NEW x, NEW n \in Nat, \A k \in 1 .. n : x[k] \in Byte,
         NEW e, EncodedAre(x, n, e), NEW i \in 1 .. n,
         NEW p, EncodeState(p, i - 1, x, e)
  PROVE  EncodeState(EncodeStep(p, x[i]), i, x, e)
<1>1. PICK w, c, d, v, out : /\ w = p.val /\ c = w % 256 /\ d = x[i]
                             /\ v = Wrap(w * 256 + d) /\ out = p.out
  OBVIOUS
<1>2. w \in Nat /\ c \in Byte /\ d \in Byte
  <2>1. w \in Nat
    BY <1>1 DEF EncodeState
  <2>2. c \in Byte
    <3>1. PICK q \in Nat, r \in 0 .. 255 : w % 256 = r
      <4>1. 256 \in {4, 16, 64, 256}
        OBVIOUS
      <4> QED
        BY <2>1, <4>1, DivMod
    <3> QED
      BY <1>1, <3>1 DEF Byte
  <2> QED
    BY <1>1, <2>1, <2>2
<1>3. LowBytesAre(v, c, d)
  <2>1. w % 256 = c /\ v = Wrap(w * 256 + d)
    BY <1>1
  <2>2. w \in Nat /\ c \in Byte /\ d \in Byte
    BY <1>2
  <2> QED
    BY <2>1, <2>2, LowBytes
<1>4. PICK b : b = p.valb + 8
  OBVIOUS
<1>5. PICK r : r = EncodeStep(p, x[i])
  OBVIOUS
<1>6. r = IF b < 6 THEN [val |-> v, valb |-> b - 6, out |-> Append(out, Low6(v, b))]
          ELSE [val |-> v, valb |-> b - 12, out |-> out \o <<Low6(v, b), Low6(v, b - 6)>>]
  BY <1>1, <1>4, <1>5 DEF EncodeStep
<1>7. PICK q \in Nat, j \in 1 .. 3 : i = 3 * q + j
  <2>1. (i - 1) \div 3 \in Nat /\ ((i - 1) % 3) + 1 \in 1 .. 3
        /\ i = 3 * ((i - 1) \div 3) + (((i - 1) % 3) + 1)
    OBVIOUS
  <2> QED
    BY <2>1
<1>8. i > 1 => c = x[i - 1]
  <2> SUFFICES ASSUME i > 1 PROVE c = x[i - 1]
    OBVIOUS
  <2>1. i - 1 > 0
    OBVIOUS
  <2> QED
    BY <1>1, <2>1 DEF EncodeState
<1>9. PICK m \in Nat : m = (8 * (i - 1)) \div 6
  OBVIOUS
<1>10. /\ b = 2 * ((i - 1) % 3) - 6 + 8
       /\ out \in Seq(Letter) /\ Len(out) = m /\ \A k \in 1 .. m : out[k] = e[k]
  BY <1>1, <1>4, <1>9 DEF EncodeState
<1>11. v \in Nat /\ v % 256 = x[i]
  BY <1>1, <1>3 DEF LowBytesAre
<1>12. ASSUME NEW k \in 1 .. 4 * ((n + 2) \div 3) PROVE e[k] \in Letter
  <2>1. e \in Seq(Letter) /\ Len(e) = 4 * ((n + 2) \div 3) /\ k \in 1 .. Len(e)
    BY DEF EncodedAre
  <2> QED
    BY <2>1, ElementOfSeq
<1>13. ASSUME NEW y, y = e[m + 1], m + 1 <= 4 * ((n + 2) \div 3),
              r.val = v, r.valb = 2 * (i % 3) - 6, r.out = Append(out, y),
              (8 * i) \div 6 = m + 1
       PROVE  EncodeState(r, i, x, e)
  <2>1. y \in Letter
    <3>1. m + 1 \in 1 .. 4 * ((n + 2) \div 3)
      BY <1>13
    <3> QED
      BY <1>12, <1>13, <3>1
  <2>2. /\ r.out \in Seq(Letter) /\ Len(r.out) = m + 1
        /\ \A k \in 1 .. m + 1 : r.out[k] = e[k]
    BY <1>10, <1>13, <2>1, OutGrows
  <2> QED
    BY <1>11, <1>13, <2>2 DEF EncodeState
<1>14. CASE j = 1
  <2>1. /\ b = 2 /\ (8 * i) \div 6 = m + 1 /\ 2 * (i % 3) - 6 = -4 /\ b < 6 /\ b - 6 = -4
        /\ m = 4 * q /\ 3 * q + 1 <= n /\ m + 1 <= 4 * ((n + 2) \div 3) /\ i = 3 * q + 1
    BY <1>7, <1>9, <1>10, <1>14
  <2>2. PICK y : y = (v \div 4) % 64
    OBVIOUS
  <2>3. r = [val |-> v, valb |-> b - 6, out |-> Append(out, y)]
    <3>1. 2 ^ b = 4
      BY <2>1
    <3>2. Low6(v, b) = y
      BY <2>2, <3>1 DEF Low6
    <3> QED
      BY <1>6, <2>1, <3>2
  <2>4. r.val = v /\ r.valb = 2 * (i % 3) - 6 /\ r.out = Append(out, y)
    BY <2>1, <2>3
  <2>5. y = e[m + 1]
    <3>1. e[4 * q + 1] = x[3 * q + 1] \div 4
      BY <2>1 DEF EncodedAre
    <3>2. y = d \div 4
      BY <1>3, <2>2 DEF LowBytesAre
    <3> QED
      BY <1>1, <2>1, <3>1, <3>2
  <2> QED
    BY <1>5, <1>13, <2>1, <2>4, <2>5
<1>15. CASE j = 2
  <2>1. /\ b = 4 /\ (8 * i) \div 6 = m + 1 /\ 2 * (i % 3) - 6 = -2 /\ b < 6 /\ b - 6 = -2
        /\ m = 4 * q + 1 /\ 3 * q + 2 <= n /\ m + 1 <= 4 * ((n + 2) \div 3)
        /\ i = 3 * q + 2 /\ i - 1 = 3 * q + 1 /\ i > 1
    BY <1>7, <1>9, <1>10, <1>15
  <2>2. PICK y : y = (v \div 16) % 64
    OBVIOUS
  <2>3. r = [val |-> v, valb |-> b - 6, out |-> Append(out, y)]
    <3>1. 2 ^ b = 16
      BY <2>1
    <3>2. Low6(v, b) = y
      BY <2>2, <3>1 DEF Low6
    <3> QED
      BY <1>6, <2>1, <3>2
  <2>4. r.val = v /\ r.valb = 2 * (i % 3) - 6 /\ r.out = Append(out, y)
    BY <2>1, <2>3
  <2>5. y = e[m + 1]
    <3>1. e[4 * q + 2] = (x[3 * q + 1] % 4) * 16 + x[3 * q + 2] \div 16
      BY <2>1 DEF EncodedAre
    <3>2. y = (c % 4) * 16 + d \div 16
      BY <1>3, <2>2 DEF LowBytesAre
    <3>3. x[3 * q + 1] = c /\ x[3 * q + 2] = d /\ m + 1 = 4 * q + 2
      BY <1>1, <1>8, <2>1
    <3> QED
      BY <3>1, <3>2, <3>3
  <2> QED
    BY <1>5, <1>13, <2>1, <2>4, <2>5
<1>16. CASE j = 3
  <2>1. /\ b = 6 /\ (8 * i) \div 6 = m + 2 /\ 2 * (i % 3) - 6 = -6 /\ ~ (b < 6)
        /\ b - 6 = 0 /\ b - 12 = -6
        /\ m = 4 * q + 2 /\ 3 * q + 3 <= n /\ m + 2 <= 4 * ((n + 2) \div 3)
        /\ i = 3 * q + 3 /\ i - 1 = 3 * q + 2 /\ i > 1
    BY <1>7, <1>9, <1>10, <1>16
  <2>2. PICK y, z : y = (v \div 64) % 64 /\ z = v % 64
    OBVIOUS
  <2>3. r = [val |-> v, valb |-> b - 12, out |-> out \o <<y, z>>]
    <3>1. 2 ^ 6 = 64 /\ 2 ^ 0 = 1 /\ v \div 1 = v
      BY <1>11
    <3>2. Low6(v, b) = y /\ Low6(v, b - 6) = z
      BY <2>1, <2>2, <3>1 DEF Low6
    <3> QED
      BY <1>6, <2>1, <3>2
  <2>4. r.val = v /\ r.valb = 2 * (i % 3) - 6 /\ r.out = out \o <<y, z>>
    BY <2>1, <2>3
  <2>5. x[3 * q + 2] = c /\ x[3 * q + 3] = d /\ m + 1 = 4 * q + 3 /\ m + 2 = 4 * q + 4
    BY <1>1, <1>8, <2>1
  <2>6. y = e[m + 1] /\ z = e[m + 2]
    <3>1. /\ e[4 * q + 3] = (x[3 * q + 2] % 16) * 4 + x[3 * q + 3] \div 64
          /\ e[4 * q + 4] = x[3 * q + 3] % 64
      BY <2>1 DEF EncodedAre
    <3>2. y = (c % 16) * 4 + d \div 64 /\ z = d % 64
      BY <1>3, <2>2 DEF LowBytesAre
    <3> QED
      BY <2>5, <3>1, <3>2
  <2>7. PICK t : t = <<y, z>>
    OBVIOUS
  <2>8. t \in Seq(Letter) /\ Len(t) = 2 /\ \A k \in 1 .. 2 : t[k] = e[m + k]
    <3>1. m + 1 \in 1 .. 4 * ((n + 2) \div 3) /\ m + 2 \in 1 .. 4 * ((n + 2) \div 3)
      BY <2>1
    <3>2. y \in Letter /\ z \in Letter
      BY <1>12, <2>6, <3>1
    <3>3. t[1] = y /\ t[2] = z /\ Len(t) = 2 /\ t \in Seq(Letter)
      BY <2>7, <3>2
    <3> QED
      BY <2>6, <3>3
  <2>9. /\ out \o t \in Seq(Letter) /\ Len(out \o t) = m + 2
        /\ \A k \in 1 .. m + 2 : (out \o t)[k] = e[k]
    <3>1. GrownTo(Letter, out, m, e)
      BY <1>10 DEF GrownTo
    <3>2. GrownTo(Letter, out \o t, m + 2, e)
      BY <2>8, <3>1, OutGrowsBy
    <3> QED
      BY <3>2 DEF GrownTo
  <2>10. EncodeState(r, i, x, e)
    BY <1>11, <2>1, <2>4, <2>7, <2>9 DEF EncodeState
  <2> QED
    BY <1>5, <2>10
<1> QED
  BY <1>5, <1>14, <1>15, <1>16

\* The two encoders agree on any bytes.
LEMMA EncodersAgree ==
  ASSUME NEW x \in Seq(Byte)
  PROVE  base64_encode(x) = base64_encodestr(x)
<1>1. PICK n \in Nat : n = Len(x)
  BY LenProperties
<1>2. \A k \in 1 .. n : x[k] \in Byte
  BY <1>1, ElementOfSeq
<1>3. PICK e : e = base64_encode(x) /\ EncodedAre(x, n, e)
  BY <1>1, EncodedDigits
<1>4. PICK u : /\ base64_encodestr(x) = Padded(LastDigit(u[n]))
               /\ u[0] = [val |-> 0, valb |-> -6, out |-> <<>>]
               /\ \A i \in 1 .. n : u[i] = EncodeStep(u[i - 1], x[i])
  <2>1. EncodedBySteps(x, n)
    BY <1>1, EncodestrIs
  <2> QED
    BY <2>1, Zenon DEF EncodedBySteps
<1>5. PICK T : T = {i \in 0 .. n : EncodeState(u[i], i, x, e)}
  OBVIOUS
<1>6. 0 \in T
  <2>1. u[0].val = 0 /\ u[0].valb = -6 /\ u[0].out = <<>>
    BY <1>4
  <2>2. u[0].out \in Seq(Letter) /\ Len(u[0].out) = 0
    BY <2>1, EmptySeq
  <2>3. (8 * 0) \div 6 = 0 /\ 2 * (0 % 3) - 6 = -6 /\ 0 \in 0 .. n
    OBVIOUS
  <2>4. u[0].val \in Nat
    BY <2>1
  <2>5. EncodeState(u[0], 0, x, e)
    BY <2>1, <2>2, <2>3, <2>4 DEF EncodeState
  <2> QED
    BY <1>5, <2>3, <2>5
<1>7. ASSUME NEW i \in 1 .. n, i - 1 \in T PROVE i \in T
  <2>1. EncodeState(u[i - 1], i - 1, x, e) /\ i \in 0 .. n
    BY <1>5, <1>7
  <2>2. EncodeState(EncodeStep(u[i - 1], x[i]), i, x, e)
    BY <1>2, <1>3, <2>1, EncodeStepKeeps
  <2>3. u[i] = EncodeStep(u[i - 1], x[i])
    BY <1>4
  <2> QED
    BY <1>5, <2>1, <2>2, <2>3
<1>8. EncodeState(u[n], n, x, e)
  <2>1. \A i \in 0 .. n : i \in T
    BY <1>6, <1>7, Induction
  <2>2. n \in T
    BY <2>1
  <2> QED
    BY <1>5, <2>2
<1>9. PICK p, w, b, out : p = u[n] /\ w = p.val /\ b = p.valb /\ out = p.out
  OBVIOUS
<1>10. PICK l \in Nat, m \in Nat, h \in Nat : /\ l = 4 * ((n + 2) \div 3)
                                              /\ m = (8 * n) \div 6
                                              /\ h = (8 * n + 5) \div 6
  OBVIOUS
<1>11. /\ w \in Nat /\ b = 2 * (n % 3) - 6 /\ out \in Seq(Letter) /\ Len(out) = m
       /\ \A k \in 1 .. m : out[k] = e[k]
       /\ n > 0 => w % 256 = x[n]
  BY <1>8, <1>9, <1>10 DEF EncodeState
<1>12. /\ e \in Seq(Letter) /\ Len(e) = l
       /\ \A k \in h + 1 .. l : e[k] = Pad
  BY <1>3, <1>10 DEF EncodedAre
<1>13. ASSUME NEW k \in 1 .. l PROVE e[k] \in Letter
  BY <1>12, ElementOfSeq
<1>14. PICK f : f = LastDigit(p)
  OBVIOUS
<1>15. f = IF b > -6 THEN Append(out, Low6(w * 256, b + 8)) ELSE out
  BY <1>9, <1>14 DEF LastDigit
<1>16. ASSUME NEW y, y = e[m + 1], m + 1 = h, h <= l, f = Append(out, y)
       PROVE  f \in Seq(Letter) /\ Len(f) = h /\ \A k \in 1 .. h : f[k] = e[k]
  <2>1. y \in Letter
    <3>1. m + 1 \in 1 .. l
      BY <1>16
    <3> QED
      BY <1>13, <1>16, <3>1
  <2>2. /\ Append(out, y) \in Seq(Letter) /\ Len(Append(out, y)) = m + 1
        /\ \A k \in 1 .. m + 1 : Append(out, y)[k] = e[k]
    BY <1>11, <1>16, <2>1, OutGrows
  <2> QED
    BY <1>16, <2>2
<1>17. PICK q \in Nat, j \in 0 .. 2 : n = 3 * q + j
  <2>1. n \div 3 \in Nat /\ n % 3 \in 0 .. 2 /\ n = 3 * (n \div 3) + (n % 3)
    OBVIOUS
  <2> QED
    BY <2>1
<1>18. f \in Seq(Letter) /\ Len(f) = h /\ \A k \in 1 .. h : f[k] = e[k]
  <2>1. CASE j = 0
    <3>1. b = -6 /\ ~ (b > -6) /\ h = m
      BY <1>10, <1>11, <1>17, <2>1
    <3>2. f = out
      BY <1>15, <3>1
    <3> QED
      BY <1>11, <3>1, <3>2
  <2>2. CASE j = 1
    <3>1. /\ b = -4 /\ b > -6 /\ b + 8 = 4 /\ m = 4 * q + 1 /\ h = 4 * q + 2 /\ m + 1 = h
          /\ h <= l /\ n = 3 * q + 1 /\ n > 0
      BY <1>10, <1>11, <1>17, <2>2
    <3>2. PICK y : y = Low6(w * 256, 4)
      OBVIOUS
    <3>3. f = Append(out, y)
      BY <1>15, <3>1, <3>2
    <3>4. e[4 * q + 2] = (x[n] % 4) * 16
      BY <1>3, <3>1 DEF EncodedAre
    <3>5. y = ((w % 256) % 4) * 16
      <4>1. 2 ^ 4 = 16
        OBVIOUS
      <4>2. y = ((w * 256) \div 16) % 64
        BY <3>2, <4>1 DEF Low6
      <4>3. PICK g \in Nat, r \in 0 .. 3 : w = 4 * g + r /\ w \div 4 = g /\ w % 4 = r
        BY <1>11, DivMod
      <4>4. (w * 256) \div 16 = 64 * g + 16 * r
        BY <4>3
      <4>5. (w % 256) % 4 = r
        BY <4>3
      <4>6. (64 * g + 16 * r) % 64 = 16 * r
        OBVIOUS
      <4> QED
        BY <4>2, <4>4, <4>5, <4>6
    <3>6. y = e[m + 1]
      <4>1. w % 256 = x[n] /\ m + 1 = 4 * q + 2
        BY <1>11, <3>1
      <4> QED
        BY <3>4, <3>5, <4>1
    <3> QED
      BY <1>16, <3>1, <3>3, <3>6
  <2>3. CASE j = 2
    <3>1. /\ b = -2 /\ b > -6 /\ b + 8 = 6 /\ m = 4 * q + 2 /\ h = 4 * q + 3 /\ m + 1 = h
          /\ h <= l /\ n = 3 * q + 2 /\ n > 0
      BY <1>10, <1>11, <1>17, <2>3
    <3>2. PICK y : y = Low6(w * 256, 6)
      OBVIOUS
    <3>3. f = Append(out, y)
      BY <1>15, <3>1, <3>2
    <3>4. e[4 * q + 3] = (x[n] % 16) * 4
      BY <1>3, <3>1 DEF EncodedAre
    <3>5. y = ((w % 256) % 16) * 4
      <4>1. 2 ^ 6 = 64
        OBVIOUS
      <4>2. y = ((w * 256) \div 64) % 64
        BY <3>2, <4>1 DEF Low6
      <4>3. PICK g \in Nat, r \in 0 .. 15 : w = 16 * g + r /\ w \div 16 = g /\ w % 16 = r
        BY <1>11, DivMod
      <4>4. (w * 256) \div 64 = 64 * g + 4 * r
        BY <4>3
      <4>5. (w % 256) % 16 = r
        BY <4>3
      <4>6. (64 * g + 4 * r) % 64 = 4 * r
        OBVIOUS
      <4> QED
        BY <4>2, <4>4, <4>5, <4>6
    <3>6. y = e[m + 1]
      <4>1. w % 256 = x[n] /\ m + 1 = 4 * q + 3
        BY <1>11, <3>1
      <4> QED
        BY <3>4, <3>5, <4>1
    <3> QED
      BY <1>16, <3>1, <3>3, <3>6
  <2> QED
    BY <2>1, <2>2, <2>3
<1>19. PICK r \in Nat : r = l - h
  <2>1. h <= l
    BY <1>10, DigitCount
  <2>2. l - h \in Nat
    BY <2>1
  <2> QED
    BY <2>2
<1>20. PICK t : t = [k \in 1 .. r |-> Pad]
  OBVIOUS
<1>21. Padded(f) = f \o t
  <2>1. (-Len(f)) % 4 = r
    <3>1. (-h) % 4 = l - h
      BY <1>10, <1>17
    <3> QED
      BY <1>18, <1>19, <3>1
  <2> QED
    BY <1>20, <2>1 DEF Padded
<1>22. t \in Seq(Letter) /\ Len(t) = r /\ \A k \in 1 .. r : t[k] = e[h + k]
  <2>1. t \in [1 .. r -> Letter]
    BY <1>20 DEF Letter
  <2>2. t \in Seq(Letter) /\ Len(t) = r
    BY <2>1, FunctionIsSeq
  <2>3. ASSUME NEW k \in 1 .. r PROVE t[k] = e[h + k]
    <3>1. h + k \in h + 1 .. l
      BY <1>19
    <3> QED
      BY <1>12, <1>20, <3>1
  <2> QED
    BY <2>2, <2>3
<1>23. /\ f \o t \in Seq(Letter) /\ Len(f \o t) = h + r
       /\ \A k \in 1 .. h + r : (f \o t)[k] = e[k]
  <2>1. GrownTo(Letter, f, h, e)
    BY <1>18 DEF GrownTo
  <2>2. GrownTo(Letter, f \o t, h + r, e)
    BY <1>22, <2>1, OutGrowsBy
  <2> QED
    BY <2>2 DEF GrownTo
<1>24. f \o t = e
  <2>1. h + r = l
    BY <1>19
  <2>2. /\ f \o t \in Seq(Letter) /\ e \in Seq(Letter) /\ Len(f \o t) = Len(e)
        /\ \A k \in 1 .. Len(f \o t) : (f \o t)[k] = e[k]
    BY <1>12, <1>23, <2>1
  <2> QED
    BY <2>2, SeqEqual
<1> QED
  BY <1>3, <1>4, <1>9, <1>14, <1>21, <1>24

-----------------------------------------------------------------------------
\* The encoders and the decoders are interchangeable and invert each other, on
\* whatever the files hold: base64_encode with base64_encodestr, base64_decode with
\* base64_decodestr (also on a text that is not base64 of anything), escapeURL and
\* urlEncode with deescapeURL.
THEOREM CodecsAlwaysAgree == Spec => []CodecsAgree
<1>1. MailInv => CodecsAgree
  <2> SUFFICES ASSUME MailInv, NEW p \in Paths, disk[p] # Absent
               PROVE  /\ base64_encode(disk[p]) = base64_encodestr(disk[p])
                      /\ base64_decode(base64_encode(disk[p])) = disk[p]
                      /\ base64_decode(disk[p]) = base64_decodestr(disk[p])
                      /\ LET sig == base64_chars(base64_encode(disk[p]))
                         IN  deescapeURL(urlEncode(sig)) = sig
                      /\ deescapeURL(escapeURL(disk[p])) = disk[p]
                      /\ disk[p] \in Seq(1 .. 127) => deescapeURL(urlEncode(disk[p])) = disk[p]
    BY Zenon DEF CodecsAgree
  <2>1. PICK x \in Seq(Byte) : x = disk[p]
    <3>1. disk[p] \in Contents
      BY DEF MailInv, MailTypes
    <3> QED
      BY <3>1, ContentsAssumption
  <2>2. PICK sig : sig = base64_chars(base64_encode(x))
    OBVIOUS
  <2>3. sig \in Seq(1 .. 127)
    <3>1. base64_encode(x) \in Seq(Digit \union {Pad})
      BY EncodedIs
    <3> QED
      BY <2>2, <3>1, CharsArePrintable
  <2>4. deescapeURL(urlEncode(sig)) = sig
    BY <2>3, UrlEncodeIsInverted
  <2>5. /\ base64_encode(x) = base64_encodestr(x)
        /\ base64_decode(base64_encode(x)) = x
        /\ base64_decode(x) = base64_decodestr(x)
    BY EncodersAgree, DecodeInvertsEncode, DecodersAgree
  <2>6. deescapeURL(escapeURL(x)) = x
    BY EscapeIsInverted
  <2>7. x \in Seq(1 .. 127) => deescapeURL(urlEncode(x)) = x
    BY UrlEncodeIsInverted
  <2> QED
    BY <2>1, <2>2, <2>4, <2>5, <2>6, <2>7, Zenon
<1> QED
  BY <1>1, MailInvAlways, PTL
=============================================================================
