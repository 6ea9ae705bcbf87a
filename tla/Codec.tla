------------------------------- MODULE Codec --------------------------------
(***************************************************************************)
(* utils/codec.cpp: two pairs of functions for base64 and the encodings of *)
(* URLs.  A byte is a number; a base64 text is a sequence of digits 0..63, *)
(* the places of its characters in base64_chars, and of Pad for '='.       *)
(*                                                                         *)
(* base64_encode and base64_decode work in groups of three bytes and four  *)
(* digits and are written here digit by digit.  base64_encodestr and       *)
(* base64_decodestr shift bytes through an int: a recursive function.      *)
(*                                                                         *)
(* A definition named A_Something is not part of the model: it is A with a *)
(* fault, kept to show that a property notices the fault.                  *)
(***************************************************************************)
EXTENDS Integers, Sequences

Byte == 0 .. 255
Digit == 0 .. 63
Pad == 64

\* The k-th element, from 0, or what stands there when the text has ended.
At(s, k, other) == IF k < Len(s) THEN s[k + 1] ELSE other

\* The digit p of the four that three bytes give.
DigitOf_Unmasked(a, b, c, p) ==
  CASE p = 0 -> a \div 4
    [] p = 1 -> a * 16 + b \div 16
    [] p = 2 -> b * 4 + c \div 64
    [] p = 3 -> c
DigitOf_NoCarry(a, b, c, p) ==
  CASE p = 0 -> a \div 4
    [] p = 1 -> (a % 4) * 16 + b \div 16
    [] p = 2 -> (b % 16) * 4
    [] p = 3 -> c % 64
DigitOf(a, b, c, p) ==
  CASE p = 0 -> a \div 4
    [] p = 1 -> (a % 4) * 16 + b \div 16
    [] p = 2 -> (b % 16) * 4 + c \div 64
    [] p = 3 -> c % 64

\* The byte p of the three that four digits give, as an unsigned char.
ByteOf(a, b, c, d, p) ==
  CASE p = 0 -> (a * 4 + ((b \div 16) % 4)) % 256
    [] p = 1 -> ((b % 16) * 16 + ((c \div 4) % 16)) % 256
    [] p = 2 -> ((c % 4) * 64 + d) % 256

Digits(bytes) == (8 * Len(bytes) + 5) \div 6

base64_encode(bytes) ==
  [k \in 1 .. 4 * ((Len(bytes) + 2) \div 3) |->
     LET g == 3 * ((k - 1) \div 4) IN
     IF k > Digits(bytes) THEN Pad
     ELSE DigitOf(At(bytes, g, 0), At(bytes, g + 1, 0), At(bytes, g + 2, 0),
                  (k - 1) % 4)]

\* Decoding ends at the first character that is not a digit.
Ended(text, n) ==
  /\ n \in 0 .. Len(text)
  /\ \A k \in 1 .. n : text[k] \in Digit
  /\ n < Len(text) => text[n + 1] \notin Digit
Valid(text) == CHOOSE n \in 0 .. Len(text) : Ended(text, n)

\* find() of a character that is not in base64_chars, as an unsigned char.
Npos == 255

base64_decode(text) ==
  [k \in 1 .. (6 * Valid(text)) \div 8 |->
     LET g == 4 * ((k - 1) \div 3)
         s == SubSeq(text, 1, Valid(text))
     IN  ByteOf(At(s, g, Npos), At(s, g + 1, Npos), At(s, g + 2, Npos),
                At(s, g + 3, Npos), (k - 1) % 3)]

-----------------------------------------------------------------------------
\* The pair that shifts.  Only the low 14 bits of val are ever read; the int
\* of the code is wider and wraps.
Wrap(val) == val % 65536
Low6(val, shift) == (val \div 2 ^ shift) % 64

base64_encodestr(bytes) ==
  LET taken[i \in 0 .. Len(bytes)] ==
        IF i = 0 THEN [val |-> 0, valb |-> -6, out |-> <<>>]
        ELSE LET p == taken[i - 1]
                 v == Wrap(p.val * 256 + bytes[i])
                 b == p.valb + 8
             IN  IF b < 6
                 THEN [val |-> v, valb |-> b - 6,
                       out |-> Append(p.out, Low6(v, b))]
                 ELSE [val |-> v, valb |-> b - 12,
                       out |-> p.out \o <<Low6(v, b), Low6(v, b - 6)>>]
      last == taken[Len(bytes)]
      out  == IF last.valb > -6
              THEN Append(last.out, Low6(last.val * 256, last.valb + 8))
              ELSE last.out
  IN  out \o [k \in 1 .. (-Len(out)) % 4 |-> Pad]

base64_decodestr(text) ==
  LET taken[i \in 0 .. Valid(text)] ==
        IF i = 0 THEN [val |-> 0, valb |-> -8, out |-> <<>>]
        ELSE LET p == taken[i - 1]
                 v == Wrap(p.val * 64 + text[i])
                 b == p.valb + 6
             IN  IF b < 0 THEN [val |-> v, valb |-> b, out |-> p.out]
                 ELSE [val |-> v, valb |-> b - 8,
                       out |-> Append(p.out, (v \div 2 ^ b) % 256)]
  IN  taken[Valid(text)].out

-----------------------------------------------------------------------------
\* URLs: sequences of character codes.
Alnum == (48 .. 57) \union (65 .. 90) \union (97 .. 122)
Percent == 37

dec2hexChar(n) == IF n <= 9 THEN 48 + n ELSE 55 + n
hexChar2dec(c) ==
  CASE c \in 48 .. 57 -> c - 48
    [] c \in 97 .. 102 -> c - 87
    [] c \in 65 .. 70 -> c - 55
    [] OTHER -> -1
Hex(c) == <<dec2hexChar(c \div 16), dec2hexChar(c % 16)>>

Joined(pieces) ==
  LET upto[i \in 0 .. Len(pieces)] ==
        IF i = 0 THEN <<>> ELSE upto[i - 1] \o pieces[i]
  IN  upto[Len(pieces)]

\* sprintf("%X") is given a signed char: a byte above 127 is a negative int,
\* printed with eight digits after the "%0" of a number below 16.
urlPiece(c) ==
  IF c \in Alnum \union {45, 95, 46, 126} THEN <<c>>
  ELSE IF c >= 128 THEN <<Percent, 48, 70, 70, 70, 70, 70, 70>> \o Hex(c)
  ELSE <<Percent>> \o Hex(c)

\* strlen: the string ends at its first zero.
CString(bytes) ==
  LET n == CHOOSE n \in 0 .. Len(bytes) :
             /\ \A k \in 1 .. n : bytes[k] # 0
             /\ n < Len(bytes) => bytes[n + 1] = 0
  IN  SubSeq(bytes, 1, n)

urlEncode(bytes) ==
  LET s == CString(bytes) IN Joined([i \in 1 .. Len(s) |-> urlPiece(s[i])])

escapeURL(bytes) ==
  Joined([i \in 1 .. Len(bytes) |->
            IF bytes[i] \in Alnum \union {47, 46} THEN <<bytes[i]>>
            ELSE <<Percent>> \o Hex(bytes[i])])

\* The two characters after a percent sign are taken whatever they are; the
\* character at the end of the string is 0 and reading beyond it undefined,
\* so the definition is for texts whose last percent sign is followed by one.
deescapeURL(text) ==
  LET from[i \in 1 .. Len(text) + 3] ==
        IF i > Len(text) THEN <<>>
        ELSE IF text[i] # Percent THEN <<text[i]>> \o from[i + 1]
        ELSE <<(hexChar2dec(At(text, i, 0)) * 16
                 + hexChar2dec(At(text, i + 1, 0))) % 256>> \o from[i + 3]
  IN  from[1]

\* The characters of a base64 text.
base64_chars(text) ==
  [k \in DOMAIN text |->
     CASE text[k] \in 0 .. 25 -> 65 + text[k]
       [] text[k] \in 26 .. 51 -> 71 + text[k]
       [] text[k] \in 52 .. 61 -> text[k] - 4
       [] text[k] = 62 -> 43
       [] text[k] = 63 -> 47
       [] text[k] = Pad -> 61]
=============================================================================
