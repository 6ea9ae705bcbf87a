------------------------- MODULE BookMonitorProofs -------------------------
(***************************************************************************)
(* Theorems about BitmexBook and BookMonitor, for every bound.             *)
(*                                                                         *)
(* The book: the tables hold the venue's book as of the last row applied,  *)
(* so that a query adds up the venue's best levels.  The composition: it   *)
(* implements its two parts, so that what is proved of the book and of the *)
(* relay holds in it, and a client is told of true figures of ever later   *)
(* books.                                                                  *)
(***************************************************************************)
EXTENDS BookMonitor, SequenceTheorems, FunctionTheorems, FiniteSetTheorems, TLAPS

RelayProofs == INSTANCE ZmqRelayProofs WITH RelayStarted <- TRUE

-----------------------------------------------------------------------------
\* Row r takes the venue's book from b to c: it says what the level becomes, it
\* is a deletion exactly if that is nothing, and an insertion exactly if the
\* level was empty.
Describes(r, b, c) ==
  /\ c = [b EXCEPT ![r.side] = [b[r.side] EXCEPT ![r.price] = r.amount]]
  /\ r.amount = 0 <=> r.act = "delete"
  /\ b[r.side][r.price] = 0 <=> r.act \in {"partial", "insert"}

\* The rows sent lead from the empty book to each of the venue's books.
History(bs, rs) ==
  /\ bs \in Seq(Books) /\ rs \in Seq(Rows)
  /\ Len(bs) = Len(rs) + 1
  /\ bs[1] = EmptyBook
  /\ \A k \in 1 .. Len(rs) : Describes(rs[k], bs[k], bs[k + 1])

HistoryInv ==
  /\ History(books, rows)
  /\ messages \in Nat /\ (messages = 0 => rows = <<>>)
  /\ applied \in 0 .. Len(rows)

LEMMA HistoryLengths ==
  ASSUME NEW bs, NEW rs, History(bs, rs)
  PROVE  /\ Len(rs) \in Nat /\ Len(bs) \in Nat /\ Len(bs) = Len(rs) + 1
         /\ \A k \in 1 .. Len(rs) + 1 : bs[k] \in Books
         /\ \A k \in 1 .. Len(rs) : rs[k] \in Rows
  BY DEF History

\* One more row, and the book it describes.
LEMMA OneMoreRow ==
  ASSUME NEW bs, NEW rs, History(bs, rs),
         NEW r \in Rows, NEW c \in Books, Describes(r, bs[Len(bs)], c)
  PROVE  /\ History(Append(bs, c), Append(rs, r))
         /\ Append(bs, c)[Len(Append(bs, c))] = c
         /\ Len(Append(rs, r)) = Len(rs) + 1
<1>1. PICK n \in Nat : n = Len(rs)
  BY DEF History
<1>2. bs \in Seq(Books) /\ rs \in Seq(Rows) /\ Len(bs) = n + 1
  BY <1>1 DEF History
<1>3. PICK b2 : b2 = Append(bs, c)
  OBVIOUS
<1>4. PICK r2 : r2 = Append(rs, r)
  OBVIOUS
<1>5. /\ b2 \in Seq(Books) /\ Len(b2) = n + 2
      /\ \A i \in 1 .. n + 1 : b2[i] = bs[i]
      /\ b2[n + 2] = c
  BY <1>2, <1>3, AppendProperties
<1>6. /\ r2 \in Seq(Rows) /\ Len(r2) = n + 1
      /\ \A i \in 1 .. n : r2[i] = rs[i]
      /\ r2[n + 1] = r
  BY <1>1, <1>2, <1>4, AppendProperties
<1>7. ASSUME NEW k \in 1 .. n + 1
      PROVE  Describes(r2[k], b2[k], b2[k + 1])
  <2>1. CASE k \in 1 .. n
    <3>1. Describes(rs[k], bs[k], bs[k + 1])
      BY <1>1, <2>1 DEF History
    <3>2. r2[k] = rs[k] /\ b2[k] = bs[k] /\ b2[k + 1] = bs[k + 1]
      BY <1>5, <1>6, <2>1
    <3> QED
      BY <3>1, <3>2
  <2>2. CASE k = n + 1
    <3>1. r2[k] = r /\ b2[k] = bs[n + 1] /\ b2[k + 1] = c
      BY <1>5, <1>6, <2>2
    <3> QED
      BY <1>2, <3>1
  <2> QED
    BY <2>1, <2>2
<1>8. b2[1] = EmptyBook
  BY <1>5 DEF History
<1>9. History(b2, r2)
  BY <1>5, <1>6, <1>7, <1>8 DEF History
<1> QED
  BY <1>1, <1>3, <1>4, <1>5, <1>6, <1>9

LEMMA BookChange ==
  ASSUME NEW b \in Books, NEW s \in Sides, NEW p \in Prices, NEW q \in Sizes \union {0}
  PROVE  /\ [b EXCEPT ![s][p] = q] \in Books
         /\ [b EXCEPT ![s][p] = q] = [b EXCEPT ![s] = [b[s] EXCEPT ![p] = q]]
         /\ [b EXCEPT ![s][p] = q][s][p] = q
         /\ \A t \in Sides, o \in Prices :
              (t # s \/ o # p) => [b EXCEPT ![s][p] = q][t][o] = b[t][o]
  BY DEF Books

LEMMA EmptyBookType == EmptyBook \in Books
  BY DEF EmptyBook, Books

LEMMA LatestType ==
  ASSUME HistoryInv
  PROVE  Latest \in Books /\ books[Len(books)] = Latest
         /\ (messages = 0 => Latest = EmptyBook)
<1>1. Len(books) \in 1 .. Len(books) /\ Len(books) = Len(rows) + 1 /\ books \in Seq(Books)
  BY HistoryLengths DEF HistoryInv, History
<1>2. Latest \in Books
  BY <1>1 DEF Latest
<1>3. ASSUME messages = 0 PROVE Latest = EmptyBook
  <2>1. Len(books) = 1
    BY <1>1, <1>3, EmptySeq DEF HistoryInv
  <2> QED
    BY <2>1 DEF HistoryInv, History, Latest
<1> QED
  BY <1>2, <1>3 DEF Latest

\* RowFor says what it should.
LEMMA RowForDescribes ==
  ASSUME HistoryInv, NEW s \in Sides, NEW p \in Prices, NEW q \in Sizes \union {0},
         q # Latest[s][p]
  PROVE  /\ RowFor(s, p, q) \in Rows
         /\ Describes(RowFor(s, p, q), Latest, [Latest EXCEPT ![s][p] = q])
<1>1. Latest \in Books
  BY LatestType
<1>2. [Latest EXCEPT ![s][p] = q] = [Latest EXCEPT ![s] = [Latest[s] EXCEPT ![p] = q]]
  BY <1>1, BookChange
<1>3. RowFor(s, p, q) \in Rows
  BY DEF RowFor, Rows
<1>4. RowFor(s, p, q).side = s /\ RowFor(s, p, q).price = p /\ RowFor(s, p, q).amount = q
  BY DEF RowFor
<1>5. RowFor(s, p, q).act = IF Latest[s][p] = 0 THEN "insert" ELSE IF q = 0 THEN "delete" ELSE "update"
  BY DEF RowFor
<1> QED
  BY <1>2, <1>3, <1>4, <1>5 DEF Describes
LEMMA AppendTwo ==
  ASSUME NEW S, NEW s \in Seq(S), NEW x \in S, NEW y \in S
  PROVE  /\ s \o <<x>> = Append(s, x)
         /\ s \o <<x, y>> = Append(Append(s, x), y)
  OBVIOUS

\* The books there have been stay what they were.
Extends(bs, cs) ==
  /\ Len(bs) <= Len(cs)
  /\ \A k \in 1 .. Len(bs) : cs[k] = bs[k]

LEMMA AppendExtends ==
  ASSUME NEW S, NEW s \in Seq(S), NEW x \in S, NEW y \in S
  PROVE  Extends(s, Append(s, x)) /\ Extends(s, Append(Append(s, x), y))
<1>1. PICK n \in Nat : n = Len(s)
  OBVIOUS
<1>2. PICK t : t = Append(s, x)
  OBVIOUS
<1>3. PICK u : u = Append(t, y)
  OBVIOUS
<1>4. t \in Seq(S) /\ Len(t) = n + 1 /\ \A k \in 1 .. n : t[k] = s[k]
  BY <1>1, <1>2, AppendProperties
<1>5. u \in Seq(S) /\ Len(u) = n + 2 /\ \A k \in 1 .. n + 1 : u[k] = t[k]
  BY <1>3, <1>4, AppendProperties
<1> QED
  BY <1>1, <1>2, <1>3, <1>4, <1>5 DEF Extends

\* A message of one row, or of two.
LEMMA MessageKeepsHistory ==
  ASSUME HistoryInv,
         NEW r \in Rows, NEW c \in Books, Describes(r, Latest, c),
         NEW r2 \in Rows, NEW d \in Books, Describes(r2, c, d),
         NEW m, NEW a,
         \/ m = <<r>> /\ a = <<c>>
         \/ m = <<r, r2>> /\ a = <<c, d>>,
         Send(m, a)
  PROVE  HistoryInv' /\ Extends(books, books')
<1>1. /\ rows' = rows \o m /\ books' = books \o a
      /\ messages' = messages + 1 /\ applied' = applied
  BY DEF Send, tableVars
<1>2. books \in Seq(Books) /\ rows \in Seq(Rows) /\ History(books, rows)
  BY DEF HistoryInv, History
<1>3. PICK b1 : b1 = Append(books, c)
  OBVIOUS
<1>4. PICK r1 : r1 = Append(rows, r)
  OBVIOUS
<1>5. History(b1, r1) /\ b1[Len(b1)] = c /\ Len(r1) = Len(rows) + 1
  BY <1>2, <1>3, <1>4, OneMoreRow DEF Latest
<1>6. CASE m = <<r>> /\ a = <<c>>
  <2>1. rows' = r1 /\ books' = b1
    BY <1>1, <1>2, <1>3, <1>4, <1>6, AppendTwo
  <2>2. Extends(books, b1)
    BY <1>2, <1>3, AppendExtends
  <2> QED
    BY <1>1, <1>5, <2>1, <2>2, HistoryLengths DEF HistoryInv
<1>7. CASE m = <<r, r2>> /\ a = <<c, d>>
  <2>1. PICK b2 : b2 = Append(b1, d)
    OBVIOUS
  <2>2. PICK s2 : s2 = Append(r1, r2)
    OBVIOUS
  <2>3. rows' = s2
    BY <1>1, <1>2, <1>4, <1>7, <2>2, AppendTwo
  <2>4. books' = b2
    BY <1>1, <1>2, <1>3, <1>7, <2>1, AppendTwo
  <2>5. History(b2, s2) /\ Len(s2) = Len(r1) + 1
    BY <1>5, <2>1, <2>2, OneMoreRow
  <2>6. Extends(books, b2)
    BY <1>2, <1>3, <2>1, AppendExtends
  <2> QED
    BY <1>1, <1>2, <1>5, <2>3, <2>4, <2>5, <2>6, HistoryLengths DEF HistoryInv
<1> QED
  BY <1>6, <1>7

LEMMA PartialKeepsHistory ==
  ASSUME HistoryInv, SendPartial
  PROVE  HistoryInv' /\ Extends(books, books')
<1>1. PICK a \in Prices, d \in Prices, x \in Sizes, y \in Sizes :
        LET one == [EmptyBook EXCEPT !["Sell"][a] = x]
            two == [one EXCEPT !["Buy"][d] = y]
        IN  Send(<<[act |-> "partial", side |-> "Sell", price |-> a, amount |-> x,
                    last |-> FALSE],
                   [act |-> "partial", side |-> "Buy", price |-> d, amount |-> y,
                    last |-> TRUE]>>,
                 <<one, two>>)
  BY FirstSizesAssumption DEF SendPartial
<1>2. PICK one : one = [EmptyBook EXCEPT !["Sell"][a] = x]
  OBVIOUS
<1>3. PICK two : two = [one EXCEPT !["Buy"][d] = y]
  OBVIOUS
<1>4. PICK r : r = [act |-> "partial", side |-> "Sell", price |-> a, amount |-> x,
                    last |-> FALSE]
  OBVIOUS
<1>5. PICK r2 : r2 = [act |-> "partial", side |-> "Buy", price |-> d, amount |-> y,
                      last |-> TRUE]
  OBVIOUS
<1>6. Send(<<r, r2>>, <<one, two>>)
  BY <1>1, <1>2, <1>3, <1>4, <1>5
<1>7. r \in Rows /\ r2 \in Rows
  BY <1>4, <1>5 DEF Rows, Sides
<1>8. Latest = EmptyBook /\ EmptyBook \in Books
  BY LatestType, EmptyBookType DEF SendPartial
<1>9. /\ one \in Books
      /\ one = [EmptyBook EXCEPT !["Sell"] = [EmptyBook["Sell"] EXCEPT ![a] = x]]
      /\ one["Buy"][d] = EmptyBook["Buy"][d]
  BY <1>2, <1>8 DEF Sides, Books
<1>10. /\ two \in Books
       /\ two = [one EXCEPT !["Buy"] = [one["Buy"] EXCEPT ![d] = y]]
  BY <1>3, <1>9, BookChange DEF Sides
<1>11. x # 0 /\ y # 0
  BY SizesAssumption
<1>12. EmptyBook["Sell"][a] = 0 /\ EmptyBook["Buy"][d] = 0
  BY DEF EmptyBook, Sides
<1>13. Describes(r, Latest, one)
  BY <1>4, <1>8, <1>9, <1>11, <1>12 DEF Describes
<1>14. Describes(r2, one, two)
  BY <1>5, <1>9, <1>10, <1>11, <1>12 DEF Describes
<1> QED
  BY <1>6, <1>7, <1>9, <1>10, <1>13, <1>14, MessageKeepsHistory

LEMMA ChangeKeepsHistory ==
  ASSUME HistoryInv, SendChange
  PROVE  HistoryInv' /\ Extends(books, books')
<1>1. PICK s \in Sides, p \in Prices, q \in Sizes \union {0} :
        /\ q # Latest[s][p]
        /\ Send(<<RowFor(s, p, q)>>, <<[Latest EXCEPT ![s][p] = q]>>)
  BY DEF SendChange
<1>2. PICK r : r = RowFor(s, p, q)
  OBVIOUS
<1>3. PICK c : c = [Latest EXCEPT ![s][p] = q]
  OBVIOUS
<1>4. r \in Rows /\ Describes(r, Latest, c)
  BY <1>1, <1>2, <1>3, RowForDescribes
<1>5. c \in Books /\ c[s][p] = q
  BY <1>3, LatestType DEF Books
<1>6. Send(<<r>>, <<c>>)
  BY <1>1, <1>2, <1>3
\* A second row, for the lemma: the level changes back.
<1>7. PICK d : d = [c EXCEPT ![s][p] = Latest[s][p]]
  OBVIOUS
<1>8. Latest[s][p] \in Sizes \union {0}
  BY LatestType DEF Books
<1>9. d \in Books /\ d = [c EXCEPT ![s] = [c[s] EXCEPT ![p] = Latest[s][p]]]
  BY <1>5, <1>7, <1>8, BookChange
<1>10. PICK r2 : r2 = [act |-> IF q = 0 THEN "insert"
                               ELSE IF Latest[s][p] = 0 THEN "delete" ELSE "update",
                       side |-> s, price |-> p, amount |-> Latest[s][p], last |-> TRUE]
  OBVIOUS
<1>11. r2 \in Rows
  BY <1>8, <1>10 DEF Rows
<1>12. Describes(r2, c, d)
  BY <1>1, <1>5, <1>9, <1>10 DEF Describes
<1> QED
  BY <1>4, <1>5, <1>6, <1>9, <1>11, <1>12, MessageKeepsHistory

LEMMA DeletesKeepHistory ==
  ASSUME HistoryInv, SendDeletes
  PROVE  HistoryInv' /\ Extends(books, books')
<1>1. PICK s \in Sides : \E p, q \in Levels(Latest, s) :
        /\ p < q
        /\ LET one == [Latest EXCEPT ![s][p] = 0]
           IN  Send(<<[RowFor(s, p, 0) EXCEPT !.last = FALSE], RowFor(s, q, 0)>>,
                    <<one, [one EXCEPT ![s][q] = 0]>>)
  BY DEF SendDeletes
<1>2. PICK p \in Levels(Latest, s), q \in Levels(Latest, s) :
        /\ p < q
        /\ LET one == [Latest EXCEPT ![s][p] = 0]
           IN  Send(<<[RowFor(s, p, 0) EXCEPT !.last = FALSE], RowFor(s, q, 0)>>,
                    <<one, [one EXCEPT ![s][q] = 0]>>)
  BY <1>1
<1>3. /\ p \in Prices /\ q \in Prices /\ p # q
      /\ Latest[s][p] # 0 /\ Latest[s][q] # 0
  BY <1>2, PricesAssumption DEF Levels
<1>4. PICK one : one = [Latest EXCEPT ![s][p] = 0]
  OBVIOUS
<1>5. PICK two : two = [one EXCEPT ![s][q] = 0]
  OBVIOUS
<1>6. PICK r : r = [RowFor(s, p, 0) EXCEPT !.last = FALSE]
  OBVIOUS
<1>7. PICK r2 : r2 = RowFor(s, q, 0)
  OBVIOUS
<1>8. Send(<<r, r2>>, <<one, two>>)
  BY <1>2, <1>4, <1>5, <1>6, <1>7
<1>9. /\ one \in Books /\ one[s][q] = Latest[s][q]
      /\ one = [Latest EXCEPT ![s] = [Latest[s] EXCEPT ![p] = 0]]
  BY <1>3, <1>4, LatestType DEF Books
<1>10. two \in Books /\ two = [one EXCEPT ![s] = [one[s] EXCEPT ![q] = 0]]
  BY <1>3, <1>5, <1>9, BookChange
<1>11. r \in Rows /\ r.act = "delete" /\ r.side = s /\ r.price = p /\ r.amount = 0
  BY <1>3, <1>6 DEF RowFor, Rows
<1>12. r2 \in Rows /\ r2.act = "delete" /\ r2.side = s /\ r2.price = q /\ r2.amount = 0
  BY <1>3, <1>7 DEF RowFor, Rows
<1>13. Describes(r, Latest, one)
  BY <1>3, <1>9, <1>11 DEF Describes
<1>14. Describes(r2, one, two)
  BY <1>3, <1>9, <1>10, <1>12 DEF Describes
<1> QED
  BY <1>8, <1>9, <1>10, <1>11, <1>12, <1>13, <1>14, MessageKeepsHistory

VenueStep == SendPartial \/ SendChange \/ SendDeletes

\* Every other step leaves the venue alone and applies at most a row.
LEMMA NextKeepsHistory ==
  ASSUME HistoryInv, [Next]_vars
  PROVE  HistoryInv' /\ Extends(books, books')
<1>1. CASE VenueStep
  BY <1>1, PartialKeepsHistory, ChangeKeepsHistory, DeletesKeepHistory DEF VenueStep
<1>2. ASSUME UNCHANGED venueVars, applied' \in 0 .. Len(rows)
      PROVE  HistoryInv' /\ Extends(books, books')
  <2>1. Extends(books, books')
    BY <1>2, HistoryLengths DEF HistoryInv, Extends, venueVars
  <2> QED
    BY <1>2, <2>1 DEF HistoryInv, venueVars
<1>3. CASE ApplyRow
  <2>1. UNCHANGED venueVars /\ applied' = applied + 1 /\ applied < Len(rows)
    BY <1>3 DEF ApplyRow
  <2>2. applied' \in 0 .. Len(rows)
    BY <2>1, HistoryLengths DEF HistoryInv
  <2> QED
    BY <1>2, <2>1, <2>2
<1>4. CASE \/ OnDisconnection \/ select_askamount \/ select_bidamount
           \/ SendReading \/ UNCHANGED vars
  <2>1. UNCHANGED venueVars /\ applied' = applied
    BY <1>4 DEF OnDisconnection, select_askamount, select_bidamount, SendReading,
      vars, tableVars
  <2> QED
    BY <1>2, <2>1 DEF HistoryInv
<1> QED
  BY <1>1, <1>3, <1>4 DEF Next, VenueStep

LEMMA InitHistory == Init => HistoryInv
<1> SUFFICES ASSUME Init PROVE HistoryInv
  OBVIOUS
<1>1. books = <<EmptyBook>> /\ rows = <<>> /\ applied = 0 /\ messages = 0
  BY DEF Init
<1>2. books \in Seq(Books) /\ Len(books) = 1 /\ books[1] = EmptyBook
  BY <1>1, EmptyBookType
<1>3. rows \in Seq(Rows) /\ Len(rows) = 0
  BY <1>1
<1> QED
  BY <1>1, <1>2, <1>3 DEF HistoryInv, History
-----------------------------------------------------------------------------
\* Table t holds the levels of f, each once.
Holds(t, f) ==
  /\ \A r \in t : r.price \in Prices /\ r.amount = f[r.price] /\ f[r.price] # 0
  /\ \A p \in Prices : f[p] # 0 => \E r \in t : r.price = p
  /\ \A r, o \in t : r.price = o.price => r = o

LEMMA PairsEqual ==
  ASSUME NEW a, NEW b, NEW c, NEW d, <<a, b>> = <<c, d>>
  PROVE  a = c /\ b = d
  OBVIOUS

\* The same, as TablesAreVenueBook says it.
LEMMA HoldsLevels ==
  ASSUME NEW t, NEW b, NEW s
  PROVE  Holds(t, b[s]) <=>
           /\ LevelsIn(t) = BookRows(b, s)
           /\ \A r, o \in t : r.price = o.price => r = o
<1>1. PICK A : A = LevelsIn(t)
  OBVIOUS
<1>2. PICK f : f = b[s]
  OBVIOUS
<1>3. PICK L : L = {x \in Prices : f[x] # 0}
  OBVIOUS
<1>4. PICK B : B = BookRows(b, s)
  OBVIOUS
<1>a. A = {<<r.price, r.amount>> : r \in t}
  BY <1>1 DEF LevelsIn
<1>b. B = {<<p, f[p]>> : p \in L}
  BY <1>2, <1>3, <1>4 DEF BookRows, Levels
<1>5. ASSUME Holds(t, f) PROVE A = B
  <2>1. ASSUME NEW z \in A PROVE z \in B
    <3>1. PICK r \in t : z = <<r.price, r.amount>>
      BY <1>a, <2>1
    <3>2. r.price \in L /\ r.amount = f[r.price]
      BY <1>3, <1>5 DEF Holds
    <3> QED
      BY <1>b, <3>1, <3>2
  <2>2. ASSUME NEW z \in B PROVE z \in A
    <3>1. PICK p \in L : z = <<p, f[p]>>
      BY <1>b, <2>2
    <3>2. PICK r \in t : r.price = p
      BY <1>3, <1>5 DEF Holds
    <3>3. r.amount = f[p]
      BY <1>5, <3>2 DEF Holds
    <3> QED
      BY <1>a, <3>1, <3>2, <3>3
  <2> QED
    BY <2>1, <2>2
<1>6. ASSUME A = B PROVE \A r \in t : r.price \in Prices /\ r.amount = f[r.price]
                                      /\ f[r.price] # 0
  <2> SUFFICES ASSUME NEW r \in t
               PROVE  r.price \in Prices /\ r.amount = f[r.price] /\ f[r.price] # 0
    OBVIOUS
  <2>1. <<r.price, r.amount>> \in B
    BY <1>a, <1>6
  <2>2. PICK p \in L : <<r.price, r.amount>> = <<p, f[p]>>
    BY <1>b, <2>1
  <2>3. r.price = p /\ r.amount = f[p]
    BY <2>2, PairsEqual
  <2> QED
    BY <1>3, <2>3
<1>7. ASSUME A = B PROVE \A p \in Prices : f[p] # 0 => \E r \in t : r.price = p
  <2> SUFFICES ASSUME NEW p \in Prices, f[p] # 0 PROVE \E r \in t : r.price = p
    OBVIOUS
  <2>1. <<p, f[p]>> \in A
    BY <1>3, <1>b, <1>7
  <2>2. PICK r \in t : <<p, f[p]>> = <<r.price, r.amount>>
    BY <1>a, <2>1
  <2>3. p = r.price
    BY <2>2, PairsEqual
  <2> QED
    BY <2>3
<1>8. Holds(t, f) <=> A = B /\ \A r, o \in t : r.price = o.price => r = o
  BY <1>3, <1>5, <1>6, <1>7 DEF Holds
<1> QED
  BY <1>1, <1>2, <1>4, <1>8

TablesHold == \A s \in Sides : Holds(table[s], books[applied + 1][s])

LEMMA TablesHoldBook == TablesHold <=> TablesAreVenueBook
  BY HoldsLevels DEF TablesHold, TablesAreVenueBook

\* Each statement does to the rows what the row of the message does to the book.
LEMMA InsertHolds ==
  ASSUME NEW t, NEW f, Holds(t, f), NEW p \in Prices, f[p] = 0,
         f \in [Prices -> Sizes \union {0}],
         NEW q \in Sizes, NEW key
  PROVE  Holds(insert_price(t, key, p, q), [f EXCEPT ![p] = q])
<1>1. PICK g : g = [f EXCEPT ![p] = q]
  OBVIOUS
<1>2. PICK n : n = [key |-> key, price |-> p, amount |-> q]
  OBVIOUS
<1>3. PICK u : u = t \union {n}
  OBVIOUS
<1>4. n.price = p /\ n.amount = q /\ q # 0
  BY <1>2, SizesAssumption
<1>5. g[p] = q /\ \A o \in Prices : o # p => g[o] = f[o]
  BY <1>1
<1>6. \A r \in t : r.price \in Prices /\ r.price # p /\ r.amount = f[r.price] /\ f[r.price] # 0
  BY DEF Holds
<1>7. \A r \in u : r.price \in Prices /\ r.amount = g[r.price] /\ g[r.price] # 0
  BY <1>3, <1>4, <1>5, <1>6
<1>8. \A o \in Prices : g[o] # 0 => \E r \in u : r.price = o
  BY <1>3, <1>4, <1>5 DEF Holds
<1>9. \A r, o \in u : r.price = o.price => r = o
  BY <1>3, <1>4, <1>6 DEF Holds
<1>10. Holds(u, g)
  BY <1>7, <1>8, <1>9 DEF Holds
<1> QED
  BY <1>1, <1>2, <1>3, <1>10 DEF insert_price

LEMMA DeleteHolds ==
  ASSUME NEW t, NEW f, Holds(t, f), NEW p \in Prices,
         f \in [Prices -> Sizes \union {0}]
  PROVE  Holds(delete_price(t, p), [f EXCEPT ![p] = 0])
<1>1. PICK g : g = [f EXCEPT ![p] = 0]
  OBVIOUS
<1>2. g[p] = 0 /\ \A o \in Prices : o # p => g[o] = f[o]
  BY <1>1
<1>3. Holds({r \in t : r.price # p}, g)
  BY <1>2 DEF Holds
<1> QED
  BY <1>1, <1>3 DEF delete_price

LEMMA UpdateHolds ==
  ASSUME NEW t \in SUBSET TableRows, NEW f, Holds(t, f), NEW p \in Prices, f[p] # 0,
         f \in [Prices -> Sizes \union {0}],
         NEW q \in Sizes
  PROVE  Holds(update_price(t, p, q), [f EXCEPT ![p] = q])
<1>1. PICK g : g = [f EXCEPT ![p] = q]
  OBVIOUS
<1>2. g[p] = q /\ \A o \in Prices : o # p => g[o] = f[o]
  BY <1>1
<1>3. q # 0
  BY SizesAssumption
<1>4. PICK u : u = update_price(t, p, q)
  OBVIOUS
<1>5. ASSUME NEW r \in u
      PROVE  \E o \in t : /\ o.price = r.price
                          /\ r = IF o.price = p THEN [o EXCEPT !.amount = q] ELSE o
                          /\ r.amount = IF o.price = p THEN q ELSE o.amount
  <2>1. PICK o \in t : r = IF o.price = p THEN [o EXCEPT !.amount = q] ELSE o
    BY <1>4, <1>5 DEF update_price
  <2>2. o \in TableRows
    OBVIOUS
  <2>3. [o EXCEPT !.amount = q].price = o.price /\ [o EXCEPT !.amount = q].amount = q
    BY <2>2 DEF TableRows
  <2> QED
    BY <2>1, <2>3
<1>6. ASSUME NEW o \in t
      PROVE  \E r \in u : r.price = o.price
  <2>1. o \in TableRows
    OBVIOUS
  <2>2. [o EXCEPT !.amount = q].price = o.price
    BY <2>1 DEF TableRows
  <2>3. (IF o.price = p THEN [o EXCEPT !.amount = q] ELSE o) \in u
    BY <1>4 DEF update_price
  <2> QED
    BY <2>2, <2>3
<1>7. \A r \in u : r.price \in Prices /\ r.amount = g[r.price] /\ g[r.price] # 0
  BY <1>2, <1>3, <1>5 DEF Holds
<1>8. \A o \in Prices : g[o] # 0 => \E r \in u : r.price = o
  <2> SUFFICES ASSUME NEW o \in Prices, g[o] # 0 PROVE \E r \in u : r.price = o
    OBVIOUS
  <2>1. f[o] # 0
    BY <1>2
  <2>2. PICK x \in t : x.price = o
    BY <2>1 DEF Holds
  <2> QED
    BY <1>6, <2>2
<1>9. \A r, o \in u : r.price = o.price => r = o
  <2> SUFFICES ASSUME NEW r \in u, NEW o \in u, r.price = o.price PROVE r = o
    OBVIOUS
  <2>1. PICK x \in t : /\ x.price = r.price
                       /\ r = IF x.price = p THEN [x EXCEPT !.amount = q] ELSE x
    BY <1>5
  <2>2. PICK y \in t : /\ y.price = o.price
                       /\ o = IF y.price = p THEN [y EXCEPT !.amount = q] ELSE y
    BY <1>5
  <2>3. x = y
    BY <2>1, <2>2 DEF Holds
  <2> QED
    BY <2>1, <2>2, <2>3
<1>10. Holds(u, g)
  BY <1>7, <1>8, <1>9 DEF Holds
<1> QED
  BY <1>1, <1>4, <1>10

LEMMA StatementTypes ==
  ASSUME NEW t \in SUBSET TableRows, NEW p \in Prices, NEW q \in Sizes,
         NEW key \in Nat \ {0}
  PROVE  /\ insert_price(t, key, p, q) \in SUBSET TableRows
         /\ delete_price(t, p) \in SUBSET TableRows
         /\ update_price(t, p, q) \in SUBSET TableRows
<1>1. insert_price(t, key, p, q) \in SUBSET TableRows
  BY DEF insert_price, TableRows
<1>2. delete_price(t, p) \in SUBSET TableRows
  BY DEF delete_price
<1>3. update_price(t, p, q) \in SUBSET TableRows
  <2>1. \A r \in t : [r EXCEPT !.amount = q] \in TableRows
    BY DEF TableRows
  <2> QED
    BY <2>1 DEF update_price
<1> QED
  BY <1>1, <1>2, <1>3

TableTypes ==
  /\ table \in [Sides -> SUBSET TableRows]
  /\ lastKey \in [Sides -> Nat]

TableInv == HistoryInv /\ TableTypes /\ TablesHold

LEMMA InitTables == Init => TableInv
<1> SUFFICES ASSUME Init PROVE TableInv
  OBVIOUS
<1>1. TableTypes
  BY DEF Init, TableTypes
<1>2. /\ table = [s \in Sides |-> {}] /\ books[applied + 1] = EmptyBook
  BY DEF Init
<1>3. \A s \in Sides : Holds(table[s], books[applied + 1][s])
  BY <1>2 DEF Holds, EmptyBook
<1> QED
  BY <1>1, <1>3, InitHistory DEF TableInv, TablesHold

LEMMA ApplyKeepsTables ==
  ASSUME TableInv, ApplyRow
  PROVE  TableTypes' /\ TablesHold'
<1>1. applied \in Nat /\ applied + 1 \in 1 .. Len(rows) /\ applied' = applied + 1
      /\ books' = books
  BY HistoryLengths DEF TableInv, HistoryInv, ApplyRow, venueVars
<1>2. PICK r : r = rows[applied + 1]
  OBVIOUS
<1>3. PICK b : b = books[applied + 1]
  OBVIOUS
<1>4. PICK c : c = books[applied + 2]
  OBVIOUS
<1>5. r \in Rows /\ b \in Books /\ c \in Books
  BY <1>1, <1>2, <1>3, <1>4, HistoryLengths DEF TableInv, HistoryInv
<1>6. Describes(r, b, c)
  BY <1>1, <1>2, <1>3, <1>4 DEF TableInv, HistoryInv, History
<1>7. PICK s : s = r.side
  OBVIOUS
<1>8. PICK p : p = r.price
  OBVIOUS
<1>9. PICK q : q = r.amount
  OBVIOUS
<1>10. /\ s \in Sides /\ p \in Prices /\ q \in Sizes \union {0}
       /\ r.act \in {"partial", "insert", "update", "delete"}
  BY <1>5, <1>7, <1>8, <1>9 DEF Rows
<1>11. PICK f : f = b[s]
  OBVIOUS
<1>12. f \in [Prices -> Sizes \union {0}]
  BY <1>5, <1>10, <1>11 DEF Books
<1>13. /\ c = [b EXCEPT ![s] = [f EXCEPT ![p] = q]]
       /\ q = 0 <=> r.act = "delete"
       /\ f[p] = 0 <=> r.act \in {"partial", "insert"}
  BY <1>6, <1>7, <1>8, <1>9, <1>11 DEF Describes
<1>14. c[s] = [f EXCEPT ![p] = q] /\ \A o \in Sides : o # s => c[o] = b[o]
  BY <1>5, <1>10, <1>13 DEF Books
<1>15. PICK t : t = table[s]
  OBVIOUS
<1>16. t \in SUBSET TableRows /\ Holds(t, f)
  BY <1>3, <1>10, <1>11, <1>15 DEF TableInv, TableTypes, TablesHold
<1>17. PICK k : k = lastKey[s] + 1
  OBVIOUS
<1>18. k \in Nat \ {0}
  BY <1>10, <1>17 DEF TableInv, TableTypes
<1>19. PICK u : u = CASE r.act \in {"partial", "insert"} -> insert_price(t, k, p, q)
                      [] r.act = "update" -> update_price(t, p, q)
                      [] r.act = "delete" -> delete_price(t, p)
  OBVIOUS
<1>20. table' = [table EXCEPT ![s] = u]
  BY <1>2, <1>7, <1>8, <1>9, <1>15, <1>17, <1>19 DEF ApplyRow
<1>21. lastKey' \in [Sides -> Nat]
  BY <1>2, <1>7, <1>10 DEF ApplyRow, TableInv, TableTypes
<1>22. u \in SUBSET TableRows /\ Holds(u, [f EXCEPT ![p] = q])
  <2>1. CASE r.act \in {"partial", "insert"}
    <3>1. q \in Sizes /\ f[p] = 0 /\ u = insert_price(t, k, p, q)
      BY <1>10, <1>13, <1>19, <2>1
    <3> QED
      BY <1>10, <1>12, <1>16, <1>18, <3>1, InsertHolds, StatementTypes
  <2>2. CASE r.act = "update"
    <3>1. q \in Sizes /\ f[p] # 0 /\ u = update_price(t, p, q)
      BY <1>10, <1>13, <1>19, <2>2
    <3> QED
      BY <1>10, <1>12, <1>16, <1>18, <3>1, UpdateHolds, StatementTypes
  <2>3. CASE r.act = "delete"
    <3>1. q = 0 /\ u = delete_price(t, p)
      BY <1>10, <1>13, <1>19, <2>3
    <3>2. delete_price(t, p) \in SUBSET TableRows
      BY <1>16 DEF delete_price
    <3> QED
      BY <1>10, <1>12, <1>16, <3>1, <3>2, DeleteHolds
  <2> QED
    BY <1>10, <2>1, <2>2, <2>3
<1>23. TableTypes'
  BY <1>10, <1>20, <1>21, <1>22 DEF TableInv, TableTypes
<1>24. books'[applied' + 1] = c
  BY <1>1, <1>4
<1>25. ASSUME NEW o \in Sides
       PROVE  Holds(table'[o], c[o])
  <2>1. CASE o = s
    <3>1. table'[o] = u /\ c[o] = [f EXCEPT ![p] = q]
      BY <1>14, <1>20, <2>1, <1>25 DEF TableInv, TableTypes
    <3> QED
      BY <1>22, <3>1
  <2>2. CASE o # s
    <3>1. table'[o] = table[o] /\ c[o] = b[o]
      BY <1>14, <1>20, <2>2, <1>25 DEF TableInv, TableTypes
    <3> QED
      BY <1>3, <3>1 DEF TableInv, TablesHold
  <2> QED
    BY <2>1, <2>2
<1>26. TablesHold'
  BY <1>24, <1>25 DEF TablesHold
<1> QED
  BY <1>23, <1>26

LEMMA NextKeepsTables ==
  ASSUME TableInv, [Next]_vars
  PROVE  TableInv'
<1>1. HistoryInv' /\ Extends(books, books')
  BY NextKeepsHistory DEF TableInv
<1>2. CASE ApplyRow
  BY <1>1, <1>2, ApplyKeepsTables DEF TableInv
<1>3. CASE ~ApplyRow
  <2>1. UNCHANGED tableVars
    BY <1>3, ZenonT(40) DEF Next, SendPartial, SendChange, SendDeletes, Send, OnDisconnection,
      select_askamount, select_bidamount, SendReading, vars
  <2>2. applied + 1 \in 1 .. Len(books)
    BY HistoryLengths DEF TableInv, HistoryInv
  <2>3. books'[applied + 1] = books[applied + 1]
    BY <1>1, <2>2 DEF Extends
  <2> QED
    BY <1>1, <2>1, <2>3 DEF TableInv, TableTypes, TablesHold, tableVars
<1> QED
  BY <1>2, <1>3

\* Whatever the messages are and wherever their rows are interrupted by queries
\* or the end of the stream, the two tables hold the venue's book as of the
\* last row applied, each level once.
THEOREM TablesCorrect == Spec => []TablesAreVenueBook
<1>1. TableInv => TablesAreVenueBook
  BY TablesHoldBook DEF TableInv
<1> QED
  BY <1>1, InitTables, NextKeepsTables, PTL DEF Spec
-----------------------------------------------------------------------------
\* As many rows come before a row as levels of the book are better than its
\* price.
LEMMA RowsBefore ==
  ASSUME NEW b, NEW s \in Sides, NEW t, Holds(t, b[s]), NEW r \in t
  PROVE  Cardinality({o \in t : Before(s, o, r)}) =
         Cardinality({q \in Levels(b, s) : IF s = "Buy" THEN q > r.price ELSE q < r.price})
<1>1. PICK A : A = {o \in t : Before(s, o, r)}
  OBVIOUS
<1>2. PICK B : B = {q \in Levels(b, s) : IF s = "Buy" THEN q > r.price ELSE q < r.price}
  OBVIOUS
<1>3. PICK g : g = [o \in A |-> o.price]
  OBVIOUS
<1>4. ASSUME NEW o \in t
      PROVE  o \in A <=> o.price \in B
  <2>1. o.price \in Levels(b, s)
    BY DEF Holds, Levels
  <2> QED
    BY <1>1, <1>2, <2>1 DEF Before, Sides
<1>5. g \in [A -> B]
  BY <1>1, <1>3, <1>4
<1>6. \A x, y \in A : g[x] = g[y] => x = y
  BY <1>1, <1>3 DEF Holds
<1>7. \A q \in B : \E o \in A : g[o] = q
  <2> SUFFICES ASSUME NEW q \in B PROVE \E o \in A : g[o] = q
    OBVIOUS
  <2>1. q \in Prices /\ b[s][q] # 0
    BY <1>2 DEF Levels
  <2>2. PICK o \in t : o.price = q
    BY <2>1 DEF Holds
  <2> QED
    BY <1>3, <1>4, <2>2
<1>8. g \in Bijection(A, B)
  BY <1>5, <1>6, <1>7, Fun_IsBij
<1>9. ExistsBijection(B, A)
  BY <1>8, Fun_ExistsBij, Fun_ExistsBijSymmetric
<1>10. IsFiniteSet(B)
  <2>1. B \in SUBSET Prices
    BY <1>2 DEF Levels
  <2> QED
    BY <2>1, PricesAssumption, FS_Subset
<1>11. Cardinality(A) = Cardinality(B)
  BY <1>9, <1>10, FS_Bijection
<1> QED
  BY <1>1, <1>2, <1>11

\* A query adds up the best levels of the book that the table holds.
LEMMA FigureIsVenues ==
  ASSUME NEW b, NEW s \in Sides, NEW t, Holds(t, b[s])
  PROVE  IsVenueFigure(Figure(t, s), b, s)
<1>1. PICK F : F = Figure(t, s)
  OBVIOUS
<1>2. PICK A : A = LevelsIn(F)
  OBVIOUS
<1>3. PICK V : V = VenueFigure(b, s)
  OBVIOUS
<1>4. ASSUME NEW r \in t PROVE r \in F <=> r.price \in Best(b, s)
  <2>1. r.price \in Levels(b, s)
    BY DEF Holds, Levels
  <2>2. Cardinality({o \in t : Before(s, o, r)}) =
        Cardinality({q \in Levels(b, s) : IF s = "Buy" THEN q > r.price ELSE q < r.price})
    BY RowsBefore
  <2>3. r \in F <=> Cardinality({o \in t : Before(s, o, r)}) < Depth
    BY <1>1 DEF Figure
  <2>4. r.price \in Best(b, s) <=>
        Cardinality({q \in Levels(b, s) :
                       IF s = "Buy" THEN q > r.price ELSE q < r.price}) < Depth
    BY <2>1 DEF Best
  <2> QED
    BY <2>2, <2>3, <2>4
<1>5. F \in SUBSET t
  BY <1>1 DEF Figure
<1>8. A = {<<r.price, r.amount>> : r \in F}
  BY <1>2 DEF LevelsIn
<1>9. V = {<<p, b[s][p]>> : p \in Best(b, s)}
  BY <1>3 DEF VenueFigure
<1>10. ASSUME NEW z \in A PROVE z \in V
  <2>1. PICK r \in F : z = <<r.price, r.amount>>
    BY <1>8, <1>10
  <2>2. r.amount = b[s][r.price] /\ r.price \in Best(b, s)
    BY <1>4, <1>5 DEF Holds
  <2> QED
    BY <1>9, <2>1, <2>2
<1>11. ASSUME NEW z \in V PROVE z \in A
  <2>1. PICK p \in Best(b, s) : z = <<p, b[s][p]>>
    BY <1>9, <1>11
  <2>2. p \in Prices /\ b[s][p] # 0
    BY DEF Best, Levels
  <2>3. PICK r \in t : r.price = p
    BY <2>2 DEF Holds
  <2>4. r \in F /\ r.amount = b[s][p]
    BY <1>4, <2>3 DEF Holds
  <2> QED
    BY <1>8, <2>1, <2>3, <2>4
<1>12. A = V
  BY <1>10, <1>11
<1>13. \A r, o \in F : r.price = o.price => r = o
  BY <1>5 DEF Holds
<1> QED
  BY <1>1, <1>2, <1>3, <1>12, <1>13 DEF IsVenueFigure

\* What the venue has sent stays what it was as it goes on.
LEMMA BookStays ==
  ASSUME HistoryInv, Extends(books, books'), NEW k \in 0 .. applied
  PROVE  books'[k + 1] = books[k + 1]
<1>1. k + 1 \in 1 .. Len(books)
  BY HistoryLengths DEF HistoryInv
<1> QED
  BY <1>1 DEF Extends

\* The figures read in a turn of the loop, as long as the process runs, are
\* those of the venue's books after the rows at which they were read.
FiguresInv ==
  /\ askAt \in 0 .. applied /\ bidAt \in 0 .. applied
  /\ m_ask \in SUBSET TableRows /\ m_bid \in SUBSET TableRows
  /\ monitor \in {"sleep", "bid", "send"}
  /\ connected \in BOOLEAN /\ proc \in {"up", "dead"}
  /\ proc = "up" =>
       /\ monitor # "sleep" => IsVenueFigure(m_ask, books[askAt + 1], "Sell")
       /\ monitor = "send" => IsVenueFigure(m_bid, books[bidAt + 1], "Buy")
  /\ MonitorDiesOfEmptySide

BookInv == TableInv /\ FiguresInv

LEMMA EmptyTableEmptySide ==
  ASSUME NEW b, NEW s, Holds({}, b[s])
  PROVE  SideEmpty(b, s)
  BY DEF Holds, SideEmpty, Levels

LEMMA QueryFigure ==
  ASSUME TableInv, NEW s \in Sides
  PROVE  /\ Figure(table[s], s) \in SUBSET TableRows
         /\ IsVenueFigure(Figure(table[s], s), books[applied + 1], s)
         /\ table[s] = {} => SideEmpty(books[applied + 1], s)
<1>1. Holds(table[s], books[applied + 1][s]) /\ table[s] \in SUBSET TableRows
  BY DEF TableInv, TablesHold, TableTypes
<1>2. Figure(table[s], s) \in SUBSET TableRows
  BY <1>1 DEF Figure
<1> QED
  BY <1>1, <1>2, FigureIsVenues, EmptyTableEmptySide

LEMMA NextKeepsFigures ==
  ASSUME BookInv, [Next]_vars
  PROVE  BookInv'
<1>1. TableInv' /\ HistoryInv /\ HistoryInv' /\ Extends(books, books')
  BY NextKeepsTables, NextKeepsHistory DEF BookInv, TableInv
<1>2. applied \in Nat /\ "Sell" \in Sides /\ "Buy" \in Sides
  BY <1>1 DEF HistoryInv, Sides
<1>3. ASSUME UNCHANGED <<monitorVars, proc>>, connected' \in BOOLEAN,
             applied' \in {applied, applied + 1}
      PROVE  FiguresInv'
  <2>1. /\ askAt' = askAt /\ bidAt' = bidAt /\ monitor' = monitor /\ proc' = proc
        /\ m_ask' = m_ask /\ m_bid' = m_bid
    BY <1>3 DEF monitorVars
  <2>2. askAt \in 0 .. applied /\ bidAt \in 0 .. applied
    BY DEF BookInv, FiguresInv
  <2>3. books'[askAt + 1] = books[askAt + 1] /\ books'[bidAt + 1] = books[bidAt + 1]
    BY <1>1, <2>2, BookStays
  <2>4. /\ (proc = "up" /\ monitor # "sleep")' =>
             IsVenueFigure(m_ask, books[askAt + 1], "Sell")'
        /\ (proc = "up" /\ monitor = "send")' =>
             IsVenueFigure(m_bid, books[bidAt + 1], "Buy")'
    BY <2>1, <2>3 DEF BookInv, FiguresInv
  <2>5. MonitorDiesOfEmptySide'
    BY <2>1, <2>3 DEF BookInv, FiguresInv, MonitorDiesOfEmptySide
  <2>6. askAt' \in 0 .. applied' /\ bidAt' \in 0 .. applied'
    BY <1>2, <1>3, <2>1, <2>2
  <2> QED
    BY <1>3, <2>1, <2>4, <2>5, <2>6 DEF BookInv, FiguresInv
<1>4. CASE VenueStep \/ ApplyRow \/ OnDisconnection \/ UNCHANGED vars
  <2>1. /\ UNCHANGED <<monitorVars, proc>> /\ connected' \in BOOLEAN
        /\ applied' \in {applied, applied + 1}
    BY <1>4, ZenonT(40) DEF VenueStep, SendPartial, SendChange, SendDeletes, Send, ApplyRow,
      OnDisconnection, vars, tableVars, BookInv, FiguresInv
  <2> QED
    BY <1>1, <1>3, <2>1 DEF BookInv
<1>5. CASE select_askamount
  <2>1. /\ books' = books /\ applied' = applied /\ connected' = connected
        /\ monitor' = "bid" /\ askAt' = applied /\ bidAt' = bidAt /\ m_bid' = m_bid
        /\ proc = "up"
        /\ \/ table["Sell"] = {} /\ proc' = "dead" /\ m_ask' = m_ask
           \/ m_ask' = Figure(table["Sell"], "Sell") /\ proc' = "up"
    BY <1>5 DEF select_askamount, Query, venueVars, tableVars
  <2>2. /\ Figure(table["Sell"], "Sell") \in SUBSET TableRows
        /\ IsVenueFigure(Figure(table["Sell"], "Sell"), books[applied + 1], "Sell")
        /\ table["Sell"] = {} => SideEmpty(books[applied + 1], "Sell")
    BY <1>2, QueryFigure DEF BookInv
  <2>3. proc' = "up" => IsVenueFigure(m_ask, books[askAt + 1], "Sell")'
    BY <2>1, <2>2
  <2>4. MonitorDiesOfEmptySide'
    BY <2>1, <2>2 DEF MonitorDiesOfEmptySide
  <2> QED
    BY <1>1, <1>2, <2>1, <2>2, <2>3, <2>4 DEF BookInv, FiguresInv
<1>6. CASE select_bidamount
  <2>1. /\ books' = books /\ applied' = applied /\ connected' = connected
        /\ monitor = "bid" /\ monitor' = "send"
        /\ bidAt' = applied /\ askAt' = askAt /\ m_ask' = m_ask
        /\ proc = "up"
        /\ \/ table["Buy"] = {} /\ proc' = "dead" /\ m_bid' = m_bid
           \/ m_bid' = Figure(table["Buy"], "Buy") /\ proc' = "up"
    BY <1>6 DEF select_bidamount, Query, venueVars, tableVars
  <2>2. /\ Figure(table["Buy"], "Buy") \in SUBSET TableRows
        /\ IsVenueFigure(Figure(table["Buy"], "Buy"), books[applied + 1], "Buy")
        /\ table["Buy"] = {} => SideEmpty(books[applied + 1], "Buy")
    BY <1>2, QueryFigure DEF BookInv
  <2>3. proc' = "up" => IsVenueFigure(m_bid, books[bidAt + 1], "Buy")'
    BY <2>1, <2>2
  <2>4. IsVenueFigure(m_ask, books[askAt + 1], "Sell")'
    BY <2>1 DEF BookInv, FiguresInv
  <2>5. MonitorDiesOfEmptySide'
    BY <2>1, <2>2 DEF MonitorDiesOfEmptySide
  <2> QED
    BY <1>1, <1>2, <2>1, <2>2, <2>3, <2>4, <2>5 DEF BookInv, FiguresInv
<1>7. CASE SendReading
  <2>1. /\ books' = books /\ applied' = applied /\ connected' = connected
        /\ monitor' = "sleep" /\ proc = "up" /\ proc' = "up"
        /\ UNCHANGED <<m_ask, m_bid, askAt, bidAt>>
    BY <1>7 DEF SendReading, venueVars, tableVars
  <2>2. MonitorDiesOfEmptySide'
    BY <2>1 DEF MonitorDiesOfEmptySide
  <2> QED
    BY <1>1, <2>1, <2>2 DEF BookInv, FiguresInv
<1> QED
  BY <1>1, <1>4, <1>5, <1>6, <1>7 DEF Next, VenueStep, BookInv

LEMMA InitBook == Init => BookInv
<1> SUFFICES ASSUME Init PROVE BookInv
  OBVIOUS
<1>1. FiguresInv
  BY DEF Init, FiguresInv, MonitorDiesOfEmptySide
<1> QED
  BY <1>1, InitTables DEF BookInv

LEMMA BookAlways == Spec => []BookInv
  BY InitBook, NextKeepsFigures, PTL DEF Spec

\* The variables of the book, its tables and the loop keep their types.
THEOREM BookTypeCorrect == Spec => []TypeOK
<1>1. BookInv => TypeOK
  BY DEF BookInv, TableInv, HistoryInv, History, TableTypes, FiguresInv, TypeOK
<1> QED
  BY <1>1, BookAlways, PTL

\* The process ends of a query only if the venue's book had an empty side at
\* the row at which the query ran: no row applied, and no order of rows and
\* queries, empties a table on its own.
THEOREM DiesOfEmptySideOnly == Spec => []MonitorDiesOfEmptySide
<1>1. BookInv => MonitorDiesOfEmptySide
  BY DEF BookInv, FiguresInv
<1> QED
  BY <1>1, BookAlways, PTL
-----------------------------------------------------------------------------
LEMMA SystemStepsBook ==
  ASSUME [FeedNext]_allVars
  PROVE  [Next]_vars
<1>1. CASE SendToTunnel
  BY <1>1 DEF SendToTunnel, Next
<1>2. CASE BookStep
  BY <1>2 DEF BookStep, Next
<1>3. CASE RelayStep \/ ClientConnects \/ ClientStep
  BY <1>3 DEF RelayStep, ClientConnects, ClientStep
<1>4. CASE UNCHANGED allVars
  BY <1>4 DEF allVars
<1> QED
  BY <1>1, <1>2, <1>3, <1>4 DEF FeedNext

\* Every step of the system is one of the book and the loop or leaves them
\* alone, and a disconnected, slow or departing client never lets the book do
\* what BitmexBook does not.
THEOREM ImplementsBook == FeedSpec => Spec
<1>1. FeedInit => Init
  BY DEF FeedInit
<1> QED
  BY <1>1, SystemStepsBook, PTL DEF FeedSpec, Spec

\* Every step is one of the relay with its monitor and client or leaves them
\* alone: the end of the process only stops the relay.
THEOREM ImplementsRelay == FeedSpec => RelayProofs!Spec
<1>1. FeedInit => RelayProofs!Init
  BY DEF FeedInit, Relay!Init, RelayProofs!Init
<1>2. [FeedNext]_allVars => [RelayProofs!Next]_(RelayProofs!vars)
  <2> SUFFICES ASSUME [FeedNext]_allVars
               PROVE  [RelayProofs!Next]_(RelayProofs!vars)
    OBVIOUS
  <2>1. CASE SendToTunnel
    BY <2>1 DEF SendToTunnel, Relay!MonitorSends, RelayProofs!MonitorSends,
      RelayProofs!Next
  <2>2. CASE BookStep \/ UNCHANGED allVars
    BY <2>2 DEF BookStep, allVars, relayVars, RelayProofs!vars
  <2>3. CASE RelayStep
    BY <2>3 DEF RelayStep, RelayProofs!Next,
      Relay!RelayStarts, Relay!RelayReceives, Relay!RelaySends,
      RelayProofs!RelayStarts, RelayProofs!RelayReceives, RelayProofs!RelaySends
  <2>4. CASE ClientConnects
    BY <2>4 DEF ClientConnects, Relay!ClientConnects, RelayProofs!ClientConnects,
      RelayProofs!Next
  <2>5. CASE ClientStep
    BY <2>5 DEF ClientStep, Relay!ClientReceives, Relay!ClientLeaves,
      RelayProofs!ClientReceives, RelayProofs!ClientLeaves, RelayProofs!Next
  <2> QED
    BY <2>1, <2>2, <2>3, <2>4, <2>5 DEF FeedNext
<1> QED
  BY <1>1, <1>2, PTL DEF FeedSpec, RelayProofs!Spec

\* The readings a client gets come in the order in which the loop sent them.
LEMMA ReceivedRises == FeedSpec => []RelayProofs!ReceivedRise
<1>1. /\ Hwm \in Nat \ {0} /\ TRUE \in BOOLEAN
      /\ MaxReadings \in Nat /\ MaxDepartures \in Nat
  BY FeedHwmAssumption, FeedBoundsAssumption
<1>2. RelayProofs!Spec => []RelayProofs!ReceivedRise
  BY <1>1, RelayProofs!ReceivedInOrder
<1> QED
  BY <1>2, ImplementsRelay, PTL
-----------------------------------------------------------------------------
\* A turn of the loop: its queries run at rows that have been applied, the one
\* for the asks first.
TurnInv ==
  /\ applied \in Nat /\ askAt \in 0 .. applied /\ bidAt \in 0 .. applied
  /\ monitor \in {"sleep", "bid", "send"}
  /\ monitor = "send" => askAt <= bidAt

\* The readings sent: each ends before the next begins, and all of them before
\* the turn that has begun.  What the figures are is not said here.
SentInv ==
  /\ (\E S : sent \in Seq(S)) /\ Len(sent) = readings
  /\ \A n \in 1 .. Len(sent) :
       /\ sent[n].askAt \in Nat /\ sent[n].bidAt \in 0 .. applied
       /\ sent[n].askAt <= sent[n].bidAt
       /\ monitor # "sleep" => sent[n].bidAt <= askAt
  /\ \A m, n \in 1 .. Len(sent) : m < n => sent[m].bidAt <= sent[n].askAt

LEMMA InitInOrder == FeedInit => TurnInv /\ SentInv
<1> SUFFICES ASSUME FeedInit PROVE TurnInv /\ SentInv
  OBVIOUS
<1>1. TurnInv
  BY DEF FeedInit, Init, TurnInv
<1>2. sent = <<>> /\ readings = 0
  BY DEF FeedInit, Relay!Init
<1>3. sent \in Seq({}) /\ Len(sent) = 0
  BY <1>2, EmptySeq
<1> QED
  BY <1>1, <1>2, <1>3 DEF SentInv

\* The loop sends the turn's reading, which begins where the last one ended or
\* later.
LEMMA SendKeepsOrder ==
  ASSUME TurnInv, SentInv, SendToTunnel
  PROVE  TurnInv' /\ SentInv'
<1>1. /\ monitor = "send" /\ monitor' = "sleep"
      /\ UNCHANGED <<applied, askAt, bidAt>>
      /\ readings' = readings + 1 /\ sent' = Append(sent, Reading)
  BY DEF SendToTunnel, SendReading, Relay!MonitorSends, tableVars
<1>2. Reading.askAt = askAt /\ Reading.bidAt = bidAt
  BY DEF Reading
<1>3. PICK S : sent \in Seq(S)
  BY DEF SentInv
<1>4. PICK R : R = Reading
  OBVIOUS
<1>5. PICK T : T = S \union {R}
  OBVIOUS
<1>6. sent \in Seq(T) /\ R \in T
  BY <1>3, <1>5, SeqMonotonic
<1>7. Append(sent, R) \in Seq(T) /\ Len(Append(sent, R)) = Len(sent) + 1
      /\ \A n \in 1 .. Len(sent) + 1 :
           Append(sent, R)[n] = IF n <= Len(sent) THEN sent[n] ELSE R
  BY <1>6, AppendProperties
<1>8. PICK k \in Nat : k = Len(sent)
  BY <1>6, LenProperties
<1>9. /\ sent' \in Seq(T) /\ Len(sent') = k + 1
      /\ \A n \in 1 .. k : sent'[n] = sent[n]
      /\ sent'[k + 1] = R
  BY <1>1, <1>4, <1>7, <1>8
<1>10. R.askAt = askAt /\ R.bidAt = bidAt
  BY <1>2, <1>4
<1>11. TurnInv'
  BY <1>1 DEF TurnInv
<1>12. /\ askAt \in Nat /\ bidAt \in 0 .. applied /\ applied \in Nat
       /\ askAt <= bidAt
  BY <1>1 DEF TurnInv
<1>13. \A n \in 1 .. k :
         /\ sent[n].askAt \in Nat /\ sent[n].bidAt \in 0 .. applied
         /\ sent[n].askAt <= sent[n].bidAt /\ sent[n].bidAt <= askAt
  BY <1>1, <1>8 DEF SentInv
<1>14. ASSUME NEW n \in 1 .. k + 1
       PROVE  /\ sent'[n].askAt \in Nat /\ sent'[n].bidAt \in 0 .. applied'
              /\ sent'[n].askAt <= sent'[n].bidAt
  <2>1. CASE n \in 1 .. k
    BY <1>1, <1>9, <1>13, <2>1
  <2>2. CASE n = k + 1
    BY <1>1, <1>9, <1>10, <1>12, <2>2
  <2> QED
    BY <2>1, <2>2
<1>15. ASSUME NEW m \in 1 .. k + 1, NEW n \in 1 .. k + 1, m < n
       PROVE  sent'[m].bidAt <= sent'[n].askAt
  <2>1. m \in 1 .. k
    BY <1>15
  <2>2. CASE n \in 1 .. k
    BY <1>8, <1>9, <1>15, <2>1, <2>2 DEF SentInv
  <2>3. CASE n = k + 1
    BY <1>9, <1>10, <1>13, <2>1, <2>3
  <2> QED
    BY <2>2, <2>3
<1>16. Len(sent') = readings'
  BY <1>1, <1>8, <1>9 DEF SentInv
<1> QED
  BY <1>1, <1>9, <1>11, <1>14, <1>15, <1>16 DEF SentInv

LEMMA BookKeepsOrder ==
  ASSUME TurnInv, SentInv, BookStep
  PROVE  TurnInv' /\ SentInv'
<1>1. sent' = sent /\ readings' = readings
  BY DEF BookStep, relayVars
<1>2. CASE SendPartial \/ SendChange \/ SendDeletes \/ OnDisconnection
  <2>1. UNCHANGED <<applied, monitor, askAt, bidAt>>
    BY <1>2, ZenonT(40) DEF SendPartial, SendChange, SendDeletes, OnDisconnection, Send,
      tableVars, monitorVars
  <2> QED
    BY <1>1, <2>1 DEF TurnInv, SentInv
<1>3. CASE ApplyRow
  <2>1. applied' = applied + 1 /\ UNCHANGED <<monitor, askAt, bidAt>>
    BY <1>3 DEF ApplyRow, monitorVars
  <2> QED
    BY <1>1, <2>1 DEF TurnInv, SentInv
<1>4. CASE select_askamount
  <2>1. monitor' = "bid" /\ askAt' = applied /\ UNCHANGED <<applied, bidAt>>
    BY <1>4 DEF select_askamount, tableVars
  <2> QED
    BY <1>1, <2>1 DEF TurnInv, SentInv
<1>5. CASE select_bidamount
  <2>1. /\ monitor = "bid" /\ monitor' = "send" /\ bidAt' = applied
        /\ UNCHANGED <<applied, askAt>>
    BY <1>5 DEF select_bidamount, tableVars
  <2> QED
    BY <1>1, <2>1 DEF TurnInv, SentInv
<1> QED
  BY <1>2, <1>3, <1>4, <1>5 DEF BookStep

LEMMA StepKeepsOrder ==
  ASSUME TurnInv, SentInv, [FeedNext]_allVars
  PROVE  TurnInv' /\ SentInv'
<1>1. CASE RelayStep \/ ClientConnects \/ ClientStep \/ UNCHANGED allVars
  <2>1. UNCHANGED <<applied, monitor, askAt, bidAt, sent, readings>>
    BY <1>1 DEF RelayStep, ClientConnects, ClientStep, allVars, vars, relayVars,
      tableVars, monitorVars, Relay!RelayStarts, Relay!RelayReceives,
      Relay!RelaySends, Relay!ClientConnects, Relay!ClientReceives,
      Relay!ClientLeaves
  <2> QED
    BY <2>1 DEF TurnInv, SentInv
<1> QED
  BY <1>1, SendKeepsOrder, BookKeepsOrder DEF FeedNext

\* However the rows of the messages, the queries, the blocking sends, the relay
\* and clients that come and go interleave, a client is told of an ask side and
\* a bid side no older than it, and every reading is of books no older than
\* those of the reading before.
LEMMA ToldInOrderAlways == FeedSpec => []ToldInOrder
<1>1. TurnInv /\ SentInv /\ RelayProofs!ReceivedRise => ToldInOrder
  <2> SUFFICES ASSUME SentInv, RelayProofs!ReceivedRise,
                      NEW i \in DOMAIN received
               PROVE  /\ Told(i).askAt <= Told(i).bidAt
                      /\ \A j \in DOMAIN received :
                           i < j => Told(i).bidAt <= Told(j).askAt
    BY DEF ToldInOrder
  <2>1. received[i] \in 1 .. Len(sent)
    BY DEF SentInv, RelayProofs!ReceivedRise
  <2>2. ASSUME NEW j \in DOMAIN received, i < j
        PROVE  Told(i).bidAt <= Told(j).askAt
    <3>1. received[j] \in 1 .. Len(sent) /\ received[i] < received[j]
      BY <2>2 DEF SentInv, RelayProofs!ReceivedRise
    <3> QED
      BY <2>1, <3>1 DEF SentInv, Told
  <2> QED
    BY <2>1, <2>2 DEF SentInv, Told
<1> QED
  BY <1>1, InitInOrder, StepKeepsOrder, ReceivedRises, PTL DEF FeedSpec
-----------------------------------------------------------------------------
\* What was proved of Spec holds in the system.
LEMMA BookInSystem == FeedSpec => []BookInv
  BY ImplementsBook, BookAlways, PTL

ReadingTypes ==
  [ask : SUBSET TableRows, bid : SUBSET TableRows, askAt : Nat, bidAt : Nat]

\* The readings sent contain the figures of their books.
SentFigures ==
  /\ sent \in Seq(ReadingTypes)
  /\ \A n \in 1 .. Len(sent) :
       /\ IsVenueFigure(sent[n].ask, books[sent[n].askAt + 1], "Sell")
       /\ IsVenueFigure(sent[n].bid, books[sent[n].bidAt + 1], "Buy")

\* The books that the readings sent tell of stay what they were.
LEMMA SentStays ==
  ASSUME BookInv, SentInv, SentFigures, [Next]_vars, UNCHANGED sent
  PROVE  SentFigures'
<1>1. HistoryInv /\ Extends(books, books')
  BY NextKeepsHistory DEF BookInv, TableInv
<1>2. SUFFICES ASSUME NEW n \in 1 .. Len(sent)
               PROVE  /\ IsVenueFigure(sent[n].ask, books'[sent[n].askAt + 1], "Sell")
                      /\ IsVenueFigure(sent[n].bid, books'[sent[n].bidAt + 1], "Buy")
  BY DEF SentFigures
<1>3. sent[n].askAt \in 0 .. applied /\ sent[n].bidAt \in 0 .. applied
  BY <1>1 DEF SentInv, HistoryInv
<1>4. /\ books'[sent[n].askAt + 1] = books[sent[n].askAt + 1]
      /\ books'[sent[n].bidAt + 1] = books[sent[n].bidAt + 1]
  BY <1>1, <1>3, BookStays
<1> QED
  BY <1>4 DEF SentFigures

LEMMA StepKeepsFigures ==
  ASSUME BookInv, TurnInv, SentInv, SentFigures, [FeedNext]_allVars
  PROVE  SentFigures'
<1>1. [Next]_vars
  BY SystemStepsBook
<1>2. CASE UNCHANGED sent
  BY <1>1, <1>2, SentStays
<1>3. CASE SendToTunnel
  <2>1. /\ monitor = "send" /\ proc = "up" /\ books' = books
        /\ sent' = Append(sent, Reading)
    BY <1>3 DEF SendToTunnel, SendReading, venueVars
  <2>2. PICK R : R = Reading
    OBVIOUS
  <2>3. /\ R.ask = m_ask /\ R.bid = m_bid /\ R.askAt = askAt /\ R.bidAt = bidAt
    BY <2>2 DEF Reading
  <2>4. PICK S : sent \in Seq(S)
    BY DEF SentInv
  <2>5. PICK T : T = S \union {R}
    OBVIOUS
  <2>6. sent \in Seq(T) /\ R \in T
    BY <2>4, <2>5, SeqMonotonic
  <2>7. PICK k \in Nat : k = Len(sent)
    BY <2>6, LenProperties
  <2>8. /\ Len(sent') = k + 1
        /\ \A n \in 1 .. k : sent'[n] = sent[n]
        /\ sent'[k + 1] = R
    BY <2>1, <2>2, <2>6, <2>7, AppendProperties
  <2>9. /\ m_ask \in SUBSET TableRows /\ m_bid \in SUBSET TableRows
        /\ IsVenueFigure(m_ask, books[askAt + 1], "Sell")
        /\ IsVenueFigure(m_bid, books[bidAt + 1], "Buy")
    BY <2>1 DEF BookInv, FiguresInv
  <2>10. ASSUME NEW n \in 1 .. k + 1
         PROVE  /\ IsVenueFigure(sent'[n].ask, books[sent'[n].askAt + 1], "Sell")
                /\ IsVenueFigure(sent'[n].bid, books[sent'[n].bidAt + 1], "Buy")
    <3>1. CASE n \in 1 .. k
      BY <2>7, <2>8, <3>1 DEF SentFigures
    <3>2. CASE n = k + 1
      BY <2>3, <2>8, <2>9, <3>2
    <3> QED
      BY <3>1, <3>2
  <2>11. sent' \in Seq(ReadingTypes)
    <3>1. askAt \in Nat /\ bidAt \in Nat
      BY DEF BookInv, FiguresInv, TurnInv
    <3>2. Reading \in ReadingTypes
      BY <2>9, <3>1 DEF Reading, ReadingTypes
    <3> QED
      BY <2>1, <3>2 DEF SentFigures
  <2> QED
    BY <2>1, <2>8, <2>10, <2>11 DEF SentFigures
<1> QED
  BY <1>2, <1>3 DEF FeedNext, BookStep, RelayStep, ClientConnects, ClientStep, allVars

LEMMA SentFiguresAlways == FeedSpec => [](BookInv /\ TurnInv /\ SentInv /\ SentFigures)
<1>1. FeedInit => SentFigures
  BY DEF FeedInit, SentFigures
<1> QED
  BY <1>1, InitInOrder, StepKeepsOrder, StepKeepsFigures, BookInSystem, PTL DEF FeedSpec

\* However the rows of the messages, the queries, the blocking sends, the relay
\* and clients that come and go interleave, each side of what a client is told
\* is the figure of the venue's best levels after some row, the ask side's no
\* later than the bid side's, and every reading is of books no older than those
\* of the reading before.
THEOREM ClientSeesVenueAlways == FeedSpec => []ClientSeesVenue
<1>1. BookInv /\ SentInv /\ SentFigures /\ RelayProofs!ReceivedRise => ToldIsVenues
  <2> SUFFICES ASSUME SentInv, SentFigures, RelayProofs!ReceivedRise,
                      NEW i \in DOMAIN received
               PROVE  /\ IsVenueFigure(Told(i).ask, books[Told(i).askAt + 1], "Sell")
                      /\ IsVenueFigure(Told(i).bid, books[Told(i).bidAt + 1], "Buy")
    BY DEF ToldIsVenues
  <2>1. received[i] \in 1 .. Len(sent)
    BY DEF SentInv, RelayProofs!ReceivedRise
  <2> QED
    BY <2>1 DEF SentFigures, Told
<1> QED
  BY <1>1, SentFiguresAlways, ReceivedRises, ToldInOrderAlways, PTL DEF ClientSeesVenue

\* The types of the book, of the relay and of the readings sent.
THEOREM FeedTypeCorrect == FeedSpec => []FeedTypeOK
<1>1. /\ Hwm \in Nat \ {0} /\ TRUE \in BOOLEAN
      /\ MaxReadings \in Nat /\ MaxDepartures \in Nat
  BY FeedHwmAssumption, FeedBoundsAssumption
<1>2. RelayProofs!Spec => []RelayProofs!TypeOK
  BY <1>1, RelayProofs!TypeCorrect
<1>3. BookInv => TypeOK
  BY DEF BookInv, TableInv, HistoryInv, History, TableTypes, FiguresInv, TypeOK
<1>4. RelayProofs!TypeOK => Relay!TypeOK
  BY DEF RelayProofs!TypeOK, Relay!TypeOK
<1>5. SentInv /\ SentFigures /\ TypeOK /\ Relay!TypeOK => FeedTypeOK
  BY DEF SentInv, SentFigures, ReadingTypes, FeedTypeOK
<1> QED
  BY <1>2, <1>3, <1>4, <1>5, SentFiguresAlways, ImplementsRelay, PTL
=============================================================================
