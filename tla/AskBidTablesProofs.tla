------------------------- MODULE AskBidTablesProofs -------------------------
(***************************************************************************)
(* Theorems about AskBidTables, for every bound.                           *)
(***************************************************************************)
EXTENDS AskBidTables, SequenceTheorems, FunctionTheorems, FiniteSetTheorems,
        WellFoundedInduction, TLAPS

-----------------------------------------------------------------------------
\* The least number principle.
LEMMA LeastNumber ==
  ASSUME NEW T, T \subseteq Nat, T # {}
  PROVE  \E x \in T : \A y \in T : x <= y
<1>1. PICK x \in T : \A y \in T : ~ (<<y, x>> \in OpToRel(<, Nat))
  BY WFMin, NatLessThanWellFounded
<1>2. \A y \in T : ~ (y < x)
  BY <1>1 DEF OpToRel
<1> QED
  BY <1>2

\* A finite set of numbers is bounded.
LEMMA FiniteIsBounded ==
  ASSUME NEW S, S \subseteq Nat, IsFiniteSet(S)
  PROVE  \E m \in Nat : \A x \in S : x <= m
<1>1. PICK n \in Nat : n = Cardinality(S)
  BY FS_CardinalityType
<1>2. ExistsBijection(1 .. n, S)
  BY <1>1, FS_CardinalityType
<1>3. PICK f \in Bijection(1 .. n, S) : TRUE
  BY <1>2, Fun_ExistsBij
<1>4. f \in [1 .. n -> S] /\ \A x \in S : \E i \in 1 .. n : f[i] = x
  BY Fun_BijectionProperties
<1>5. PICK T : T = {k \in 0 .. n : ~ \E m \in Nat : \A i \in 1 .. k : f[i] <= m}
  OBVIOUS
<1>6. ASSUME T # {} PROVE FALSE
  <2>1. T \subseteq Nat
    BY <1>5
  <2>2. PICK k \in T : \A y \in T : k <= y
    BY <1>6, <2>1, LeastNumber
  <2>3. k \in 0 .. n /\ ~ \E m \in Nat : \A i \in 1 .. k : f[i] <= m
    BY <1>5, <2>2
  <2>4. k # 0
    <3>1. \A i \in 1 .. 0 : f[i] <= 0
      OBVIOUS
    <3> QED
      BY <2>3, <3>1
  <2>5. k - 1 \in 0 .. n /\ k - 1 \notin T
    BY <2>1, <2>2, <2>3, <2>4
  <2>6. PICK m \in Nat : \A i \in 1 .. k - 1 : f[i] <= m
    BY <1>5, <2>5
  <2>7. f[k] \in Nat
    <3>1. k \in 1 .. n
      BY <1>1, <2>3, <2>4
    <3> QED
      BY <1>4, <3>1
  <2>8. PICK w \in Nat : m <= w /\ f[k] <= w
    <3>1. m <= m + f[k] /\ f[k] <= m + f[k] /\ m + f[k] \in Nat
      BY <2>6, <2>7
    <3> QED
      BY <3>1
  <2>9. \A i \in 1 .. k - 1 : f[i] \in Nat
    <3>1. \A i \in 1 .. k - 1 : i \in 1 .. n
      BY <1>1, <2>3
    <3> QED
      BY <1>4, <3>1
  <2>10. ASSUME NEW i \in 1 .. k PROVE f[i] <= w
    <3>1. CASE i = k
      BY <2>8, <3>1
    <3>2. CASE i \in 1 .. k - 1
      BY <2>6, <2>8, <2>9, <3>2
    <3> QED
      BY <2>3, <3>1, <3>2
  <2> QED
    BY <2>3, <2>8, <2>10
<1>7. n \notin T
  BY <1>6
<1>8. PICK m \in Nat : \A i \in 1 .. n : f[i] <= m
  BY <1>5, <1>7
<1> QED
  BY <1>4, <1>8

\* ... and has a greatest element.
LEMMA Greatest ==
  ASSUME NEW S, S \subseteq Nat, IsFiniteSet(S), S # {}
  PROVE  \E x \in S : \A y \in S : x >= y
<1>1. PICK T : T = {m \in Nat : \A x \in S : x <= m}
  OBVIOUS
<1>2. T \subseteq Nat /\ T # {}
  BY <1>1, FiniteIsBounded
<1>3. PICK m \in T : \A y \in T : m <= y
  BY <1>2, LeastNumber
<1>4. m \in Nat /\ \A x \in S : x <= m
  BY <1>1, <1>3
<1>5. ASSUME m \notin S PROVE FALSE
  <2>1. \A x \in S : x < m
    BY <1>4, <1>5
  <2>2. m - 1 \in Nat /\ \A x \in S : x <= m - 1
    <3>1. PICK x \in S : x \in Nat
      OBVIOUS
    <3>2. m - 1 \in Nat
      BY <1>4, <2>1, <3>1
    <3> QED
      BY <1>4, <2>1, <3>2
  <2>3. m - 1 \in T
    BY <1>1, <2>2
  <2> QED
    BY <1>3, <1>4, <2>3
<1> QED
  BY <1>4, <1>5

\* base() of rbegin() is above every level.
LEMMA EndIsAbove ==
  /\ End \in Nat \ {0}
  /\ \A p \in Prices : p < End /\ p \in Nat /\ p > 0
<1>1. \E x \in Prices : \A y \in Prices : x >= y
  BY LevelsAssumption, Greatest
<1>2. Max(Prices) \in Prices /\ \A y \in Prices : Max(Prices) >= y
  <2>1. PICK x \in Prices : x = Max(Prices) /\ \A y \in Prices : x >= y
    BY <1>1 DEF Max
  <2> QED
    BY <2>1
<1>3. PICK m : m = Max(Prices)
  OBVIOUS
<1>4. m \in Nat \ {0} /\ \A y \in Prices : y \in Nat /\ y > 0 /\ m >= y
  <2>1. m \in Prices /\ \A y \in Prices : m >= y
    BY <1>2, <1>3
  <2>2. Prices \subseteq Nat \ {0}
    BY LevelsAssumption
  <2> QED
    BY <2>1, <2>2
<1>5. End = m + 1
  BY <1>3 DEF End
<1> QED
  BY <1>4, <1>5
-----------------------------------------------------------------------------
\* The types of everything, in more detail than in TypeOK.

ItemTypes == [price : Prices, cnt : {0, 1}, amt : Int]
             \union [side : Sides, price : Prices, amount : Sizes \union {0}]
Messages == [items : Seq(ItemTypes), snapshot : BOOLEAN, after : Books]
Summands == {Junk} \union (Prices \X Amounts)

MessageTypes ==
  /\ class \in Classes
  /\ book \in Books /\ Proper(book) /\ shown \in Books
  /\ wire \in Seq(Messages) /\ message \in Messages \union {None}
  /\ message # None => message.items # <<>>
  /\ changes \in Nat /\ asked \in Nat /\ following \in BOOLEAN
  /\ seen \in SUBSET (Sides \X Prices) /\ whole \in BOOLEAN

LoopTypes ==
  /\ table \in [Sides -> SUBSET (Prices \X Amounts)]
  /\ app \in {"ready", "clear", "sleep", "check", "first", "second", "step", "done"}
  /\ calls \in Nat /\ turns \in Nat /\ pass \in Sides
  /\ base \in Prices \union {End, Dangling} /\ count \in 0 .. Depth - 1
  /\ price \in Nat /\ (app = "second" => price \in Prices)
  /\ sum \in [Sides -> Seq(Summands)]
  /\ started \in SUBSET (Prices \X Amounts) /\ disturbed \in SUBSET Prices
  /\ erased \in BOOLEAN /\ wild \in BOOLEAN

ProcTypes == proc \in {"up", "assertion", "lost"}

Types == MessageTypes /\ LoopTypes /\ ProcTypes

LEMMA TypesInDetail == Types => TypeOK
<1> SUFFICES ASSUME Types PROVE TypeOK
  OBVIOUS
<1>1. \A m \in Range(wire) \union {message} : m.items # <<>> /\ m # None => m.after \in Books
  <2>1. \A m \in Messages : m.after \in Books
    BY DEF Messages
  <2>2. Range(wire) \subseteq Messages
    BY DEF Types, MessageTypes, Range
  <2> QED
    BY <2>1, <2>2 DEF Types, MessageTypes
<1>2. \A s \in Sides : \A x \in Range(sum[s]) : x = Junk \/ x \in Prices \X Amounts
  <2> SUFFICES ASSUME NEW s \in Sides, NEW x \in Range(sum[s])
               PROVE  x = Junk \/ x \in Prices \X Amounts
    OBVIOUS
  <2>1. sum[s] \in Seq(Summands)
    BY DEF Types, LoopTypes
  <2>2. x \in Summands
    BY <2>1 DEF Range
  <2> QED
    BY <2>2 DEF Summands
<1> QED
  BY <1>1, <1>2 DEF Types, MessageTypes, LoopTypes, ProcTypes, TypeOK

\* Min({q, 1}) and Max({q, 1}).
LEMMA MinMaxOne ==
  ASSUME NEW q \in Nat
  PROVE  /\ Min({q, 1}) = IF q = 0 THEN 0 ELSE 1
         /\ Max({q, 1}) = IF q = 0 THEN 1 ELSE q
<1>1. PICK M : M = {q, 1}
  OBVIOUS
<1>2. \E x \in M : \A y \in M : x <= y
  BY <1>1
<1>3. PICK x \in M : x = Min(M) /\ \A y \in M : x <= y
  BY <1>2 DEF Min
<1>4. \E z \in M : \A y \in M : z >= y
  BY <1>1
<1>5. PICK z \in M : z = Max(M) /\ \A y \in M : z >= y
  BY <1>4 DEF Max
<1>6. x = IF q = 0 THEN 0 ELSE 1
  BY <1>1, <1>3
<1>7. z = IF q = 0 THEN 1 ELSE q
  BY <1>1, <1>5
<1> QED
  BY <1>1, <1>3, <1>5, <1>6, <1>7

\* What an item says is what it was made to say.
LEMMA ItemSays ==
  ASSUME NEW s \in Sides, NEW p \in Prices, NEW q \in Sizes \union {0}
  PROVE  /\ Item(s, p, q) \in ItemTypes
         /\ Item(s, p, q).price = p
         /\ ItemSide(Item(s, p, q)) = s
         /\ ItemAmount(Item(s, p, q)) = IF q = 0 THEN 0 ELSE Stored(s, q)
<1>1. q \in Nat
  BY LevelsAssumption
<1>2. PICK i : i = Item(s, p, q)
  OBVIOUS
<1>3. CASE class = "bitfinex"
  <2>1. i = [price |-> p, cnt |-> IF q = 0 THEN 0 ELSE 1,
             amt |-> Sign(s) * (IF q = 0 THEN 1 ELSE q)]
    BY <1>1, <1>2, <1>3, MinMaxOne DEF Item
  <2>2. /\ i.price = p /\ i.cnt = (IF q = 0 THEN 0 ELSE 1)
        /\ i.amt = IF s = "ask" THEN -(IF q = 0 THEN 1 ELSE q) ELSE (IF q = 0 THEN 1 ELSE q)
    BY <1>1, <2>1 DEF Sign
  <2>3. i \in ItemTypes
    <3>1. i \in [price : Prices, cnt : {0, 1}, amt : Int]
      BY <1>1, <2>1 DEF Sign
    <3> QED
      BY <3>1 DEF ItemTypes
  <2>4. ItemSide(i) = s
    BY <1>1, <1>3, <2>2 DEF ItemSide, Sides
  <2>5. ItemAmount(i) = IF q = 0 THEN 0 ELSE Stored(s, q)
    BY <1>1, <1>3, <2>2 DEF ItemAmount, Stored, Sign
  <2> QED
    BY <1>2, <2>2, <2>3, <2>4, <2>5
<1>4. CASE class # "bitfinex"
  <2>1. i = [side |-> s, price |-> p, amount |-> q]
    BY <1>2, <1>4 DEF Item
  <2>2. i \in ItemTypes
    BY <2>1 DEF ItemTypes
  <2>3. ItemSide(i) = s /\ ItemAmount(i) = q
    BY <1>4, <2>1 DEF ItemSide, ItemAmount
  <2>4. q = IF q = 0 THEN 0 ELSE Stored(s, q)
    BY <1>4 DEF Stored
  <2> QED
    BY <1>2, <2>1, <2>2, <2>3, <2>4
<1> QED
  BY <1>3, <1>4

\* SetToSeq lists a finite set.
LEMMA SetToSeqLists ==
  ASSUME NEW S, IsFiniteSet(S)
  PROVE  /\ SetToSeq(S) \in Seq(S)
         /\ \A x \in S : \E i \in DOMAIN SetToSeq(S) : SetToSeq(S)[i] = x
<1>1. PICK n \in Nat : n = Cardinality(S)
  BY FS_CardinalityType
<1>2. PICK f \in Bijection(1 .. n, S) : TRUE
  BY <1>1, FS_CardinalityType, Fun_ExistsBij
<1>3. f \in [1 .. n -> S] /\ IsInjective(f)
  <2>1. f \in [1 .. n -> S] /\ \A a, b \in 1 .. n : f[a] = f[b] => a = b
    BY Fun_BijectionProperties
  <2> QED
    BY <2>1 DEF IsInjective
<1>4. PICK g : g = SetToSeq(S)
  OBVIOUS
<1>5. g \in [1 .. n -> S] /\ IsInjective(g)
  BY <1>1, <1>3, <1>4 DEF SetToSeq
<1>6. g \in Injection(1 .. n, S)
  BY <1>5 DEF Injection
<1>7. IsFiniteSet(1 .. n) /\ Cardinality(1 .. n) = n
  BY <1>1, FS_Interval
<1>8. g \in Surjection(1 .. n, S)
  BY <1>1, <1>6, <1>7, FS_Injection
<1>9. \A x \in S : \E i \in 1 .. n : g[i] = x
  BY <1>8 DEF Surjection
<1>10. g \in Seq(S) /\ DOMAIN g = 1 .. n
  BY <1>1, <1>5
<1> QED
  BY <1>4, <1>9, <1>10
\* What the iterator designates is the highest level below its base.
LEMMA DesignatedIsHighest ==
  ASSUME LoopTypes, Below # {}
  PROVE  Designated \in Below /\ \A y \in Below : y[1] <= Designated[1]
<1>1. \A x \in Below : x \in Prices \X Amounts /\ x[1] \in Prices
  BY DEF Below, LoopTypes
<1>2. PICK S : S = {x[1] : x \in Below}
  OBVIOUS
<1>3. S \subseteq Prices /\ S # {}
  BY <1>1, <1>2
<1>4. S \subseteq Nat /\ IsFiniteSet(S)
  BY <1>3, LevelsAssumption, FS_Subset
<1>5. PICK n \in S : \A y \in S : n >= y
  BY <1>3, <1>4, Greatest
<1>6. PICK x \in Below : x[1] = n
  BY <1>2, <1>5
<1>7. \A y \in Below : y[1] <= x[1]
  <2> TAKE y \in Below
  <2>1. y[1] \in S
    BY <1>2
  <2> QED
    BY <2>1, <1>4, <1>5, <1>6
<1> QED
  BY <1>7 DEF Designated

LEMMA InitTypes == Init => Types
<1> SUFFICES ASSUME Init PROVE Types
  OBVIOUS
<1>1. MessageTypes
  <2>1. book \in Books /\ Proper(book) /\ shown \in Books /\ class \in Classes
    BY DEF Init
  <2>2. wire \in Seq(Messages) /\ message = None /\ seen \in SUBSET (Sides \X Prices)
    BY DEF Init
  <2>3. changes \in Nat /\ asked \in Nat /\ following \in BOOLEAN /\ whole \in BOOLEAN
    BY DEF Init
  <2> QED
    BY <2>1, <2>2, <2>3 DEF MessageTypes
<1>2. LoopTypes
  <2>1. sum \in [Sides -> Seq(Summands)]
    <3>1. <<Junk>> \in Seq(Summands)
      BY DEF Summands
    <3> QED
      BY <3>1 DEF Init
  <2>2. table \in [Sides -> SUBSET (Prices \X Amounts)]
    BY DEF Init, EmptyTable
  <2>3. count \in 0 .. Depth - 1
    BY DepthAssumption DEF Init
  <2>4. base \in Prices \union {End, Dangling} /\ price \in Nat /\ app = "ready"
    BY EndIsAbove DEF Init
  <2>5. started \in SUBSET (Prices \X Amounts) /\ disturbed \in SUBSET Prices
    BY DEF Init
  <2>6. calls \in Nat /\ turns \in Nat /\ pass \in Sides
    BY DEF Init, Sides
  <2>7. erased \in BOOLEAN /\ wild \in BOOLEAN
    BY DEF Init
  <2> QED
    BY <2>1, <2>2, <2>3, <2>4, <2>5, <2>6, <2>7 DEF LoopTypes
<1>3. ProcTypes
  BY DEF Init, ProcTypes
<1> QED
  BY <1>1, <1>2, <1>3 DEF Types

\* The size a level of the book has.
LEMMA SizeOfLevel ==
  ASSUME NEW b \in Books, NEW p \in Prices
  PROVE  /\ b[p] \in Levels
         /\ b[p].side \in Sides => b[p].size \in Sizes
         /\ b[p].side \in Sides \union {"none"}
<1>1. b[p] \in Levels
  BY DEF Books
<1> QED
  BY <1>1 DEF Levels, NoLevel, Sides

\* The levels of a side, in a snapshot: each is told once with its size.
LEMMA SideItemsTell ==
  ASSUME NEW b \in Books, NEW s \in Sides
  PROVE  /\ SideItems(b, s) \in Seq(ItemTypes)
         /\ \A i \in DOMAIN SideItems(b, s) : \E p \in Prices :
              b[p].side = s /\ SideItems(b, s)[i] = Item(s, p, b[p].size)
         /\ \A p \in Prices : b[p].side = s =>
              \E i \in DOMAIN SideItems(b, s) :
                SideItems(b, s)[i] = Item(s, p, b[p].size)
<1>1. PICK S : S = {p \in Prices : b[p].side = s}
  OBVIOUS
<1>2. PICK ps : ps = SetToSeq(S)
  OBVIOUS
<1>3. IsFiniteSet(S)
  BY <1>1, LevelsAssumption, FS_Subset
<1>4. ps \in Seq(S) /\ \A x \in S : \E i \in DOMAIN ps : ps[i] = x
  BY <1>2, <1>3, SetToSeqLists
<1>5. PICK t : t = SideItems(b, s)
  OBVIOUS
<1>6. t = [i \in DOMAIN ps |-> Item(s, ps[i], b[ps[i]].size)]
  BY <1>1, <1>2, <1>5 DEF SideItems
<1>7. \A i \in DOMAIN ps : ps[i] \in Prices /\ b[ps[i]].side = s
  BY <1>1, <1>4
<1>8. \A i \in DOMAIN ps : Item(s, ps[i], b[ps[i]].size) \in ItemTypes
  <2> TAKE i \in DOMAIN ps
  <2>1. ps[i] \in Prices /\ b[ps[i]].size \in Sizes
    BY <1>7, SizeOfLevel
  <2> QED
    BY <2>1, ItemSays
<1>9. t \in Seq(ItemTypes)
  <2>1. DOMAIN ps = 1 .. Len(ps) /\ Len(ps) \in Nat
    BY <1>4
  <2>2. t \in [1 .. Len(ps) -> ItemTypes]
    BY <1>6, <1>8, <2>1
  <2> QED
    BY <2>1, <2>2
<1>10. DOMAIN t = DOMAIN ps /\ \A i \in DOMAIN t : t[i] = Item(s, ps[i], b[ps[i]].size)
  BY <1>6
<1>11. \A i \in DOMAIN t : \E p \in Prices : b[p].side = s /\ t[i] = Item(s, p, b[p].size)
  BY <1>7, <1>10
<1>12. \A p \in Prices : b[p].side = s => \E i \in DOMAIN t : t[i] = Item(s, p, b[p].size)
  <2> SUFFICES ASSUME NEW p \in Prices, b[p].side = s
               PROVE  \E i \in DOMAIN t : t[i] = Item(s, p, b[p].size)
    OBVIOUS
  <2>1. PICK i \in DOMAIN ps : ps[i] = p
    BY <1>1, <1>4
  <2> QED
    BY <1>10, <2>1
<1> QED
  BY <1>5, <1>9, <1>11, <1>12

\* A whole book tells of each of its levels with its size, and of no other.
LEMMA SnapshotTells ==
  ASSUME book \in Books
  PROVE  /\ Snapshot \in Messages
         /\ \A i \in DOMAIN Snapshot.items : \E s \in Sides, p \in Prices :
              book[p].side = s /\ Snapshot.items[i] = Item(s, p, book[p].size)
         /\ \A s \in Sides, p \in Prices : book[p].side = s =>
              \E i \in DOMAIN Snapshot.items : Snapshot.items[i] = Item(s, p, book[p].size)
<1> "ask" \in Sides /\ "bid" \in Sides /\ \A s \in Sides : s = "ask" \/ s = "bid"
  BY DEF Sides
<1>1. PICK a : a = SideItems(book, "ask")
  OBVIOUS
<1>2. PICK b : b = SideItems(book, "bid")
  OBVIOUS
<1>3. PICK t : t = a \o b
  OBVIOUS
<1>4. Snapshot = [items |-> t, snapshot |-> TRUE, after |-> book]
  BY <1>1, <1>2, <1>3 DEF Snapshot
<1>5. a \in Seq(ItemTypes) /\ b \in Seq(ItemTypes)
  BY <1>1, <1>2, SideItemsTell
<1>6. t \in Seq(ItemTypes)
  BY <1>3, <1>5
<1>7. \A i \in DOMAIN t : \/ i \in DOMAIN a /\ t[i] = a[i]
                          \/ i - Len(a) \in DOMAIN b /\ t[i] = b[i - Len(a)]
  BY <1>3, <1>5
<1>8. /\ \A i \in DOMAIN a : i \in DOMAIN t /\ t[i] = a[i]
      /\ \A i \in DOMAIN b : i + Len(a) \in DOMAIN t /\ t[i + Len(a)] = b[i]
  BY <1>3, <1>5
<1>9. \A i \in DOMAIN t : \E s \in Sides, p \in Prices :
        book[p].side = s /\ t[i] = Item(s, p, book[p].size)
  <2> TAKE i \in DOMAIN t
  <2>1. CASE i \in DOMAIN a /\ t[i] = a[i]
    BY <1>1, <2>1, SideItemsTell
  <2>2. CASE i - Len(a) \in DOMAIN b /\ t[i] = b[i - Len(a)]
    BY <1>2, <2>2, SideItemsTell
  <2> QED
    BY <1>7, <2>1, <2>2
<1>10. ASSUME NEW s \in Sides, NEW p \in Prices, book[p].side = s
       PROVE  \E i \in DOMAIN t : t[i] = Item(s, p, book[p].size)
  <2>1. CASE s = "ask"
    <3>1. PICK i \in DOMAIN a : a[i] = Item(s, p, book[p].size)
      BY <1>1, <1>10, <2>1, SideItemsTell
    <3> QED
      BY <1>8, <3>1
  <2>2. CASE s = "bid"
    <3>1. PICK i \in DOMAIN b : b[i] = Item(s, p, book[p].size)
      BY <1>2, <1>10, <2>2, SideItemsTell
    <3> QED
      BY <1>8, <3>1
  <2> QED
    BY <2>1, <2>2
<1>11. Snapshot \in Messages
  BY <1>4, <1>6 DEF Messages
<1> QED
  BY <1>4, <1>9, <1>10, <1>11
-----------------------------------------------------------------------------
\* What the messages say of the venue's book.

\* The amount a book b has on side s at price p, as the maps store it, or 0.
Want(b, s, p) == IF b[p].side = s THEN Stored(s, b[p].size) ELSE 0

\* Message m tells of level p on side s.
Tells(m, s, p) ==
  \E k \in DOMAIN m.items : m.items[k].price = p /\ ItemSide(m.items[k]) = s

\* An item tells the truth about book b, and so does every item of m.
ItemTrue(i, b) ==
  /\ i.price \in Prices /\ ItemSide(i) \in Sides
  /\ ItemAmount(i) = Want(b, ItemSide(i), i.price)
ItemsTrue(m) == \A k \in DOMAIN m.items : ItemTrue(m.items[k], m.after)

\* A snapshot tells of every level there is.
TellsAll(m) ==
  \A s \in Sides, p \in Prices : Want(m.after, s, p) # 0 => Tells(m, s, p)

\* m is a true message to one who knows book b.
Follows(m, b) ==
  /\ ItemsTrue(m)
  /\ \A s \in Sides, p \in Prices :
       ~Tells(m, s, p) => Want(m.after, s, p) = Want(b, s, p)
  /\ m.snapshot => m.after = b /\ TellsAll(m)

LEMMA StoredAmounts ==
  /\ 0 \notin Amounts /\ Amounts \subseteq Int
  /\ \A s \in Sides, q \in Sizes : Stored(s, q) \in Amounts
<1>1. \A q \in Sizes : q \in Nat /\ q > 0
  BY LevelsAssumption
<1>2. 0 \notin Amounts /\ Amounts \subseteq Int
  BY <1>1 DEF Amounts
<1>3. ASSUME NEW s \in Sides, NEW q \in Sizes PROVE Stored(s, q) \in Amounts
  <2>1. -1 * q = -q /\ 1 * q = q
    BY <1>1
  <2>2. Stored(s, q) = q \/ Stored(s, q) = -q
    BY <1>1, <2>1 DEF Stored, Sign
  <2> QED
    BY <2>2 DEF Amounts
<1> QED
  BY <1>2, <1>3

LEMMA WantAmounts ==
  ASSUME NEW b \in Books, NEW s \in Sides, NEW p \in Prices
  PROVE  /\ Want(b, s, p) \in Amounts \union {0}
         /\ Want(b, s, p) # 0 <=> b[p].side = s
<1>1. CASE b[p].side = s
  <2>1. b[p].size \in Sizes
    BY <1>1, SizeOfLevel
  <2>2. Stored(s, b[p].size) \in Amounts
    BY <2>1, StoredAmounts
  <2> QED
    BY <1>1, <2>2, StoredAmounts DEF Want
<1>2. CASE b[p].side # s
  BY <1>2 DEF Want
<1> QED
  BY <1>1, <1>2

\* An item made from a book is true to it.
LEMMA ItemIsTrue ==
  ASSUME NEW b \in Books, NEW s \in Sides, NEW p \in Prices, NEW q,
         q = IF b[p].side = s THEN b[p].size ELSE 0
  PROVE  /\ Item(s, p, q) \in ItemTypes
         /\ ItemTrue(Item(s, p, q), b)
         /\ Item(s, p, q).price = p /\ ItemSide(Item(s, p, q)) = s
<1>1. q \in Sizes \union {0}
  BY SizeOfLevel
<1>2. b[p].side = s => q # 0
  BY LevelsAssumption, SizeOfLevel
<1>3. PICK i : i = Item(s, p, q)
  OBVIOUS
<1>4. /\ i \in ItemTypes /\ i.price = p /\ ItemSide(i) = s
      /\ ItemAmount(i) = IF q = 0 THEN 0 ELSE Stored(s, q)
  BY <1>1, <1>3, ItemSays
<1>5. ItemAmount(i) = Want(b, s, p)
  BY <1>2, <1>4 DEF Want
<1> QED
  BY <1>3, <1>4, <1>5 DEF ItemTrue

LEMMA SnapshotFollows ==
  ASSUME book \in Books
  PROVE  Snapshot \in Messages /\ Follows(Snapshot, book)
<1>1. PICK m : m = Snapshot
  OBVIOUS
<1>2. m \in Messages /\ m.after = book
  BY <1>1, SnapshotTells DEF Snapshot
<1>3. ItemsTrue(m)
  <2> SUFFICES ASSUME NEW k \in DOMAIN m.items PROVE ItemTrue(m.items[k], book)
    BY <1>2 DEF ItemsTrue
  <2>1. PICK s \in Sides, p \in Prices :
          book[p].side = s /\ m.items[k] = Item(s, p, book[p].size)
    BY <1>1, SnapshotTells
  <2> QED
    BY <2>1, ItemIsTrue
<1>4. ASSUME NEW s \in Sides, NEW p \in Prices, Want(book, s, p) # 0
      PROVE  Tells(m, s, p)
  <2>1. book[p].side = s
    BY <1>4, WantAmounts
  <2>2. PICK k \in DOMAIN m.items : m.items[k] = Item(s, p, book[p].size)
    BY <1>1, <2>1, SnapshotTells
  <2>3. m.items[k].price = p /\ ItemSide(m.items[k]) = s
    BY <2>1, <2>2, ItemIsTrue
  <2> QED
    BY <2>3 DEF Tells
<1>5. TellsAll(m)
  BY <1>2, <1>4 DEF TellsAll
<1> QED
  BY <1>1, <1>2, <1>3, <1>5 DEF Follows

\* A change of one level is told in one or two items.
LEMMA ChangeFollows ==
  ASSUME book \in Books, VenueChanges
  PROVE  \E m \in Messages : /\ wire' = Append(wire, m) /\ book' = m.after
                             /\ Proper(book') /\ Follows(m, book)
<1>1. PICK p \in Prices, l \in Levels :
        LET now == [book EXCEPT ![p] = l]
            sides == {l.side, book[p].side} \intersect Sides
            told == IF sides = Sides THEN <<"ask", "bid">> ELSE SetToSeq(sides)
            size(s) == IF l.side = s THEN l.size ELSE 0
        IN  /\ Proper(now) /\ book' = now
            /\ wire' = Append(wire,
                 [items |-> [i \in DOMAIN told |-> Item(told[i], p, size(told[i]))],
                  snapshot |-> FALSE, after |-> now])
  BY DEF VenueChanges
<1>2. PICK b : b = [book EXCEPT ![p] = l]
  OBVIOUS
<1>3. b \in Books /\ b[p] = l /\ \A r \in Prices : r # p => b[r] = book[r]
  BY <1>2 DEF Books
<1>4. PICK sides : sides = {l.side, book[p].side} \intersect Sides
  OBVIOUS
<1>5. PICK told : told = IF sides = Sides THEN <<"ask", "bid">> ELSE SetToSeq(sides)
  OBVIOUS
<1>6. told \in Seq(sides) /\ \A s \in sides : \E i \in DOMAIN told : told[i] = s
  <2>1. IsFiniteSet(sides)
    <3>1. Sides = {"ask"} \union {"bid"}
      BY DEF Sides
    <3>2. IsFiniteSet(Sides)
      BY <3>1, FS_Singleton, FS_Union
    <3> QED
      BY <1>4, <3>2, FS_Subset
  <2>2. CASE sides = Sides
    <3>1. told = <<"ask", "bid">>
      BY <1>5, <2>2
    <3>2. told \in Seq(Sides) /\ DOMAIN told = 1 .. 2 /\ told[1] = "ask" /\ told[2] = "bid"
      BY <3>1 DEF Sides
    <3> QED
      BY <2>2, <3>2 DEF Sides
  <2>3. CASE sides # Sides
    BY <1>5, <2>1, <2>3, SetToSeqLists
  <2> QED
    BY <2>2, <2>3
<1>7. PICK t : t = [i \in DOMAIN told |->
                      Item(told[i], p, IF l.side = told[i] THEN l.size ELSE 0)]
  OBVIOUS
<1>8. PICK m : m = [items |-> t, snapshot |-> FALSE, after |-> b]
  OBVIOUS
<1>9. wire' = Append(wire, m) /\ book' = b /\ Proper(b)
  BY <1>1, <1>2, <1>4, <1>5, <1>7, <1>8
<1>10. \A i \in DOMAIN t : /\ i \in DOMAIN told /\ told[i] \in Sides
                           /\ t[i] = Item(told[i], p, IF b[p].side = told[i]
                                                      THEN b[p].size ELSE 0)
  BY <1>3, <1>4, <1>6, <1>7
<1>11. \A i \in DOMAIN t : /\ t[i] \in ItemTypes /\ ItemTrue(t[i], b)
                           /\ t[i].price = p /\ ItemSide(t[i]) = told[i]
  <2> TAKE i \in DOMAIN t
  <2> QED
    BY <1>3, <1>10, ItemIsTrue
<1>12. t \in Seq(ItemTypes) /\ DOMAIN t = DOMAIN told
  <2>1. DOMAIN told = 1 .. Len(told) /\ Len(told) \in Nat
    BY <1>6
  <2>2. DOMAIN t = DOMAIN told /\ t = [i \in DOMAIN told |-> t[i]]
    BY <1>7
  <2>3. t \in [1 .. Len(told) -> ItemTypes]
    BY <1>11, <2>1, <2>2
  <2> QED
    BY <2>1, <2>2, <2>3
<1>13. m \in Messages /\ ItemsTrue(m)
  BY <1>3, <1>8, <1>11, <1>12 DEF Messages, ItemsTrue
<1>14. ASSUME NEW s \in Sides, NEW r \in Prices, ~Tells(m, s, r)
       PROVE  Want(b, s, r) = Want(book, s, r)
  <2>1. CASE r # p
    BY <1>3, <2>1 DEF Want
  <2>2. CASE r = p
    <3>1. s \notin sides
      <4> SUFFICES ASSUME s \in sides PROVE FALSE
        OBVIOUS
      <4>1. PICK i \in DOMAIN told : told[i] = s
        BY <1>6
      <4>2. Tells(m, s, r)
        BY <1>8, <1>11, <1>12, <2>2, <4>1 DEF Tells
      <4> QED
        BY <1>14, <4>2
    <3>2. l.side # s /\ book[p].side # s
      BY <1>4, <3>1
    <3> QED
      BY <1>3, <2>2, <3>2 DEF Want
  <2> QED
    BY <2>1, <2>2
<1>15. Follows(m, book)
  BY <1>8, <1>13, <1>14 DEF Follows
<1> QED
  BY <1>8, <1>9, <1>13, <1>15
-----------------------------------------------------------------------------
\* The messages under way tell, one after the other, what has become of the book
\* the receiver knows: the one after the message in hand, or the last shown.
Known0 == IF message = None THEN shown ELSE message.after
AfterOf(w, b, k) == IF k = 0 THEN b ELSE w[k].after
ChainOf(w, b, last) ==
  /\ \A k \in 1 .. Len(w) : Follows(w[k], AfterOf(w, b, k - 1))
  /\ AfterOf(w, b, Len(w)) = last
ChainInv == ChainOf(wire, Known0, book)

LEMMA SameClass ==
  ASSUME class' = class, NEW m, NEW b, NEW w, NEW l
  PROVE  /\ Follows(m, b)' <=> Follows(m, b)
         /\ ChainOf(w, b, l)' <=> ChainOf(w, b, l)
BY DEF Follows, ItemsTrue, ItemTrue, Tells, TellsAll, ItemSide, ItemAmount, Want, Stored, ChainOf, AfterOf

LEMMA ChainGrows ==
  ASSUME NEW w \in Seq(Messages), NEW b, NEW l, ChainOf(w, b, l),
         NEW m \in Messages, Follows(m, l)
  PROVE  ChainOf(Append(w, m), b, m.after)
<1>1. PICK v : v = Append(w, m)
  OBVIOUS
<1>2. /\ Len(v) = Len(w) + 1 /\ Len(w) \in Nat /\ v[Len(w) + 1] = m
      /\ \A k \in 1 .. Len(w) : v[k] = w[k]
  BY <1>1
<1>3. \A k \in 0 .. Len(w) : AfterOf(v, b, k) = AfterOf(w, b, k)
  BY <1>2 DEF AfterOf
<1>4. ASSUME NEW k \in 1 .. Len(v) PROVE Follows(v[k], AfterOf(v, b, k - 1))
  <2>1. CASE k = Len(w) + 1
    <3>1. AfterOf(v, b, k - 1) = l
      BY <1>2, <1>3, <2>1 DEF ChainOf
    <3> QED
      BY <1>2, <2>1, <3>1
  <2>2. CASE k \in 1 .. Len(w)
    <3>1. k - 1 \in 0 .. Len(w) /\ v[k] = w[k]
      BY <1>2, <2>2
    <3>2. AfterOf(v, b, k - 1) = AfterOf(w, b, k - 1)
      BY <1>3, <3>1
    <3> QED
      BY <2>2, <3>1, <3>2 DEF ChainOf
  <2> QED
    BY <1>2, <2>1, <2>2
<1>5. AfterOf(v, b, Len(v)) = m.after
  BY <1>2 DEF AfterOf
<1> QED
  BY <1>1, <1>4, <1>5 DEF ChainOf

LEMMA VenueAnswersChain ==
  ASSUME Types, ChainInv, VenueAnswers
  PROVE  ChainInv'
<1>1. PICK w : w = Append(wire, Snapshot)
  OBVIOUS
<1>2. PICK b : b = Known0
  OBVIOUS
<1>3. ChainOf(w, b, book)
  <2>1. Snapshot.after = book
    BY DEF Snapshot
  <2>2. Snapshot \in Messages /\ Follows(Snapshot, book)
    BY SnapshotFollows DEF Types, MessageTypes
  <2>3. wire \in Seq(Messages) /\ ChainOf(wire, b, book)
    BY <1>2 DEF Types, MessageTypes, ChainInv
  <2>4. PICK m \in Messages : m = Snapshot
    BY <2>2
  <2> QED
    BY <1>1, <2>1, <2>2, <2>3, <2>4, ChainGrows
<1>4. wire' = w /\ Known0' = b /\ book' = book /\ class' = class
  BY <1>1, <1>2 DEF VenueAnswers, Known0
<1>5. PICK l : l = book
  OBVIOUS
<1>6. ChainOf(w, b, l)'
  BY <1>3, <1>4, <1>5, SameClass
<1> QED
  BY <1>4, <1>5, <1>6 DEF ChainInv

LEMMA ChainAdvances ==
  ASSUME NEW w \in Seq(Messages), w # <<>>, NEW b, NEW l, ChainOf(w, b, l)
  PROVE  /\ Head(w) \in Messages /\ Follows(Head(w), b)
         /\ ChainOf(Tail(w), Head(w).after, l)
<1>1. PICK v : v = Tail(w)
  OBVIOUS
<1>2. /\ Len(w) \in Nat \ {0} /\ Len(v) = Len(w) - 1 /\ Head(w) = w[1] /\ w[1] \in Messages
      /\ \A k \in 1 .. Len(v) : v[k] = w[k + 1]
  BY <1>1
<1>3. Follows(Head(w), b)
  <2>1. 1 \in 1 .. Len(w) /\ 1 - 1 = 0
    BY <1>2
  <2>2. Follows(w[1], AfterOf(w, b, 1 - 1))
    BY <2>1 DEF ChainOf
  <2>3. AfterOf(w, b, 1 - 1) = b
    BY DEF AfterOf
  <2> QED
    BY <1>2, <2>2, <2>3
<1>4. \A k \in 0 .. Len(v) : AfterOf(v, w[1].after, k) = AfterOf(w, b, k + 1)
  BY <1>2 DEF AfterOf
<1>5. ASSUME NEW k \in 1 .. Len(v) PROVE Follows(v[k], AfterOf(v, w[1].after, k - 1))
  <2>1. k + 1 \in 1 .. Len(w) /\ k - 1 \in 0 .. Len(v) /\ (k - 1) + 1 = (k + 1) - 1
    BY <1>2
  <2>2. Follows(w[k + 1], AfterOf(w, b, (k + 1) - 1))
    BY <2>1 DEF ChainOf
  <2>3. AfterOf(v, w[1].after, k - 1) = AfterOf(w, b, (k - 1) + 1)
    BY <1>4, <2>1
  <2>4. AfterOf(w, b, (k - 1) + 1) = AfterOf(w, b, (k + 1) - 1)
    BY <2>1
  <2> QED
    BY <1>2, <2>2, <2>3, <2>4
<1>6. AfterOf(v, w[1].after, Len(v)) = l
  <2>1. AfterOf(w, b, Len(w)) = l
    BY DEF ChainOf
  <2>2. Len(v) \in 0 .. Len(v) /\ Len(v) + 1 = Len(w)
    BY <1>2
  <2> QED
    BY <1>4, <2>1, <2>2
<1> QED
  BY <1>1, <1>2, <1>3, <1>5, <1>6 DEF ChainOf

-----------------------------------------------------------------------------
\* What the maps hold: a level the message in hand still tells of is about to be
\* overwritten; every other one is there exactly if it is known and in the book.
TableAt(t, b, s, p, known) ==
  \A q \in Amounts : <<p, q>> \in t[s] <=> known /\ q = Want(b, s, p)
TableTells(t, m, b, told, all) ==
  \A s \in Sides, p \in Prices :
    ~Tells(m, s, p) => TableAt(t, b, s, p, all \/ <<s, p>> \in told)

\* A snapshot that has not been cut short has told of every level of the book,
\* or is going to.
SnapshotTold(m, told) ==
  (m # None /\ m.snapshot) =>
    \A s \in Sides, p \in Prices :
      Want(m.after, s, p) # 0 => Tells(m, s, p) \/ <<s, p>> \in told

TableInv ==
  /\ message # None => ItemsTrue(message)
  /\ TableTells(table, message, Known0, seen, whole)
  /\ SnapshotTold(message, seen)

ContentInv == proc = "up" => ChainInv /\ TableInv

LEMMA SameClassTables ==
  ASSUME class' = class, NEW t, NEW m, NEW b, NEW told, NEW all
  PROVE  /\ TableTells(t, m, b, told, all)' <=> TableTells(t, m, b, told, all)
         /\ SnapshotTold(m, told)' <=> SnapshotTold(m, told)
         /\ ItemsTrue(m)' <=> ItemsTrue(m)
BY DEF TableTells, TableAt, SnapshotTold, ItemsTrue, ItemTrue, Tells, ItemSide,
       ItemAmount, Want, Stored

\* To show the invariant of the next state it is enough to show it of the values
\* the variables have then.
LEMMA NextTables ==
  ASSUME class' = class,
         message' # None => ItemsTrue(message'),
         TableTells(table', message', Known0', seen', whole'),
         SnapshotTold(message', seen')
  PROVE  TableInv'
<1>1. PICK m : m = message'
  OBVIOUS
<1>2. PICK t : t = table'
  OBVIOUS
<1>3. PICK b : b = Known0'
  OBVIOUS
<1>4. PICK told : told = seen'
  OBVIOUS
<1>5. PICK all : all = whole'
  OBVIOUS
<1>6. /\ m # None => ItemsTrue(m)
      /\ TableTells(t, m, b, told, all) /\ SnapshotTold(m, told)
  BY <1>1, <1>2, <1>3, <1>4, <1>5
<1>7. /\ m # None => ItemsTrue(m)'
      /\ TableTells(t, m, b, told, all)' /\ SnapshotTold(m, told)'
  BY <1>6, SameClassTables
<1> QED
  BY <1>1, <1>2, <1>3, <1>4, <1>5, <1>7 DEF TableInv

LEMMA NextChain ==
  ASSUME class' = class, ChainOf(wire', Known0', book')
  PROVE  ChainInv'
<1>1. PICK w : w = wire'
  OBVIOUS
<1>2. PICK b : b = Known0'
  OBVIOUS
<1>3. PICK l : l = book'
  OBVIOUS
<1>4. ChainOf(w, b, l)
  BY <1>1, <1>2, <1>3
<1>5. ChainOf(w, b, l)'
  BY <1>4, SameClass
<1> QED
  BY <1>1, <1>2, <1>3, <1>5 DEF ChainInv

LEMMA ContentStays ==
  ASSUME UNCHANGED <<class, book, wire, message, shown, tableVars>>, ChainInv, TableInv
  PROVE  ChainInv' /\ TableInv'
<1>1. Known0' = Known0
  BY DEF Known0
<1>2. ChainInv'
  BY <1>1, NextChain DEF ChainInv
<1>3. TableInv'
  BY <1>1, NextTables DEF TableInv, tableVars
<1> QED
  BY <1>2, <1>3

LEMMA NothingTold == \A s, p : ~Tells(None, s, p)
BY DEF Tells, None

LEMMA InitContent == Init => ContentInv
<1> SUFFICES ASSUME Init PROVE ChainInv /\ TableInv
  BY DEF ContentInv
<1>1. Known0 = book
  BY DEF Init, Known0
<1>2. ChainInv
  <2>1. wire = <<>> /\ Len(<<>>) = 0
    BY DEF Init
  <2> QED
    BY <1>1, <2>1 DEF ChainInv, ChainOf, AfterOf
<1>3. \A s \in Sides : table[s] = {}
  BY DEF Init, EmptyTable
<1>4. TableTells(table, message, Known0, seen, whole)
  BY <1>3 DEF Init, TableTells, TableAt
<1>5. SnapshotTold(message, seen) /\ message = None
  BY DEF Init, SnapshotTold
<1> QED
  BY <1>2, <1>4, <1>5 DEF TableInv

LEMMA VenueChangesContent ==
  ASSUME Types, ChainInv, TableInv, VenueChanges
  PROVE  ChainInv' /\ TableInv'
<1>1. PICK m \in Messages : /\ wire' = Append(wire, m) /\ book' = m.after
                            /\ Proper(book') /\ Follows(m, book)
  BY ChangeFollows DEF Types, MessageTypes
<1>2. /\ UNCHANGED <<class, message, shown, tableVars>> /\ Known0' = Known0
  BY DEF VenueChanges, Known0
<1>3. ChainOf(Append(wire, m), Known0, m.after)
  <2>1. wire \in Seq(Messages) /\ ChainOf(wire, Known0, book)
    BY DEF Types, MessageTypes, ChainInv
  <2> QED
    BY <1>1, <2>1, ChainGrows
<1>4. ChainInv'
  BY <1>1, <1>2, <1>3, NextChain
<1>5. TableInv'
  BY <1>2, NextTables DEF TableInv, tableVars
<1> QED
  BY <1>4, <1>5

\* A message is taken up.  The levels it does not tell of are as they were; if it
\* is passed over it tells of a book that is known already.
LEMMA ReceiveContent ==
  ASSUME Types, ChainInv, TableInv, Receive, proc' = "up"
  PROVE  ChainInv' /\ TableInv'
<1>1. PICK m : m = Head(wire)
  OBVIOUS
<1>2. wire \in Seq(Messages) /\ wire # <<>> /\ message = None /\ wire' = Tail(wire)
  BY DEF Receive, Types, MessageTypes
<1>3. m \in Messages /\ Follows(m, shown) /\ ChainOf(Tail(wire), m.after, book)
  <2>1. ChainOf(wire, shown, book)
    BY <1>2 DEF ChainInv, Known0
  <2> QED
    BY <1>1, <1>2, <2>1, ChainAdvances
<1>4. \/ m.items # <<>> /\ message' = m /\ shown' = shown
      \/ /\ shown' = m.after /\ message' = message
         /\ m.items = <<>> \/ m.snapshot
  <2>1. \E n \in Int : \/ n = 3 /\ proc' = "assertion"
                       \/ m.items # <<>> /\ message' = m /\ shown' = shown
                       \/ /\ n < 3 \/ m.items = <<>>
                          /\ n = IF m.snapshot /\ class = "bitfinex" THEN Len(m.items) ELSE 4
                          /\ shown' = m.after /\ message' = message
    <3>1. PICK n : n = IF m.snapshot /\ class = "bitfinex" THEN Len(m.items) ELSE 4
      OBVIOUS
    <3>2. n \in Int
      BY <1>3, <3>1 DEF Messages
    <3>3. \/ n = 3 /\ proc' = "assertion"
          \/ m.items # <<>> /\ message' = m /\ shown' = shown
          \/ /\ n < 3 \/ m.items = <<>>
             /\ shown' = m.after /\ message' = message
      BY <1>1, <3>1 DEF Receive
    <3> QED
      BY <3>1, <3>2, <3>3
  <2> QED
    BY <2>1
<1>5. UNCHANGED <<class, book, tableVars>>
  BY DEF Receive, venueVars
<1>6. /\ ItemsTrue(m)
      /\ \A s \in Sides, p \in Prices :
           ~Tells(m, s, p) => Want(m.after, s, p) = Want(shown, s, p)
      /\ m.snapshot => m.after = shown /\ TellsAll(m)
  BY <1>3 DEF Follows
<1>7. \A s \in Sides, p \in Prices : TableAt(table, shown, s, p, whole \/ <<s, p>> \in seen)
  BY <1>2, NothingTold DEF TableInv, TableTells, Known0
<1>8. CASE m.items # <<>> /\ message' = m /\ shown' = shown
  <2>1. m # None /\ Known0' = m.after
    BY <1>8 DEF None, Known0
  <2>2. ChainInv'
    BY <1>2, <1>3, <1>5, <2>1, NextChain
  <2>3. TableTells(table, m, m.after, seen, whole)
    <3> SUFFICES ASSUME NEW s \in Sides, NEW p \in Prices, ~Tells(m, s, p)
                 PROVE  TableAt(table, m.after, s, p, whole \/ <<s, p>> \in seen)
      BY DEF TableTells
    <3> QED
      BY <1>6, <1>7 DEF TableAt
  <2>4. SnapshotTold(m, seen)
    BY <1>6 DEF SnapshotTold, TellsAll
  <2>5. TableInv'
    BY <1>5, <1>6, <1>8, <2>1, <2>3, <2>4, NextTables DEF tableVars
  <2> QED
    BY <2>2, <2>5
<1>9. CASE /\ shown' = m.after /\ message' = message
           /\ m.items = <<>> \/ m.snapshot
  <2>1. Known0' = m.after
    BY <1>2, <1>9 DEF Known0
  <2>2. ChainInv'
    BY <1>2, <1>3, <1>5, <2>1, NextChain
  <2>3. \A s \in Sides, p \in Prices : Want(m.after, s, p) = Want(shown, s, p)
    <3>1. CASE m.items = <<>>
      <4>1. \A s, p : ~Tells(m, s, p)
        BY <3>1 DEF Tells
      <4> QED
        BY <1>6, <4>1
    <3>2. CASE m.snapshot
      BY <1>6, <3>2
    <3> QED
      BY <1>9, <3>1, <3>2
  <2>4. TableTells(table, None, m.after, seen, whole)
    BY <1>7, <2>3 DEF TableTells, TableAt
  <2>5. TableInv'
    BY <1>2, <1>5, <1>9, <2>1, <2>4, NextTables DEF tableVars, SnapshotTold
  <2> QED
    BY <2>2, <2>5
<1> QED
  BY <1>4, <1>8, <1>9

\* One item is applied.
LEMMA ApplyItemContent ==
  ASSUME Types, ChainInv, TableInv, ApplyItem
  PROVE  /\ ChainInv' /\ TableInv'
         /\ table' \in [Sides -> SUBSET (Prices \X Amounts)]
         /\ seen' \in SUBSET (Sides \X Prices)
         /\ message' \in Messages \union {None}
         /\ message' # None => message'.items # <<>>
         /\ Head(message.items).price \in Prices
         /\ ItemSide(Head(message.items)) \in Sides
         /\ ItemAmount(Head(message.items)) \in Amounts \union {0}
         /\ shown' \in Books
<1>1. PICK m : m = message
  OBVIOUS
<1>2. m \in Messages /\ m # None /\ m.items # <<>>
  BY <1>1 DEF ApplyItem, Types, MessageTypes
<1>3. PICK i : i = Head(m.items)
  OBVIOUS
<1>4. m.items \in Seq(ItemTypes) /\ m.after \in Books /\ Len(m.items) \in Nat \ {0}
  BY <1>2 DEF Messages
<1>5. i = m.items[1] /\ 1 \in DOMAIN m.items
  BY <1>2, <1>3, <1>4
<1>6. ItemTrue(i, m.after)
  BY <1>1, <1>2, <1>5 DEF TableInv, ItemsTrue
<1>7. PICK p \in Prices : p = i.price
  BY <1>6 DEF ItemTrue
<1>8. PICK s \in Sides : s = ItemSide(i)
  BY <1>6 DEF ItemTrue
<1>9. PICK q : q = ItemAmount(i)
  OBVIOUS
<1>10. q = Want(m.after, s, p) /\ q \in Amounts \union {0}
  BY <1>4, <1>6, <1>7, <1>8, <1>9, WantAmounts DEF ItemTrue
<1>11. PICK u : u = IF q = 0 THEN Erase(table[s], p) ELSE Put(table[s], p, q)
  OBVIOUS
<1>12. table \in [Sides -> SUBSET (Prices \X Amounts)]
  BY DEF Types, LoopTypes
<1>13. PICK t : t = [table EXCEPT ![s] = u]
  OBVIOUS
<1>14. /\ table' = t /\ seen' = seen \union {<<s, p>>}
       /\ message' = IF Len(m.items) = 1 THEN None ELSE [m EXCEPT !.items = Tail(@)]
       /\ shown' = IF Len(m.items) = 1 THEN m.after ELSE shown
       /\ whole' = (whole \/ (Len(m.items) = 1 /\ m.snapshot))
       /\ UNCHANGED <<class, wire, book>>
  BY <1>1, <1>3, <1>7, <1>8, <1>9, <1>11, <1>13 DEF ApplyItem, venueVars
<1>15. /\ t \in [Sides -> SUBSET (Prices \X Amounts)] /\ t[s] = u
       /\ \A z \in Sides : z # s => t[z] = table[z]
       /\ \A r \in Prices, a \in Amounts : r # p => (<<r, a>> \in u <=> <<r, a>> \in table[s])
       /\ \A a \in Amounts : <<p, a>> \in u <=> a = q
  <2>1. PICK ts \in SUBSET (Prices \X Amounts) : ts = table[s]
    BY <1>12
  <2>2. /\ u \in SUBSET (Prices \X Amounts)
        /\ \A r \in Prices, a \in Amounts : r # p => (<<r, a>> \in u <=> <<r, a>> \in ts)
        /\ \A a \in Amounts : <<p, a>> \in u <=> a = q
    <3>1. CASE q = 0
      <4>1. 0 \notin Amounts
        BY StoredAmounts
      <4>2. u = {x \in ts : x[1] # p}
        BY <1>11, <2>1, <3>1 DEF Erase
      <4> QED
        BY <2>1, <3>1, <4>1, <4>2
    <3>2. CASE q # 0
      <4>1. u = {x \in ts : x[1] # p} \union {<<p, q>>} /\ q \in Amounts
        BY <1>10, <1>11, <2>1, <3>2 DEF Put
      <4> QED
        BY <1>7, <2>1, <4>1
    <3> QED
      BY <3>1, <3>2
  <2>3. /\ t \in [Sides -> SUBSET (Prices \X Amounts)] /\ t[s] = u
        /\ \A z \in Sides : z # s => t[z] = table[z]
    BY <1>12, <1>13, <2>2
  <2> QED
    BY <2>1, <2>2, <2>3
<1>16. \A z \in Sides, r \in Prices : <<z, r>> # <<s, p>> =>
         \A a \in Amounts : <<r, a>> \in t[z] <=> <<r, a>> \in table[z]
  BY <1>15
<1>17. PICK told : told = seen \union {<<s, p>>}
  OBVIOUS
<1>18. Known0 = m.after
  BY <1>1, <1>2 DEF Known0
<1>19. /\ Head(message.items).price \in Prices /\ ItemSide(Head(message.items)) \in Sides
       /\ ItemAmount(Head(message.items)) \in Amounts \union {0}
  BY <1>1, <1>3, <1>7, <1>8, <1>9, <1>10
<1>20. CASE Len(m.items) = 1
  <2>1. message' = None /\ shown' = m.after /\ Known0' = m.after
    BY <1>14, <1>20 DEF Known0
  <2>2. ChainInv'
    BY <1>14, <1>18, <2>1, NextChain DEF ChainInv
  <2>3. \A z \in Sides, r \in Prices : Tells(m, z, r) => <<z, r>> = <<s, p>>
    <3>1. DOMAIN m.items = {1}
      BY <1>4, <1>20
    <3> QED
      BY <1>5, <1>7, <1>8, <3>1 DEF Tells
  <2>4. TableTells(t, None, m.after, told, whole \/ m.snapshot)
    <3> SUFFICES ASSUME NEW z \in Sides, NEW r \in Prices
                 PROVE  TableAt(t, m.after, z, r, (whole \/ m.snapshot) \/ <<z, r>> \in told)
      BY DEF TableTells
    <3>1. CASE <<z, r>> = <<s, p>>
      BY <1>10, <1>15, <1>17, <3>1 DEF TableAt
    <3>2. CASE <<z, r>> # <<s, p>>
      <4>1. ~Tells(m, z, r)
        BY <2>3, <3>2
      <4>2. TableAt(table, m.after, z, r, whole \/ <<z, r>> \in seen)
        BY <1>1, <1>18, <4>1 DEF TableInv, TableTells
      <4>3. m.snapshot => Want(m.after, z, r) = 0 \/ <<z, r>> \in seen
        BY <1>1, <1>2, <4>1 DEF TableInv, SnapshotTold
      <4>4. <<z, r>> \in told <=> <<z, r>> \in seen
        BY <1>17, <3>2
      <4>5. ASSUME NEW a \in Amounts
            PROVE  <<r, a>> \in t[z] <=>
                     ((whole \/ m.snapshot) \/ <<z, r>> \in told) /\ a = Want(m.after, z, r)
        <5>1. <<r, a>> \in t[z] <=> (whole \/ <<z, r>> \in seen) /\ a = Want(m.after, z, r)
          BY <1>16, <3>2, <4>2 DEF TableAt
        <5>2. a # 0
          BY StoredAmounts
        <5> QED
          BY <4>3, <4>4, <5>1, <5>2
      <4> QED
        BY <4>5 DEF TableAt
    <3> QED
      BY <3>1, <3>2
  <2>5. whole' = (whole \/ m.snapshot) /\ table' = t /\ seen' = told
    BY <1>14, <1>17, <1>20
  <2>6. TableInv'
    BY <1>14, <2>1, <2>4, <2>5, NextTables DEF SnapshotTold
  <2> QED
    BY <1>4, <1>19, <1>14, <1>15, <2>1, <2>2, <2>6 DEF Types, MessageTypes
<1>21. CASE Len(m.items) # 1
  <2>1. PICK n : n = [m EXCEPT !.items = Tail(@)]
    OBVIOUS
  <2>2. /\ n \in Messages /\ n.items = Tail(m.items) /\ n.after = m.after
        /\ n.snapshot = m.snapshot
    BY <1>2, <1>4, <2>1, SMTT(40) DEF Messages
  <2>3. /\ Len(n.items) = Len(m.items) - 1 /\ n.items # <<>>
        /\ DOMAIN n.items = 1 .. Len(m.items) - 1
        /\ \A k \in 1 .. Len(m.items) - 1 : n.items[k] = m.items[k + 1]
    <3>1. PICK w \in Seq(ItemTypes) : w = m.items
      BY <1>4
    <3>2. PICK v : v = Tail(w)
      OBVIOUS
    <3>3. Len(w) \in Nat \ {0, 1}
      BY <1>4, <1>21, <3>1
    <3>4. /\ Len(v) = Len(w) - 1 /\ v \in Seq(ItemTypes) /\ DOMAIN v = 1 .. Len(w) - 1
          /\ \A k \in 1 .. Len(w) - 1 : v[k] = w[k + 1]
      BY <3>2, <3>3
    <3>5. v # <<>>
      BY <3>3, <3>4
    <3> QED
      BY <2>2, <3>1, <3>2, <3>4, <3>5
  <2>4. n # None
    BY <2>3 DEF None
  <2>5. message' = n /\ shown' = shown /\ Known0' = m.after
    BY <1>14, <1>21, <2>1, <2>2, <2>4 DEF Known0
  <2>6. ChainInv'
    BY <1>14, <1>18, <2>5, NextChain DEF ChainInv
  <2>7. ItemsTrue(n)
    <3>1. \A k \in 1 .. Len(m.items) - 1 : k + 1 \in DOMAIN m.items
      BY <1>4
    <3>2. ItemsTrue(m)
      BY <1>1, <1>2 DEF TableInv
    <3> QED
      BY <2>2, <2>3, <3>1, <3>2 DEF ItemsTrue
  <2>8. ASSUME NEW z \in Sides, NEW r \in Prices, Tells(m, z, r)
        PROVE  Tells(n, z, r) \/ <<z, r>> = <<s, p>>
    <3>1. PICK k \in DOMAIN m.items : m.items[k].price = r /\ ItemSide(m.items[k]) = z
      BY <2>8 DEF Tells
    <3>2. CASE k = 1
      BY <1>5, <1>7, <1>8, <3>1, <3>2
    <3>3. CASE k # 1
      <4>1. k - 1 \in DOMAIN n.items /\ n.items[k - 1] = m.items[k]
        BY <1>4, <2>3, <3>3
      <4> QED
        BY <3>1, <4>1 DEF Tells
    <3> QED
      BY <3>2, <3>3
  <2>9. TableTells(t, n, m.after, told, whole)
    <3> SUFFICES ASSUME NEW z \in Sides, NEW r \in Prices, ~Tells(n, z, r)
                 PROVE  TableAt(t, m.after, z, r, whole \/ <<z, r>> \in told)
      BY DEF TableTells
    <3>1. CASE <<z, r>> = <<s, p>>
      BY <1>10, <1>15, <1>17, <3>1 DEF TableAt
    <3>2. CASE <<z, r>> # <<s, p>>
      <4>1. ~Tells(m, z, r)
        BY <2>8, <3>2
      <4>2. TableAt(table, m.after, z, r, whole \/ <<z, r>> \in seen)
        BY <1>1, <1>18, <4>1 DEF TableInv, TableTells
      <4>3. <<z, r>> \in told <=> <<z, r>> \in seen
        BY <1>17, <3>2
      <4> QED
        BY <1>16, <3>2, <4>2, <4>3 DEF TableAt
    <3> QED
      BY <3>1, <3>2
  <2>10. SnapshotTold(n, told)
    <3> SUFFICES ASSUME n.snapshot, NEW z \in Sides, NEW r \in Prices,
                        Want(m.after, z, r) # 0
                 PROVE  Tells(n, z, r) \/ <<z, r>> \in told
      BY <2>2 DEF SnapshotTold
    <3>1. Tells(m, z, r) \/ <<z, r>> \in seen
      BY <1>1, <1>2, <2>2 DEF TableInv, SnapshotTold
    <3> QED
      BY <1>17, <2>8, <3>1
  <2>11. whole' = whole /\ table' = t /\ seen' = told
    <3>1. whole' = whole
      BY <1>14, <1>21 DEF Types, MessageTypes
    <3> QED
      BY <1>14, <1>17, <3>1
  <2>12. TableInv'
    BY <1>14, <2>5, <2>7, <2>9, <2>10, <2>11, NextTables
  <2>13. shown' \in Books /\ seen' \in SUBSET (Sides \X Prices)
    BY <1>14, <2>5 DEF Types, MessageTypes
  <2>14. table' \in [Sides -> SUBSET (Prices \X Amounts)]
    BY <1>15, <2>11
  <2>15. message' \in Messages \union {None} /\ (message' # None => message'.items # <<>>)
    BY <2>2, <2>3, <2>5
  <2> QED
    BY <1>19, <2>6, <2>12, <2>13, <2>14, <2>15
<1> QED
  BY <1>20, <1>21

\* The maps are emptied, perhaps in the middle of a message.
LEMMA SubscribeContent ==
  ASSUME Types, ChainInv, TableInv, SubscribeDepth
  PROVE  /\ ChainInv' /\ TableInv'
         /\ message' \in Messages \union {None}
         /\ message' # None => message'.items # <<>>
<1>1. PICK m : m = message
  OBVIOUS
<1>2. PICK n : n = IF m = None THEN None ELSE [m EXCEPT !.snapshot = FALSE]
  OBVIOUS
<1>3. m # None => /\ n \in Messages /\ n.items = m.items /\ n.after = m.after
                  /\ n.snapshot = FALSE /\ m.items # <<>> /\ n # None
  <2> SUFFICES ASSUME m # None
               PROVE  /\ n \in Messages /\ n.items = m.items /\ n.after = m.after
                      /\ n.snapshot = FALSE /\ m.items # <<>> /\ n # None
    OBVIOUS
  <2>1. m \in Messages /\ m.items # <<>>
    BY <1>1 DEF Types, MessageTypes
  <2>2. n = [m EXCEPT !.snapshot = FALSE]
    BY <1>2
  <2>3. /\ n \in Messages /\ n.items = m.items /\ n.after = m.after
        /\ n.snapshot = FALSE
    BY <2>1, <2>2 DEF Messages
  <2> QED
    BY <2>1, <2>3 DEF None
<1>4. m = None => n = None
  BY <1>2
<1>5. /\ message' = n /\ table' = EmptyTable /\ seen' = {} /\ whole' = FALSE
      /\ UNCHANGED <<class, wire, book, shown>>
  BY <1>1, <1>2 DEF SubscribeDepth, Clear, venueVars
<1>6. Known0' = Known0
  BY <1>1, <1>3, <1>4, <1>5 DEF Known0
<1>7. ChainInv'
  BY <1>5, <1>6, NextChain DEF ChainInv
<1>8. n # None => ItemsTrue(n)
  BY <1>1, <1>3, <1>4 DEF TableInv, ItemsTrue
<1>9. TableTells(EmptyTable, n, Known0, {}, FALSE)
  <2>1. \A s \in Sides : EmptyTable[s] = {}
    BY DEF EmptyTable
  <2> QED
    BY <2>1 DEF TableTells, TableAt
<1>10. SnapshotTold(n, {})
  BY <1>3, <1>4 DEF SnapshotTold
<1>11. TableInv'
  BY <1>5, <1>6, <1>8, <1>9, <1>10, NextTables
<1> QED
  BY <1>3, <1>4, <1>5, <1>7, <1>11
-----------------------------------------------------------------------------
\* The types are kept, action by action.

LEMMA MessageTypesStay ==
  ASSUME MessageTypes,
         UNCHANGED <<class, book, shown, wire, message, changes, asked, following, seen, whole>>
  PROVE  MessageTypes'
BY DEF MessageTypes, Proper

LEMMA LoopTypesStay ==
  ASSUME LoopTypes, UNCHANGED <<table, app, calls, loopVars, passVars>>
  PROVE  LoopTypes'
BY DEF LoopTypes, loopVars, passVars

\* The steps of the loop leave the messages alone, and in each of them the loop's
\* own variables are one of these.
LEMMA BeginTypes ==
  ASSUME LoopTypes, NEW s \in Sides, Begin(s), turns' \in Nat,
         UNCHANGED <<table, calls, sum>>
  PROVE  LoopTypes'
<1>1. table[s] \in SUBSET (Prices \X Amounts)
  BY DEF LoopTypes
<1>2. count' \in 0 .. Depth - 1
  BY DepthAssumption DEF Begin
<1>3. base' \in Prices \union {End, Dangling} /\ price' \in Nat /\ app' = "check"
  BY EndIsAbove DEF Begin
<1>4. /\ started' \in SUBSET (Prices \X Amounts) /\ disturbed' \in SUBSET Prices
      /\ pass' \in Sides
  BY <1>1 DEF Begin
<1>5. erased' \in BOOLEAN /\ wild' \in BOOLEAN
  BY DEF Begin
<1>6. /\ table' \in [Sides -> SUBSET (Prices \X Amounts)] /\ calls' \in Nat
      /\ sum' \in [Sides -> Seq(Summands)]
  BY DEF LoopTypes
<1> QED
  BY <1>2, <1>3, <1>4, <1>5, <1>6 DEF LoopTypes

LEMMA SumGrows ==
  ASSUME LoopTypes, NEW x \in Summands,
         sum' = [sum EXCEPT ![pass] = Append(@, x)]
  PROVE  sum' \in [Sides -> Seq(Summands)]
<1>1. pass \in Sides /\ sum \in [Sides -> Seq(Summands)]
  BY DEF LoopTypes
<1>2. PICK v \in Seq(Summands) : v = Append(sum[pass], x)
  <2>1. sum[pass] \in Seq(Summands)
    BY <1>1
  <2>2. Append(sum[pass], x) \in Seq(Summands)
    BY <2>1, AppendProperties
  <2> QED
    BY <2>2
<1>3. sum' = [sum EXCEPT ![pass] = v]
  BY <1>2
<1> QED
  BY <1>1, <1>3

LEMMA AstrayTypes ==
  ASSUME LoopTypes, Astray, UNCHANGED <<table, calls>>
  PROVE  LoopTypes' /\ proc' \in {proc, "lost"}
<1>1. CASE proc' = "lost" /\ UNCHANGED <<app, sum, wild>>
  BY <1>1, LoopTypesStay DEF Astray, loopVars, passVars
<1>2. CASE /\ app' = "done" /\ sum' = [sum EXCEPT ![pass] = Append(@, Junk)]
           /\ wild' = TRUE /\ UNCHANGED proc
  <2>1. sum' \in [Sides -> Seq(Summands)]
    BY <1>2, SumGrows DEF Summands
  <2> QED
    BY <1>2, <2>1 DEF Astray, LoopTypes
<1> QED
  BY <1>1, <1>2 DEF Astray

LEMMA LoopStepTypes ==
  ASSUME Types, \/ Wake \/ Check \/ ReadFirst \/ ReadSecond \/ Step \/ PassEnds
  PROVE  Types'
<1> USE DEF Types
<1>1. MessageTypes'
  <2>1. UNCHANGED loopStep
    BY DEF Wake, Check, ReadFirst, ReadSecond, Step, PassEnds
  <2> QED
    BY <2>1, MessageTypesStay DEF loopStep, venueVars, tableVars
<1>2. UNCHANGED <<table, calls>>
  BY DEF Wake, Check, ReadFirst, ReadSecond, Step, PassEnds, loopStep, tableVars
<1>3. CASE Wake
  <2>1. turns' \in Nat
    BY <1>3 DEF Wake, LoopTypes
  <2>2. LoopTypes'
    BY <1>2, <1>3, <2>1, BeginTypes DEF Wake, Sides
  <2> QED
    BY <1>1, <1>3, <2>2 DEF Wake, ProcTypes
<1>4. CASE Check
  BY <1>1, <1>2, <1>4 DEF Check, LoopTypes, ProcTypes, loopVars, passVars
<1>5. CASE ReadFirst
  <2>1. CASE Below = {}
    <3>1. Astray
      BY <1>5, <2>1 DEF ReadFirst
    <3> QED
      BY <1>1, <1>2, <3>1, AstrayTypes DEF ProcTypes
  <2>2. CASE Below # {}
    <3>1. Designated \in Below
      BY <2>2, DesignatedIsHighest
    <3>2. Designated[1] \in Prices /\ Designated[1] \in Nat
      BY <3>1, EndIsAbove DEF Below, LoopTypes
    <3>3. /\ app' = "second" /\ price' = Designated[1]
          /\ UNCHANGED <<proc, turns, pass, base, count, sum, started, passVars>>
      BY <1>5, <2>2 DEF ReadFirst
    <3>4. LoopTypes'
      BY <1>2, <3>2, <3>3 DEF LoopTypes, passVars
    <3> QED
      BY <1>1, <3>3, <3>4 DEF ProcTypes
  <2> QED
    BY <2>1, <2>2
<1>6. CASE ReadSecond
  <2>1. CASE Below = {}
    <3>1. Astray
      BY <1>6, <2>1 DEF ReadSecond
    <3> QED
      BY <1>1, <1>2, <3>1, AstrayTypes DEF ProcTypes
  <2>2. CASE Below # {}
    <3>1. Designated \in Below
      BY <2>2, DesignatedIsHighest
    <3>2. Designated[2] \in Amounts
      BY <3>1 DEF Below, LoopTypes
    <3>3. price \in Prices
      BY <1>6 DEF ReadSecond, LoopTypes
    <3>4. <<price, Designated[2]>> \in Summands
      BY <3>2, <3>3 DEF Summands
    <3>5. /\ app' = "step" /\ sum' = [sum EXCEPT ![pass] = Append(@, <<price, Designated[2]>>)]
          /\ UNCHANGED <<proc, turns, pass, base, count, price, started, passVars>>
      BY <1>6, <2>2 DEF ReadSecond
    <3>6. sum' \in [Sides -> Seq(Summands)]
      BY <3>4, <3>5, SumGrows
    <3>7. LoopTypes'
      BY <1>2, <3>5, <3>6 DEF LoopTypes, passVars
    <3> QED
      BY <1>1, <3>5, <3>7 DEF ProcTypes
  <2> QED
    BY <2>1, <2>2
<1>7. CASE Step
  <2>1. CASE Enough /\ app' = "done" /\ UNCHANGED <<proc, loopVars, passVars>>
    BY <1>1, <1>2, <2>1 DEF LoopTypes, ProcTypes, loopVars, passVars
  <2>2. CASE ~Enough /\ Below = {}
    <3>1. Astray
      BY <1>7, <2>2 DEF Step
    <3> QED
      BY <1>1, <1>2, <3>1, AstrayTypes DEF ProcTypes
  <2>3. CASE ~Enough /\ Below # {}
    <3>1. Designated \in Below
      BY <2>3, DesignatedIsHighest
    <3>2. Designated[1] \in Prices
      BY <3>1 DEF Below, LoopTypes
    <3>3. /\ app' = "check" /\ count' = count + 1 /\ base' = Designated[1]
          /\ UNCHANGED <<proc, turns, pass, price, sum, started, passVars>>
      BY <1>7, <2>3 DEF Step
    <3>4. count' \in 0 .. Depth - 1
      BY <2>3, <3>3, DepthAssumption DEF Enough, LoopTypes
    <3>5. LoopTypes'
      BY <1>2, <3>2, <3>3, <3>4 DEF LoopTypes, passVars
    <3> QED
      BY <1>1, <3>3, <3>5 DEF ProcTypes
  <2> QED
    BY <1>7, <2>1, <2>2, <2>3 DEF Step
<1>8. CASE PassEnds
  <2>1. CASE pass = "ask" /\ Begin("bid") /\ UNCHANGED <<turns, sum>>
    <3>1. turns' \in Nat
      BY <2>1 DEF LoopTypes
    <3>2. LoopTypes'
      BY <1>2, <2>1, <3>1, BeginTypes DEF Sides
    <3> QED
      BY <1>1, <1>8, <3>2 DEF PassEnds, ProcTypes
  <2>2. CASE /\ app' = "sleep" /\ sum' = [s \in Sides |-> <<>>]
             /\ UNCHANGED <<turns, pass, base, count, price, started, passVars>>
    <3>1. sum' \in [Sides -> Seq(Summands)]
      BY <2>2
    <3>2. LoopTypes'
      BY <1>2, <2>2, <3>1 DEF LoopTypes, passVars
    <3> QED
      BY <1>1, <1>8, <3>2 DEF PassEnds, ProcTypes
  <2> QED
    BY <1>8, <2>1, <2>2 DEF PassEnds
<1> QED
  BY <1>3, <1>4, <1>5, <1>6, <1>7, <1>8

LEMMA VenueTypes ==
  ASSUME Types, VenueAnswers \/ VenueChanges
  PROVE  Types'
<1> USE DEF Types
<1>1. CASE VenueAnswers
  <2>1. Snapshot \in Messages
    BY SnapshotFollows DEF MessageTypes
  <2>2. wire' \in Seq(Messages)
    <3>1. PICK m \in Messages : m = Snapshot
      BY <2>1
    <3>2. wire' = Append(wire, m) /\ wire \in Seq(Messages)
      BY <1>1, <3>1 DEF VenueAnswers, MessageTypes
    <3> QED
      BY <3>1, <3>2
  <2>3. asked' \in Nat /\ following' \in BOOLEAN
    BY <1>1 DEF VenueAnswers, MessageTypes
  <2>4. UNCHANGED <<class, book, shown, message, changes, seen, whole>>
    BY <1>1 DEF VenueAnswers, tableVars
  <2>5. MessageTypes'
    BY <2>2, <2>3, <2>4 DEF MessageTypes, Proper
  <2>6. LoopTypes'
    BY <1>1, LoopTypesStay DEF VenueAnswers, tableVars
  <2> QED
    BY <1>1, <2>5, <2>6 DEF VenueAnswers, ProcTypes
<1>2. CASE VenueChanges
  <2>1. PICK m \in Messages : /\ wire' = Append(wire, m) /\ book' = m.after
                              /\ Proper(book') /\ Follows(m, book)
    BY <1>2, ChangeFollows DEF MessageTypes
  <2>2. wire' \in Seq(Messages) /\ book' \in Books
    BY <2>1 DEF MessageTypes, Messages
  <2>3. changes' \in Nat
    BY <1>2 DEF VenueChanges, MessageTypes
  <2>4. UNCHANGED <<class, asked, following, message, shown, seen, whole>>
    BY <1>2 DEF VenueChanges, tableVars
  <2>5. Proper(book)'
    <3>1. PICK b : b = book'
      OBVIOUS
    <3>2. Proper(b)
      BY <2>1, <3>1
    <3> QED
      BY <3>1, <3>2 DEF Proper
  <2>6. MessageTypes'
    BY <2>2, <2>3, <2>4, <2>5 DEF MessageTypes
  <2>7. LoopTypes'
    BY <1>2, LoopTypesStay DEF VenueChanges, tableVars
  <2> QED
    BY <1>2, <2>6, <2>7 DEF VenueChanges, ProcTypes
<1> QED
  BY <1>1, <1>2

LEMMA ReceiveTypes ==
  ASSUME Types, Receive
  PROVE  Types'
<1> USE DEF Types
<1>1. PICK m : m = Head(wire)
  OBVIOUS
<1>2. wire \in Seq(Messages) /\ wire # <<>> /\ wire' = Tail(wire)
  BY DEF Receive, MessageTypes
<1>3. m \in Messages /\ wire' \in Seq(Messages) /\ m.after \in Books
  <2>1. m \in Messages /\ wire' \in Seq(Messages)
    BY <1>1, <1>2
  <2> QED
    BY <2>1 DEF Messages
<1>4. \/ proc' = "assertion" /\ UNCHANGED <<message, shown>>
      \/ m.items # <<>> /\ message' = m /\ UNCHANGED <<proc, shown>>
      \/ shown' = m.after /\ UNCHANGED <<proc, message>>
  BY <1>1 DEF Receive
<1>5. UNCHANGED <<class, book, changes, asked, following, table, seen, whole, app, calls,
                  loopVars, passVars>>
  BY DEF Receive, venueVars, tableVars
<1>6. LoopTypes'
  BY <1>5, LoopTypesStay
<1>7. /\ message' \in Messages \union {None} /\ (message' # None => message'.items # <<>>)
      /\ shown' \in Books
  BY <1>3, <1>4 DEF MessageTypes
<1>8. MessageTypes'
  <2>1. book' \in Books /\ Proper(book)' /\ class' \in Classes
    BY <1>5 DEF MessageTypes, Proper
  <2>2. /\ changes' \in Nat /\ asked' \in Nat /\ following' \in BOOLEAN
        /\ seen' \in SUBSET (Sides \X Prices) /\ whole' \in BOOLEAN
    BY <1>5 DEF MessageTypes
  <2> QED
    BY <1>3, <1>7, <2>1, <2>2 DEF MessageTypes
<1>9. ProcTypes'
  BY <1>4 DEF ProcTypes
<1> QED
  BY <1>6, <1>8, <1>9

LEMMA ApplyItemTypes ==
  ASSUME Types, ChainInv, TableInv, ApplyItem
  PROVE  Types'
<1> USE DEF Types
<1>1. PICK p \in Prices : p = Head(message.items).price
  BY ApplyItemContent
<1>2. MessageTypes'
  <2>1. /\ seen' \in SUBSET (Sides \X Prices) /\ message' \in Messages \union {None}
        /\ message' # None => message'.items # <<>>
        /\ shown' \in Books
    BY ApplyItemContent
  <2>2. UNCHANGED <<class, book, wire, changes, asked, following>>
    BY DEF ApplyItem, venueVars
  <2>3. whole' \in BOOLEAN
    BY DEF ApplyItem
  <2> QED
    BY <2>1, <2>2, <2>3 DEF MessageTypes, Proper
<1>3. LoopTypes'
  <2>1. table' \in [Sides -> SUBSET (Prices \X Amounts)]
    BY ApplyItemContent
  <2>2. base' \in Prices \union {End, Dangling}
    BY DEF ApplyItem, LoopTypes
  <2>3. disturbed' \in SUBSET Prices
    <3>1. disturbed' = disturbed \union {p} \/ disturbed' = disturbed
      BY <1>1 DEF ApplyItem
    <3> QED
      BY <3>1 DEF LoopTypes
  <2>4. erased' \in BOOLEAN
    BY DEF ApplyItem
  <2>5. UNCHANGED <<app, calls, turns, pass, count, price, sum, started, wild>>
    BY DEF ApplyItem
  <2> QED
    BY <2>1, <2>2, <2>3, <2>4, <2>5 DEF LoopTypes
<1>4. ProcTypes'
  BY DEF ApplyItem, ProcTypes
<1> QED
  BY <1>2, <1>3, <1>4

LEMMA ApplicationTypes ==
  ASSUME Types, (SubscribeDepth /\ ChainInv /\ TableInv) \/ Request
  PROVE  Types'
<1> USE DEF Types
<1>1. CASE SubscribeDepth /\ ChainInv /\ TableInv
  <2>1. /\ message' \in Messages \union {None}
        /\ message' # None => message'.items # <<>>
    BY <1>1, SubscribeContent
  <2>2. table' = EmptyTable /\ seen' = {} /\ whole' = FALSE
    BY <1>1 DEF SubscribeDepth, Clear
  <2>3. MessageTypes'
    BY <1>1, <2>1, <2>2 DEF SubscribeDepth, venueVars, MessageTypes, Proper
  <2>4. table' \in [Sides -> SUBSET (Prices \X Amounts)]
    BY <2>2 DEF EmptyTable
  <2>5. app' = "clear" /\ calls' \in Nat /\ UNCHANGED <<proc, loopVars, passVars>>
    BY <1>1 DEF SubscribeDepth, LoopTypes
  <2>6. LoopTypes'
    BY <2>4, <2>5 DEF LoopTypes, loopVars, passVars
  <2> QED
    BY <2>3, <2>5, <2>6 DEF ProcTypes
<1>2. CASE Request
  <2>1. MessageTypes'
    BY <1>2 DEF Request, MessageTypes, Proper, tableVars
  <2>2. LoopTypes'
    BY <1>2 DEF Request, LoopTypes, loopVars, passVars, tableVars
  <2> QED
    BY <1>2, <2>1, <2>2 DEF Request, ProcTypes
<1> QED
  BY <1>1, <1>2

-----------------------------------------------------------------------------
\* What the maps hold, and the types, are kept by every step.
BookInv == Types /\ ContentInv

LEMMA StutterStays == BookInv /\ UNCHANGED vars => BookInv'
<1> SUFFICES ASSUME BookInv, UNCHANGED vars PROVE BookInv'
  OBVIOUS
<1>1. MessageTypes'
  BY MessageTypesStay DEF BookInv, Types, vars, venueVars, tableVars
<1>2. LoopTypes'
  BY LoopTypesStay DEF BookInv, Types, vars, tableVars
<1>3. ProcTypes'
  BY DEF BookInv, Types, vars, ProcTypes
<1>4. ContentInv'
  BY ContentStays DEF BookInv, ContentInv, vars, venueVars
<1> QED
  BY <1>1, <1>2, <1>3, <1>4 DEF BookInv, Types

LEMMA BookStep == BookInv /\ Next => BookInv'
<1> SUFFICES ASSUME BookInv, Next PROVE BookInv'
  OBVIOUS
<1>1. proc = "up"
  BY DEF Next, VenueAnswers, VenueChanges, Receive, ApplyItem, SubscribeDepth, Request,
         Wake, Check, ReadFirst, ReadSecond, Step, PassEnds
<1>2. Types /\ ChainInv /\ TableInv
  BY <1>1 DEF BookInv, ContentInv
<1>3. CASE VenueAnswers
  <2>1. ChainInv'
    BY <1>2, <1>3, VenueAnswersChain
  <2>2. TableInv'
    <3>1. UNCHANGED <<class, message, shown, tableVars>> /\ Known0' = Known0
      BY <1>3 DEF VenueAnswers, Known0
    <3> QED
      BY <1>2, <3>1, NextTables DEF TableInv, tableVars
  <2> QED
    BY <1>2, <1>3, <2>1, <2>2, VenueTypes DEF BookInv, ContentInv
<1>4. CASE VenueChanges
  BY <1>2, <1>4, VenueChangesContent, VenueTypes DEF BookInv, ContentInv
<1>5. CASE Receive
  <2>1. ContentInv'
    BY <1>2, <1>5, ReceiveContent DEF ContentInv
  <2> QED
    BY <1>2, <1>5, <2>1, ReceiveTypes DEF BookInv
<1>6. CASE ApplyItem
  BY <1>2, <1>6, ApplyItemContent, ApplyItemTypes DEF BookInv, ContentInv
<1>7. CASE SubscribeDepth
  BY <1>2, <1>7, SubscribeContent, ApplicationTypes DEF BookInv, ContentInv
<1>8. CASE Request
  <2>1. UNCHANGED <<class, book, wire, message, shown, tableVars>>
    BY <1>8 DEF Request
  <2> QED
    BY <1>2, <1>8, <2>1, ContentStays, ApplicationTypes DEF BookInv, ContentInv
<1>9. CASE Wake \/ Check \/ ReadFirst \/ ReadSecond \/ Step \/ PassEnds
  <2>1. UNCHANGED <<class, book, wire, message, shown, tableVars>>
    BY <1>9 DEF Wake, Check, ReadFirst, ReadSecond, Step, PassEnds, loopStep, venueVars
  <2> QED
    BY <1>2, <1>9, <2>1, ContentStays, LoopStepTypes DEF BookInv, ContentInv
<1> QED
  BY <1>3, <1>4, <1>5, <1>6, <1>7, <1>8, <1>9 DEF Next

LEMMA BookInvariant == Spec => []BookInv
<1>1. Init => BookInv
  BY InitTypes, InitContent DEF BookInv
<1>2. BookInv /\ [Next]_vars => BookInv'
  BY BookStep, StutterStays
<1> QED
  BY <1>1, <1>2, PTL DEF Spec

\* The state of the application, of the maps and of the messages under way keeps
\* its types (okex.cpp, exg58coin.cpp, bitfinex.cpp).
THEOREM TypeCorrect == Spec => []TypeOK
<1>1. BookInv => TypeOK
  BY TypesInDetail DEF BookInv
<1> QED
  BY <1>1, BookInvariant, PTL

\* Between two messages the maps are the venue's book, as far as messages have
\* told of it since they were emptied (onMessage of okex.cpp and bitfinex.cpp),
\* for any number of levels, subscriptions and messages under way.
THEOREM TablesFollow == Spec => []TablesFollowVenue
<1>1. BookInv => TablesFollowVenue
  <2> SUFFICES ASSUME BookInv, proc = "up", message = None, NEW s \in Sides
               PROVE  table[s] = {<<p, Stored(s, shown[p].size)>> : p \in Known(s)}
    BY DEF TablesFollowVenue
  <2>1. PICK b \in Books : b = shown
    BY DEF BookInv, Types, MessageTypes
  <2>2. \A p \in Prices : TableAt(table, b, s, p, whole \/ <<s, p>> \in seen)
    BY <2>1, NothingTold DEF BookInv, ContentInv, TableInv, TableTells, Known0
  <2>3. table[s] \in SUBSET (Prices \X Amounts)
    BY DEF BookInv, Types, LoopTypes
  <2>4. ASSUME NEW x \in table[s] PROVE \E p \in Known(s) : x = <<p, Stored(s, shown[p].size)>>
    <3>1. PICK p \in Prices, q \in Amounts : x = <<p, q>>
      BY <2>3
    <3>2. (whole \/ <<s, p>> \in seen) /\ q = Want(b, s, p)
      BY <2>2, <3>1 DEF TableAt
    <3>3. b[p].side = s
      BY <3>1, <3>2, WantAmounts, StoredAmounts
    <3> QED
      BY <2>1, <3>1, <3>2, <3>3 DEF Known, Want
  <2>5. ASSUME NEW p \in Known(s) PROVE <<p, Stored(s, shown[p].size)>> \in table[s]
    <3>1. p \in Prices /\ b[p].side = s /\ (whole \/ <<s, p>> \in seen)
      BY <2>1 DEF Known
    <3>2. Want(b, s, p) \in Amounts /\ Want(b, s, p) = Stored(s, b[p].size)
      BY <3>1, WantAmounts DEF Want
    <3>3. <<p, Want(b, s, p)>> \in table[s]
      BY <2>2, <3>1, <3>2 DEF TableAt
    <3> QED
      BY <2>1, <3>2, <3>3
  <2> QED
    BY <2>4, <2>5
<1> QED
  BY <1>1, BookInvariant, PTL

-----------------------------------------------------------------------------
\* The iterator.

InPass == app \in {"check", "first", "second", "step", "done"}

\* A map has one amount per price.
OneEntry == \A s \in Sides : \A x, y \in table[s] : x[1] = y[1] => x = y

\* As long as nothing has been erased under it, the iterator holds the end or a
\* level that is there, and what is about to be read is there, too.
IteratorInv ==
  /\ (wild \/ proc = "lost") => erased
  /\ (InPass /\ ~erased) => base = End \/ \E x \in table[pass] : x[1] = base
  /\ (app \in {"first", "second", "step"} /\ ~erased) => Below # {}

\* A level of the map that has stood throughout the pass.
Steady(x) == x \in started /\ x[1] \notin disturbed

\* A steady level is in the map; at or above the iterator it has been added up.
\* Below it, none is above the price just read, and at the end of a turn of the
\* loop the level read has been added up or another has come above it.
SteadyInv ==
  /\ InPass => \A x \in started : Steady(x) => x \in table[pass]
  /\ (InPass /\ ~erased) =>
       \A x \in started : Steady(x) /\ x[1] >= base => x \in Range(sum[pass])
  /\ (app = "second" /\ ~erased) =>
       /\ \E y \in Below : y[1] = price
       /\ \A x \in started : Steady(x) /\ x[1] < base => x[1] <= price
  /\ (app = "step" /\ ~erased) =>
       \A x \in started : Steady(x) /\ x[1] < base =>
         x[1] <= price /\ (x \in Range(sum[pass]) \/ \E y \in Below : y[1] > x[1])
  /\ (app = "done" /\ ~erased) =>
       \A x \in started : Steady(x) /\ x[1] > price => x \in Range(sum[pass])

PassInv == OneEntry /\ IteratorInv /\ SteadyInv

\* The types of levels and of the iterator.
LEMMA LevelTypes ==
  ASSUME Types
  PROVE  /\ pass \in Sides /\ table[pass] \in SUBSET (Prices \X Amounts)
         /\ \A x \in table[pass] : x \in Prices \X Amounts /\ x[1] \in Prices /\ x[1] \in Nat
         /\ \A x \in started : x \in Prices \X Amounts /\ x[1] \in Prices /\ x[1] \in Nat
         /\ base \in Nat /\ price \in Nat
         /\ \A x \in Below : x \in table[pass] /\ x[1] < base
<1>1. base \in Nat
  BY EndIsAbove DEF Types, LoopTypes, Dangling
<1>2. \A x \in Prices \X Amounts : x[1] \in Prices /\ x[1] \in Nat
  BY EndIsAbove
<1>3. pass \in Sides /\ table[pass] \in SUBSET (Prices \X Amounts)
  BY DEF Types, LoopTypes
<1>4. started \in SUBSET (Prices \X Amounts) /\ price \in Nat
  BY DEF Types, LoopTypes
<1> QED
  BY <1>1, <1>2, <1>3, <1>4 DEF Below

\* What the hub thread does to the maps and to the iterator.
LEMMA HubMoves ==
  ASSUME Types, ChainInv, TableInv, ApplyItem
  PROVE  \E s \in Sides, p \in Prices, q \in Amounts \union {0} :
           /\ \A z \in Sides \ {s} : table'[z] = table[z]
           /\ table'[s] = IF q = 0 THEN Erase(table[s], p) ELSE Put(table[s], p, q)
           /\ base' = IF InPass /\ s = pass /\ base = p /\ q = 0 THEN Dangling ELSE base
           /\ disturbed' = IF InPass /\ s = pass THEN disturbed \union {p} ELSE disturbed
           /\ erased' = (erased \/ (InPass /\ s = pass /\ q = 0
                                    /\ \E x \in table[s] : x[1] = p))
<1>1. PICK p \in Prices : p = Head(message.items).price
  BY ApplyItemContent
<1>2. PICK s \in Sides : s = ItemSide(Head(message.items))
  BY ApplyItemContent
<1>3. PICK q \in Amounts \union {0} : q = ItemAmount(Head(message.items))
  BY ApplyItemContent
<1>4. InPass <=> app \notin {"ready", "clear", "sleep"}
  BY DEF InPass, Types, LoopTypes
<1>5. Invalidates(Head(message.items)) <=> q = 0
  BY <1>3 DEF Invalidates
<1>6. /\ table' = [table EXCEPT ![s] = IF q = 0 THEN Erase(@, p) ELSE Put(@, p, q)]
      /\ base' = IF (InPass /\ s = pass) /\ base = p /\ Invalidates(Head(message.items))
                 THEN Dangling ELSE base
      /\ disturbed' = IF InPass /\ s = pass THEN disturbed \union {p} ELSE disturbed
      /\ erased' = (erased \/ ((InPass /\ s = pass) /\ (\E x \in table[s] : x[1] = p) /\ q = 0))
  BY <1>1, <1>2, <1>3, <1>4 DEF ApplyItem
<1>7. table \in [Sides -> SUBSET (Prices \X Amounts)]
  BY DEF Types, LoopTypes
<1>8. /\ \A z \in Sides \ {s} : table'[z] = table[z]
      /\ table'[s] = IF q = 0 THEN Erase(table[s], p) ELSE Put(table[s], p, q)
  BY <1>6, <1>7
<1> QED
  BY <1>5, <1>6, <1>8, ZenonT(40)

\* A level that is not disturbed stays; without an erasure there is still a level
\* at every price there was one, and the iterator is where it was.
LEMMA LevelsStay ==
  ASSUME Types, ChainInv, TableInv, OneEntry, IteratorInv, ApplyItem
  PROVE  /\ OneEntry'
         /\ InPass => \A x \in table[pass] : x[1] \notin disturbed' => x \in table'[pass]
         /\ (InPass /\ ~erased') =>
              /\ \A x \in table[pass] : \E y \in table'[pass] : y[1] = x[1]
              /\ base' = base
         /\ disturbed \subseteq disturbed' /\ (erased => erased')
         /\ (InPass /\ disturbed' = {}) => table'[pass] = table[pass] /\ base' = base
<1>1. PICK s \in Sides, p \in Prices, q \in Amounts \union {0} :
        /\ \A z \in Sides \ {s} : table'[z] = table[z]
        /\ table'[s] = IF q = 0 THEN Erase(table[s], p) ELSE Put(table[s], p, q)
        /\ base' = IF InPass /\ s = pass /\ base = p /\ q = 0 THEN Dangling ELSE base
        /\ disturbed' = IF InPass /\ s = pass THEN disturbed \union {p} ELSE disturbed
        /\ erased' = (erased \/ (InPass /\ s = pass /\ q = 0
                                 /\ \E x \in table[s] : x[1] = p))
  BY HubMoves
<1>2. PICK t : t = table[s]
  OBVIOUS
<1>3. PICK u : u = table'[s]
  OBVIOUS
<1>4. /\ \A x \in u : (x \in t /\ x[1] # p) \/ x = <<p, q>>
      /\ \A x \in t : x[1] # p => x \in u
      /\ q # 0 => <<p, q>> \in u
      /\ q = 0 => \A x \in u : x \in t /\ x[1] # p
  BY <1>1, <1>2, <1>3 DEF Erase, Put
<1>5. pass \in Sides
  BY DEF Types, LoopTypes
<1>6. OneEntry'
  <2>1. \A x, y \in u : x[1] = y[1] => x = y
    <3>1. \A x, y \in t : x[1] = y[1] => x = y
      BY <1>2 DEF OneEntry
    <3>2. <<p, q>>[1] = p
      OBVIOUS
    <3> QED
      BY <1>4, <3>1, <3>2
  <2>2. ASSUME NEW z \in Sides, NEW x \in table'[z], NEW y \in table'[z], x[1] = y[1]
        PROVE  x = y
    <3>1. CASE z = s
      BY <1>3, <2>1, <2>2, <3>1
    <3>2. CASE z # s
      BY <1>1, <2>2, <3>2 DEF OneEntry
    <3> QED
      BY <3>1, <3>2
  <2> QED
    BY <2>2 DEF OneEntry
<1>7. ASSUME InPass, NEW x \in table[pass], x[1] \notin disturbed' PROVE x \in table'[pass]
  <2>1. CASE s = pass
    BY <1>1, <1>2, <1>3, <1>4, <1>7, <2>1
  <2>2. CASE s # pass
    BY <1>1, <1>5, <2>2
  <2> QED
    BY <2>1, <2>2
<1>8. ASSUME InPass, ~erased'
      PROVE  /\ \A x \in table[pass] : \E y \in table'[pass] : y[1] = x[1]
             /\ base' = base
  <2>1. CASE s # pass
    BY <1>1, <1>5, <2>1
  <2>2. CASE s = pass /\ q # 0
    <3>1. ASSUME NEW x \in t PROVE \E y \in u : y[1] = x[1]
      <4>1. CASE x[1] = p
        <5>1. <<p, q>> \in u /\ <<p, q>>[1] = p
          BY <1>4, <2>2
        <5> QED
          BY <4>1, <5>1
      <4>2. CASE x[1] # p
        BY <1>4, <4>2
      <4> QED
        BY <4>1, <4>2
    <3> QED
      BY <1>1, <1>2, <1>3, <2>2, <3>1
  <2>3. CASE s = pass /\ q = 0
    <3>1. ~erased /\ ~ \E x \in table[pass] : x[1] = p
      BY <1>1, <1>8, <2>3
    <3>2. base # p
      BY <1>1, <1>8, <3>1, EndIsAbove DEF IteratorInv
    <3>3. \A x \in t : x \in u
      BY <1>2, <1>4, <2>3, <3>1
    <3> QED
      BY <1>1, <1>2, <1>3, <2>3, <3>2, <3>3
  <2> QED
    BY <2>1, <2>2, <2>3
<1>9. (InPass /\ disturbed' = {}) => table'[pass] = table[pass] /\ base' = base
  BY <1>1, <1>5
<1> QED
  BY <1>1, <1>6, <1>7, <1>8, <1>9

LEMMA InitPass == Init => PassInv
<1> SUFFICES ASSUME Init PROVE PassInv
  OBVIOUS
<1>1. OneEntry
  BY DEF Init, OneEntry, EmptyTable
<1>2. ~InPass /\ app \notin {"first", "second", "step"} /\ app # "done" /\ ~wild /\ proc # "lost"
  BY DEF Init, InPass
<1> QED
  BY <1>1, <1>2 DEF PassInv, IteratorInv, SteadyInv

LEMMA HubKeepsPass ==
  ASSUME Types, ChainInv, TableInv, PassInv, ApplyItem
  PROVE  PassInv'
<1>1. /\ UNCHANGED <<proc, app, pass, price, sum, started, wild>>
      /\ InPass' = InPass
  BY DEF ApplyItem, InPass
<1>2. /\ OneEntry'
      /\ InPass => \A x \in table[pass] : x[1] \notin disturbed' => x \in table'[pass]
      /\ (InPass /\ ~erased') =>
           /\ \A x \in table[pass] : \E y \in table'[pass] : y[1] = x[1]
           /\ base' = base
      /\ disturbed \subseteq disturbed' /\ (erased => erased')
  BY LevelsStay DEF PassInv
<1>3. \A x : Steady(x)' => Steady(x)
  BY <1>1, <1>2 DEF Steady
<1>4. ASSUME InPass, ~erased', NEW x \in Below PROVE \E y \in Below' : y[1] = x[1]
  <2>1. x \in table[pass] /\ x[1] < base
    BY DEF Below
  <2>2. PICK y \in table'[pass] : y[1] = x[1]
    BY <1>2, <1>4, <2>1
  <2>3. y \in Below'
    BY <1>1, <1>2, <1>4, <2>1, <2>2 DEF Below
  <2> QED
    BY <2>2, <2>3
<1>5. IteratorInv'
  <2>1. (wild' \/ proc' = "lost") => erased'
    BY <1>1, <1>2 DEF PassInv, IteratorInv
  <2>2. (InPass' /\ ~erased') => base' = End \/ \E x \in table'[pass'] : x[1] = base'
    <3> SUFFICES ASSUME InPass, ~erased', base # End
                 PROVE  \E x \in table'[pass] : x[1] = base
      BY <1>1, <1>2
    <3>1. PICK x \in table[pass] : x[1] = base
      BY <1>2 DEF PassInv, IteratorInv
    <3> QED
      BY <1>2, <3>1
  <2>3. (app' \in {"first", "second", "step"} /\ ~erased') => Below' # {}
    <3> SUFFICES ASSUME app \in {"first", "second", "step"}, ~erased' PROVE Below' # {}
      BY <1>1
    <3>1. PICK x : x \in Below
      BY <1>2 DEF PassInv, IteratorInv
    <3> QED
      BY <1>4, <3>1 DEF InPass
  <2> QED
    BY <2>1, <2>2, <2>3 DEF IteratorInv
<1>6. SteadyInv'
  <2>1. InPass' => \A x \in started' : Steady(x)' => x \in table'[pass']
    <3> SUFFICES ASSUME InPass, NEW x \in started, Steady(x)' PROVE x \in table'[pass]
      BY <1>1
    <3>1. x \in table[pass] /\ x[1] \notin disturbed'
      BY <1>3 DEF PassInv, SteadyInv, Steady
    <3> QED
      BY <1>2, <3>1
  <2>2. (InPass' /\ ~erased') =>
          \A x \in started' : Steady(x)' /\ x[1] >= base' => x \in Range(sum'[pass'])
    BY <1>1, <1>2, <1>3 DEF PassInv, SteadyInv
  <2>3. (app' = "second" /\ ~erased') =>
          /\ \E y \in Below' : y[1] = price'
          /\ \A x \in started' : Steady(x)' /\ x[1] < base' => x[1] <= price'
    <3> SUFFICES ASSUME app = "second", ~erased'
                 PROVE  /\ \E y \in Below' : y[1] = price
                        /\ \A x \in started : Steady(x)' /\ x[1] < base' => x[1] <= price
      BY <1>1
    <3>1. InPass /\ base' = base /\ ~erased
      BY <1>2 DEF InPass
    <3>2. /\ \E y \in Below : y[1] = price
          /\ \A x \in started : Steady(x) /\ x[1] < base => x[1] <= price
      BY <3>1 DEF PassInv, SteadyInv
    <3>3. \E y \in Below' : y[1] = price
      BY <1>4, <3>1, <3>2
    <3> QED
      BY <1>3, <3>1, <3>2, <3>3
  <2>4. (app' = "step" /\ ~erased') =>
          \A x \in started' : Steady(x)' /\ x[1] < base' =>
            x[1] <= price' /\ (x \in Range(sum'[pass']) \/ \E y \in Below' : y[1] > x[1])
    <3> SUFFICES ASSUME app = "step", ~erased', NEW x \in started, Steady(x)', x[1] < base'
                 PROVE  x[1] <= price /\ (x \in Range(sum[pass]) \/ \E y \in Below' : y[1] > x[1])
      BY <1>1
    <3>1. InPass /\ base' = base /\ ~erased /\ Steady(x)
      BY <1>2, <1>3 DEF InPass
    <3>2. x[1] <= price /\ (x \in Range(sum[pass]) \/ \E y \in Below : y[1] > x[1])
      BY <3>1 DEF PassInv, SteadyInv
    <3>3. ASSUME NEW y \in Below, y[1] > x[1] PROVE \E z \in Below' : z[1] > x[1]
      BY <1>4, <3>1, <3>3
    <3> QED
      BY <3>2, <3>3
  <2>5. (app' = "done" /\ ~erased') =>
          \A x \in started' : Steady(x)' /\ x[1] > price' => x \in Range(sum'[pass'])
    BY <1>1, <1>2, <1>3 DEF PassInv, SteadyInv
  <2> QED
    BY <2>1, <2>2, <2>3, <2>4, <2>5 DEF SteadyInv
<1> QED
  BY <1>2, <1>5, <1>6 DEF PassInv

\* Steps that leave the pass alone.
LEMMA PassStays ==
  ASSUME PassInv, UNCHANGED <<table, app, loopVars, passVars>>,
         proc' = "lost" => proc = "lost"
  PROVE  PassInv'
<1>1. UNCHANGED <<table, app, pass, base, price, sum, started, disturbed, erased, wild>>
  BY DEF loopVars, passVars
<1>2. OneEntry'
  BY <1>1 DEF PassInv, OneEntry
<1>3. InPass' = InPass /\ Below' = Below
  BY <1>1 DEF InPass, Below
<1>4. IteratorInv'
  BY <1>1, <1>3 DEF PassInv, IteratorInv
<1>5. SteadyInv'
  BY <1>1, <1>3 DEF PassInv, SteadyInv, Steady
<1> QED
  BY <1>2, <1>4, <1>5 DEF PassInv

\* Outside the loop there is nothing to keep but the map's entries.
LEMMA NoPass ==
  ASSUME PassInv, app' \in {"ready", "clear", "sleep"}, UNCHANGED <<passVars, proc>>,
         table' \in {table, EmptyTable}
  PROVE  PassInv'
<1>1. OneEntry'
  <2>1. \A s \in Sides : EmptyTable[s] = {}
    BY DEF EmptyTable
  <2> QED
    BY <2>1 DEF PassInv, OneEntry
<1>2. ~InPass' /\ app' \notin {"first", "second", "step", "done"}
  BY DEF InPass
<1>3. IteratorInv'
  BY <1>2 DEF PassInv, IteratorInv, passVars
<1>4. SteadyInv'
  BY <1>2 DEF SteadyInv
<1> QED
  BY <1>1, <1>3, <1>4 DEF PassInv

LEMMA BeginPass ==
  ASSUME Types, PassInv, NEW s \in Sides, Begin(s), UNCHANGED <<table, proc>>, proc = "up"
  PROVE  PassInv'
<1>1. /\ pass' = s /\ base' = End /\ app' = "check" /\ started' = table[s]
      /\ erased' = FALSE /\ wild' = FALSE /\ disturbed' = {}
  BY DEF Begin
<1>2. OneEntry'
  BY DEF PassInv, OneEntry
<1>3. IteratorInv'
  BY <1>1 DEF IteratorInv
<1>4. \A x \in started' : x \in table'[pass'] /\ ~(x[1] >= base')
  <2>1. table[s] \in SUBSET (Prices \X Amounts)
    BY DEF Types, LoopTypes
  <2>2. \A x \in table[s] : x[1] \in Prices
    BY <2>1
  <2> QED
    BY <1>1, <2>2, EndIsAbove
<1>5. SteadyInv'
  BY <1>1, <1>4 DEF SteadyInv
<1> QED
  BY <1>2, <1>3, <1>5 DEF PassInv

LEMMA CheckPass ==
  ASSUME Types, PassInv, Check
  PROVE  PassInv'
<1>1. /\ proc = "up" /\ app = "check" /\ InPass
      /\ app' = IF base # Dangling /\ Below = {} THEN "done" ELSE "first"
      /\ UNCHANGED <<proc, table, pass, base, price, sum, started, disturbed, erased, wild>>
  BY DEF Check, InPass, loopStep, tableVars, loopVars, passVars
<1>2. OneEntry'
  BY <1>1 DEF PassInv, OneEntry
<1>3. InPass' /\ Below' = Below
  BY <1>1 DEF InPass, Below
<1>4. ~erased => base # Dangling
  BY <1>1, LevelTypes, EndIsAbove DEF PassInv, IteratorInv, Dangling
<1>5. IteratorInv'
  BY <1>1, <1>3, <1>4 DEF PassInv, IteratorInv
<1>6. SteadyInv'
  <2>1. \A x \in started : Steady(x) => x \in table[pass]
    BY <1>1 DEF PassInv, SteadyInv
  <2>2. ~erased => \A x \in started : Steady(x) /\ x[1] >= base => x \in Range(sum[pass])
    BY <1>1 DEF PassInv, SteadyInv
  <2>3. (~erased /\ app' = "done") =>
          \A x \in started : Steady(x) /\ x[1] > price => x \in Range(sum[pass])
    <3> SUFFICES ASSUME ~erased, app' = "done", NEW x \in started, Steady(x)
                 PROVE  x \in Range(sum[pass])
      OBVIOUS
    <3>1. Below = {}
      BY <1>1
    <3>2. x \in table[pass]
      BY <2>1
    <3>3. ~(x[1] < base)
      BY <3>1, <3>2 DEF Below
    <3>4. x[1] >= base
      BY <3>3, LevelTypes
    <3> QED
      BY <2>2, <3>4
  <2>4. \A x : Steady(x)' <=> Steady(x)
    BY <1>1 DEF Steady
  <2>5. app' # "second" /\ app' # "step"
    BY <1>1
  <2> QED
    BY <1>1, <2>1, <2>2, <2>3, <2>4, <2>5 DEF SteadyInv
<1> QED
  BY <1>2, <1>5, <1>6 DEF PassInv

\* Only an erasure leaves nothing to read.
LEMMA AstrayPass ==
  ASSUME Types, PassInv, app \in {"first", "second", "step"}, Below = {}, Astray,
         UNCHANGED table
  PROVE  PassInv'
<1>1. erased /\ InPass
  BY DEF PassInv, IteratorInv, InPass
<1>2. UNCHANGED <<table, pass, base, price, started, disturbed, erased>>
  BY DEF Astray
<1>3. OneEntry'
  BY <1>2 DEF PassInv, OneEntry
<1>4. IteratorInv'
  BY <1>1, <1>2 DEF IteratorInv
<1>5. SteadyInv'
  <2>1. \A x : Steady(x)' <=> Steady(x)
    BY <1>2 DEF Steady
  <2>2. \A x \in started : Steady(x) => x \in table[pass]
    BY <1>1 DEF PassInv, SteadyInv
  <2> QED
    BY <1>1, <1>2, <2>1, <2>2 DEF SteadyInv
<1> QED
  BY <1>3, <1>4, <1>5 DEF PassInv

LEMMA ReadFirstPass ==
  ASSUME Types, PassInv, ReadFirst
  PROVE  PassInv'
<1>1. app = "first" /\ proc = "up" /\ UNCHANGED table /\ InPass
  BY DEF ReadFirst, loopStep, tableVars, InPass
<1>2. CASE Below = {}
  <2>1. Astray
    BY <1>2 DEF ReadFirst
  <2> QED
    BY <1>1, <1>2, <2>1, AstrayPass
<1>3. CASE Below # {}
  <2>1. /\ app' = "second" /\ price' = Designated[1]
        /\ UNCHANGED <<proc, pass, base, sum, started, disturbed, erased, wild>>
    BY <1>3 DEF ReadFirst, passVars
  <2>2. Designated \in Below /\ \A y \in Below : y[1] <= Designated[1]
    BY <1>3, DesignatedIsHighest DEF Types
  <2>3. OneEntry'
    BY <1>1 DEF PassInv, OneEntry
  <2>4. InPass' /\ Below' = Below
    BY <1>1, <2>1 DEF InPass, Below
  <2>5. IteratorInv'
    BY <1>1, <1>3, <2>1, <2>4 DEF PassInv, IteratorInv
  <2>6. \A x : Steady(x)' <=> Steady(x)
    BY <2>1 DEF Steady
  <2>7. \A x \in started : Steady(x) => x \in table[pass]
    BY <1>1 DEF PassInv, SteadyInv
  <2>8. \A x \in started : Steady(x) /\ x[1] < base => x[1] <= price'
    BY <2>1, <2>2, <2>7 DEF Below
  <2>9. \E y \in Below' : y[1] = price'
    BY <2>1, <2>2, <2>4
  <2>10. ~erased => \A x \in started : Steady(x) /\ x[1] >= base => x \in Range(sum[pass])
    BY <1>1 DEF PassInv, SteadyInv
  <2>11. SteadyInv'
    BY <1>1, <2>1, <2>6, <2>7, <2>8, <2>9, <2>10 DEF SteadyInv
  <2> QED
    BY <2>3, <2>5, <2>11 DEF PassInv
<1> QED
  BY <1>2, <1>3

\* What is in a sum stays in it.
LEMMA SumKeeps ==
  ASSUME Types, NEW x \in Summands, sum' = [sum EXCEPT ![pass] = Append(@, x)]
  PROVE  /\ sum'[pass] = Append(sum[pass], x)
         /\ \A y \in Range(sum[pass]) : y \in Range(sum'[pass])
         /\ x \in Range(sum'[pass])
<1>1. pass \in Sides /\ sum \in [Sides -> Seq(Summands)]
  BY DEF Types, LoopTypes
<1>2. PICK v \in Seq(Summands) : v = sum[pass]
  BY <1>1
<1>3. PICK w : w = Append(v, x)
  OBVIOUS
<1>4. sum'[pass] = w
  BY <1>1, <1>2, <1>3
<1>5. /\ DOMAIN v = 1 .. Len(v) /\ Len(v) \in Nat /\ DOMAIN w = 1 .. Len(v) + 1
      /\ w[Len(v) + 1] = x
      /\ \A i \in 1 .. Len(v) : w[i] = v[i]
  BY <1>2, <1>3
<1>6. \A y \in Range(v) : y \in Range(w)
  <2> TAKE y \in Range(v)
  <2>1. PICK i \in DOMAIN v : v[i] = y
    BY DEF Range
  <2>2. i \in DOMAIN w /\ w[i] = y
    BY <1>5, <2>1
  <2> QED
    BY <2>2 DEF Range
<1>7. x \in Range(w)
  <2>1. Len(v) + 1 \in DOMAIN w
    BY <1>5
  <2> QED
    BY <1>5, <2>1 DEF Range
<1> QED
  BY <1>2, <1>3, <1>4, <1>6, <1>7

LEMMA ReadSecondPass ==
  ASSUME Types, PassInv, ReadSecond
  PROVE  PassInv'
<1>1. app = "second" /\ proc = "up" /\ UNCHANGED table /\ InPass
  BY DEF ReadSecond, loopStep, tableVars, InPass
<1>2. CASE Below = {}
  <2>1. Astray
    BY <1>2 DEF ReadSecond
  <2> QED
    BY <1>1, <1>2, <2>1, AstrayPass
<1>3. CASE Below # {}
  <2>1. PICK d : d = Designated
    OBVIOUS
  <2>2. /\ app' = "step" /\ sum' = [sum EXCEPT ![pass] = Append(@, <<price, d[2]>>)]
        /\ UNCHANGED <<proc, pass, base, price, started, disturbed, erased, wild>>
    BY <1>3, <2>1 DEF ReadSecond, passVars
  <2>3. d \in Below /\ \A y \in Below : y[1] <= d[1]
    BY <1>3, <2>1, DesignatedIsHighest DEF Types
  <2>4. <<price, d[2]>> \in Summands
    <3>1. price \in Prices /\ d[2] \in Amounts
      BY <1>1, <2>3, LevelTypes DEF Types, LoopTypes
    <3> QED
      BY <3>1 DEF Summands
  <2>5. /\ \A y \in Range(sum[pass]) : y \in Range(sum'[pass])
        /\ <<price, d[2]>> \in Range(sum'[pass])
    BY <2>2, <2>4, SumKeeps
  <2>6. OneEntry'
    BY <1>1 DEF PassInv, OneEntry
  <2>7. InPass' /\ Below' = Below
    BY <1>1, <2>2 DEF InPass, Below
  <2>8. IteratorInv'
    BY <1>1, <1>3, <2>2, <2>7 DEF PassInv, IteratorInv
  <2>9. \A x : Steady(x)' <=> Steady(x)
    BY <2>2 DEF Steady
  <2>10. \A x \in started : Steady(x) => x \in table[pass]
    BY <1>1 DEF PassInv, SteadyInv
  <2>11. ~erased => \A x \in started : Steady(x) /\ x[1] >= base => x \in Range(sum'[pass])
    BY <1>1, <2>5 DEF PassInv, SteadyInv
  <2>12. ASSUME ~erased, NEW x \in started, Steady(x), x[1] < base
         PROVE  x[1] <= price /\ (x \in Range(sum'[pass]) \/ \E y \in Below : y[1] > x[1])
    <3>1. x[1] <= price
      BY <1>1, <2>12 DEF PassInv, SteadyInv
    <3>2. x \in Below
      BY <2>10, <2>12 DEF Below
    <3>3. PICK y \in Below : y[1] = price
      BY <1>1, <2>12 DEF PassInv, SteadyInv
    <3>4. x[1] <= d[1] /\ price <= d[1] /\ x[1] \in Nat /\ d[1] \in Nat /\ price \in Nat
      BY <2>3, <3>2, <3>3, LevelTypes
    <3>5. CASE x[1] = d[1]
      <4>1. x[1] = price
        BY <3>1, <3>4, <3>5
      <4>2. x = d
        <5>1. x \in table[pass] /\ d \in table[pass] /\ pass \in Sides
          BY <2>3, <3>2, LevelTypes
        <5> QED
          BY <3>5, <5>1 DEF PassInv, OneEntry
      <4>3. x = <<price, d[2]>>
        BY <4>1, <4>2, LevelTypes
      <4> QED
        BY <2>5, <3>1, <4>3
    <3>6. CASE x[1] # d[1]
      <4>1. d[1] > x[1]
        BY <3>4, <3>6
      <4> QED
        BY <2>3, <3>1, <4>1
    <3> QED
      BY <3>5, <3>6
  <2>13. SteadyInv'
    <3>1. (app' = "step" /\ ~erased') =>
            \A x \in started' : Steady(x)' /\ x[1] < base' =>
              x[1] <= price' /\ (x \in Range(sum'[pass']) \/ \E y \in Below' : y[1] > x[1])
      BY <2>2, <2>7, <2>9, <2>12
    <3> QED
      BY <1>1, <2>2, <2>7, <2>9, <2>10, <2>11, <3>1 DEF SteadyInv
  <2> QED
    BY <2>6, <2>8, <2>13 DEF PassInv
<1> QED
  BY <1>2, <1>3

LEMMA StepPass ==
  ASSUME Types, PassInv, Step
  PROVE  PassInv'
<1>1. app = "step" /\ proc = "up" /\ UNCHANGED table /\ InPass
  BY DEF Step, loopStep, tableVars, InPass
<1>2. OneEntry'
  BY <1>1 DEF PassInv, OneEntry
<1>3. \A x \in started : Steady(x) => x \in table[pass]
  BY <1>1 DEF PassInv, SteadyInv
<1>4. ~erased => \A x \in started : Steady(x) /\ x[1] >= base => x \in Range(sum[pass])
  BY <1>1 DEF PassInv, SteadyInv
<1>5. ~erased => \A x \in started : Steady(x) /\ x[1] < base =>
        x[1] <= price /\ (x \in Range(sum[pass]) \/ \E y \in Below : y[1] > x[1])
  BY <1>1 DEF PassInv, SteadyInv
<1>6. CASE Enough /\ app' = "done" /\ UNCHANGED <<proc, loopVars, passVars>>
  <2>1. UNCHANGED <<proc, pass, base, price, sum, started, disturbed, erased, wild>>
    BY <1>6 DEF loopVars, passVars
  <2>2. InPass' /\ Below' = Below
    BY <1>1, <1>6, <2>1 DEF InPass, Below
  <2>3. IteratorInv'
    BY <1>1, <1>6, <2>1, <2>2 DEF PassInv, IteratorInv
  <2>4. \A x : Steady(x)' <=> Steady(x)
    BY <2>1 DEF Steady
  <2>5. ~erased => \A x \in started : Steady(x) /\ x[1] > price => x \in Range(sum[pass])
    <3> SUFFICES ASSUME ~erased, NEW x \in started, Steady(x), x[1] > price
                 PROVE  x \in Range(sum[pass])
      OBVIOUS
    <3>1. x[1] \in Nat /\ base \in Nat /\ price \in Nat
      BY LevelTypes
    <3>2. ~(x[1] <= price)
      BY <3>1
    <3>3. x[1] >= base
      BY <1>5, <3>1, <3>2
    <3> QED
      BY <1>4, <3>3
  <2>6. SteadyInv'
    BY <1>1, <1>3, <1>4, <1>6, <2>1, <2>4, <2>5 DEF SteadyInv
  <2> QED
    BY <1>2, <2>3, <2>6 DEF PassInv
<1>7. CASE ~Enough /\ Below = {}
  <2>1. Astray
    BY <1>7 DEF Step
  <2> QED
    BY <1>1, <1>7, <2>1, AstrayPass
<1>8. CASE ~Enough /\ Below # {}
  <2>1. PICK d : d = Designated
    OBVIOUS
  <2>2. /\ app' = "check" /\ base' = d[1]
        /\ UNCHANGED <<proc, pass, price, sum, started, disturbed, erased, wild>>
    BY <1>8, <2>1 DEF Step, passVars
  <2>3. d \in Below /\ \A y \in Below : y[1] <= d[1]
    BY <1>8, <2>1, DesignatedIsHighest DEF Types
  <2>4. IteratorInv'
    <3>1. d \in table'[pass']
      BY <1>1, <2>2, <2>3, LevelTypes
    <3> QED
      BY <1>1, <2>2, <3>1 DEF PassInv, IteratorInv
  <2>5. \A x : Steady(x)' <=> Steady(x)
    BY <2>2 DEF Steady
  <2>6. ASSUME ~erased, NEW x \in started, Steady(x), x[1] >= d[1]
        PROVE  x \in Range(sum[pass])
    <3>1. x[1] \in Nat /\ base \in Nat /\ d[1] \in Nat /\ \A y \in Below : y[1] \in Nat
      BY <2>3, LevelTypes
    <3>2. CASE x[1] >= base
      BY <1>4, <2>6, <3>2
    <3>3. CASE x[1] < base
      <4>1. \A y \in Below : ~(y[1] > x[1])
        BY <2>3, <2>6, <3>1
      <4> QED
        BY <1>5, <2>6, <3>3, <4>1
    <3> QED
      BY <3>1, <3>2, <3>3
  <2>7. SteadyInv'
    BY <1>1, <1>3, <2>2, <2>5, <2>6 DEF SteadyInv
  <2> QED
    BY <1>2, <2>4, <2>7 DEF PassInv
<1> QED
  BY <1>6, <1>7, <1>8 DEF Step

-----------------------------------------------------------------------------
\* A pass that nothing disturbs.

\* What a sum holds before a pass of the nth turn.
Before(n) == IF n = 1 THEN <<Junk>> ELSE <<>>

\* t lists the n levels at or above price b, downwards.
RunsDown(t, levels, n, b) ==
  /\ t \in Seq(levels) /\ Len(t) = n
  /\ \A i, j \in DOMAIN t : i < j => t[i][1] > t[j][1]
  /\ \A x \in levels : x \in Range(t) <=> x[1] >= b

\* The level about to be read, or just read, is the highest below the iterator.
NextDown ==
  /\ \E y \in Below : y[1] = price
  /\ \A y \in Below : y[1] <= price

TopInv ==
  /\ erased => disturbed # {}
  /\ app \in {"ready", "clear", "sleep"} => \A s \in Sides : sum[s] = Before(turns + 1)
  /\ InPass => /\ turns # 0
               /\ pass = "ask" => sum["bid"] = Before(turns)
  /\ (InPass /\ disturbed = {}) =>
       /\ table[pass] = started
       /\ turns = 1 => sum[pass] # <<>> /\ Head(sum[pass]) = Junk
       /\ app \in {"check", "first", "second"} => RunsDown(Added, started, count, base)
       /\ app \in {"second", "step"} => NextDown
       /\ app = "step" => RunsDown(Added, started, count + 1, price)
       /\ app = "done" => IsTopOf(Added, started, Depth)

LEMMA OneDown ==
  ASSUME NEW levels \in SUBSET (Prices \X Amounts), NEW t, NEW n \in Nat, NEW b \in Nat,
         RunsDown(t, levels, n, b), NEW d \in levels, d[1] < b,
         \A x \in levels : x[1] < b => x[1] <= d[1],
         \A x, y \in levels : x[1] = y[1] => x = y
  PROVE  RunsDown(Append(t, d), levels, n + 1, d[1])
<1>1. PICK w : w = Append(t, d)
  OBVIOUS
<1>2. t \in Seq(levels) /\ Len(t) = n
  BY DEF RunsDown
<1>3. /\ w \in Seq(levels) /\ Len(w) = n + 1 /\ DOMAIN w = 1 .. n + 1 /\ w[n + 1] = d
      /\ \A i \in 1 .. n : w[i] = t[i]
      /\ DOMAIN t = 1 .. n
  BY <1>1, <1>2
<1>4. \A x \in levels : x[1] \in Nat
  <2>1. \A x \in levels : x[1] \in Prices
    OBVIOUS
  <2> QED
    BY <2>1, EndIsAbove
<1>5. \A i \in 1 .. n : t[i] \in levels /\ t[i][1] >= b
  <2> TAKE i \in 1 .. n
  <2>1. t[i] \in levels /\ t[i] \in Range(t)
    BY <1>2, <1>3 DEF Range
  <2> QED
    BY <2>1 DEF RunsDown
<1>6. ASSUME NEW i \in DOMAIN w, NEW j \in DOMAIN w, i < j PROVE w[i][1] > w[j][1]
  <2>1. i \in 1 .. n
    BY <1>3, <1>6
  <2>2. CASE j = n + 1
    <3>1. w[i] = t[i] /\ t[i][1] >= b /\ t[i][1] \in Nat /\ d[1] \in Nat
      BY <1>3, <1>4, <1>5, <2>1
    <3> QED
      BY <1>3, <2>2, <3>1
  <2>3. CASE j \in 1 .. n
    BY <1>3, <1>6, <2>1, <2>3 DEF RunsDown
  <2> QED
    BY <1>3, <2>2, <2>3
<1>7. ASSUME NEW x \in levels PROVE x \in Range(w) <=> x[1] >= d[1]
  <2>1. ASSUME x \in Range(w) PROVE x[1] >= d[1]
    <3>1. PICK i \in DOMAIN w : w[i] = x
      BY <2>1 DEF Range
    <3>2. CASE i = n + 1
      BY <1>3, <1>4, <3>1, <3>2
    <3>3. CASE i \in 1 .. n
      <4>1. x[1] >= b /\ x[1] \in Nat /\ d[1] \in Nat
        BY <1>3, <1>4, <1>5, <3>1, <3>3
      <4> QED
        BY <4>1
    <3> QED
      BY <1>3, <3>2, <3>3
  <2>2. ASSUME x[1] >= d[1] PROVE x \in Range(w)
    <3>1. CASE x[1] >= b
      <4>1. x \in Range(t)
        BY <3>1 DEF RunsDown
      <4>2. PICK i \in DOMAIN t : t[i] = x
        BY <4>1 DEF Range
      <4>3. i \in DOMAIN w /\ w[i] = x
        BY <1>3, <4>2
      <4> QED
        BY <4>3 DEF Range
    <3>2. CASE x[1] < b
      <4>1. x[1] = d[1]
        BY <1>4, <2>2, <3>2
      <4>2. x = d /\ n + 1 \in DOMAIN w
        BY <1>3, <4>1
      <4> QED
        BY <1>3, <4>2 DEF Range
    <3> QED
      BY <1>4, <3>1, <3>2
  <2> QED
    BY <2>1, <2>2
<1> QED
  BY <1>1, <1>3, <1>6, <1>7 DEF RunsDown

LEMMA TopReached ==
  ASSUME NEW levels \in SUBSET (Prices \X Amounts), NEW t, NEW n \in Nat, NEW b \in Nat,
         RunsDown(t, levels, n, b), n <= Depth, n = Depth \/ \A x \in levels : x[1] >= b
  PROVE  IsTopOf(t, levels, Depth)
<1>1. t \in Seq(levels) /\ Len(t) = n
  BY DEF RunsDown
<1>2. \A x \in levels : x[1] \in Nat
  <2>1. \A x \in levels : x[1] \in Prices
    OBVIOUS
  <2> QED
    BY <2>1, EndIsAbove
<1>3. \A i \in DOMAIN t : t[i] \in levels /\ t[i] \in Range(t)
  BY <1>1 DEF Range
<1>4. Range(t) \subseteq levels
  BY <1>1 DEF Range
<1>5. ASSUME NEW x \in levels \ Range(t)
      PROVE  Len(t) = Depth /\ \A i \in DOMAIN t : t[i][1] > x[1]
  <2>1. ~(x[1] >= b) /\ x[1] \in Nat
    BY <1>2 DEF RunsDown
  <2>2. \A i \in DOMAIN t : t[i][1] >= b /\ t[i][1] \in Nat
    BY <1>2, <1>3 DEF RunsDown
  <2> QED
    BY <1>1, <2>1, <2>2
<1> QED
  BY <1>1, <1>4, <1>5 DEF IsTopOf, RunsDown

\* Adding to a sum adds to what the pass has added.
LEMMA AddedGrows ==
  ASSUME Types, NEW x \in Summands, sum' = [sum EXCEPT ![pass] = Append(@, x)],
         UNCHANGED <<turns, pass>>, turns = 1 => sum[pass] # <<>>
  PROVE  /\ Added' = Append(Added, x)
         /\ turns = 1 => sum'[pass] # <<>> /\ Head(sum'[pass]) = Head(sum[pass])
<1>1. pass \in Sides /\ sum \in [Sides -> Seq(Summands)]
  BY DEF Types, LoopTypes
<1>2. PICK v \in Seq(Summands) : v = sum[pass]
  BY <1>1
<1>3. PICK w \in Seq(Summands) : w = Append(v, x)
  BY <1>2, AppendProperties
<1>4. sum'[pass] = w /\ sum'[pass'] = w
  BY <1>1, <1>2, <1>3
<1>5. w # <<>>
  BY <1>3
<1>6. CASE turns = 1
  <2>1. v # <<>>
    BY <1>2, <1>6
  <2>2. Head(w) = Head(v) /\ Tail(w) = Append(Tail(v), x)
    <3>1. /\ Len(v) \in Nat \ {0} /\ Len(w) = Len(v) + 1 /\ w[1] = v[1] /\ w[Len(v) + 1] = x
          /\ \A i \in 1 .. Len(v) : w[i] = v[i]
      BY <1>3, <2>1
    <3>2. Head(w) = w[1] /\ Head(v) = v[1]
      OBVIOUS
    <3>3. PICK a : a = Tail(w)
      OBVIOUS
    <3>4. PICK c : c = Append(Tail(v), x)
      OBVIOUS
    <3>5. Tail(v) \in Seq(Summands) /\ Len(Tail(v)) = Len(v) - 1
      BY <2>1
    <3>6. a \in Seq(Summands) /\ Len(a) = Len(v) /\ \A i \in 1 .. Len(v) : a[i] = w[i + 1]
      BY <1>5, <3>1, <3>3
    <3>7. c \in Seq(Summands) /\ Len(c) = Len(v) /\ c[Len(v)] = x
      BY <3>1, <3>4, <3>5
    <3>8. \A i \in 1 .. Len(v) - 1 : c[i] = Tail(v)[i]
      BY <3>1, <3>4, <3>5
    <3>9. \A i \in 1 .. Len(v) - 1 : Tail(v)[i] = v[i + 1]
      BY <2>1, <3>1
    <3>10. \A i \in 1 .. Len(v) : a[i] = c[i]
      <4> TAKE i \in 1 .. Len(v)
      <4>1. CASE i = Len(v)
        BY <3>1, <3>6, <3>7, <4>1
      <4>2. CASE i \in 1 .. Len(v) - 1
        <5>1. i + 1 \in 1 .. Len(v)
          BY <3>1, <4>2
        <5> QED
          BY <3>1, <3>6, <3>8, <3>9, <4>2, <5>1
      <4> QED
        BY <3>1, <4>1, <4>2
    <3>11. a = c
      BY <3>6, <3>7, <3>10, SeqEqual
    <3> QED
      BY <3>1, <3>2, <3>3, <3>4, <3>11
  <2> QED
    BY <1>2, <1>4, <1>5, <1>6, <2>2 DEF Added
<1>7. CASE turns # 1
  <2>1. Added = v /\ Added' = w
    BY <1>2, <1>4, <1>7 DEF Added
  <2> QED
    BY <1>3, <1>7, <2>1
<1> QED
  BY <1>6, <1>7

LEMMA InitTop == Init => TopInv
BY DEF Init, TopInv, InPass, Before

LEMMA TopStays ==
  ASSUME TopInv, UNCHANGED <<table, app, loopVars, passVars>>
  PROVE  TopInv'
<1>1. UNCHANGED <<table, app, turns, pass, base, count, price, sum, started, disturbed,
                  erased, wild>>
  BY DEF loopVars, passVars
<1>2. InPass' = InPass /\ Below' = Below /\ Added' = Added
  BY <1>1 DEF InPass, Below, Added
<1>3. NextDown' = NextDown
  BY <1>1, <1>2 DEF NextDown
<1> QED
  BY <1>1, <1>2, <1>3 DEF TopInv

LEMMA HubKeepsTop ==
  ASSUME Types, ChainInv, TableInv, PassInv, TopInv, ApplyItem
  PROVE  TopInv'
<1>1. /\ UNCHANGED <<app, turns, pass, count, price, sum, started>>
      /\ InPass' = InPass
  BY DEF ApplyItem, InPass
<1>2. /\ disturbed \subseteq disturbed' /\ (erased => erased')
      /\ (InPass /\ disturbed' = {}) => table'[pass] = table[pass] /\ base' = base
  BY LevelsStay DEF PassInv
<1>3. erased' => disturbed' # {}
  <2>1. PICK s \in Sides, p \in Prices, q \in Amounts \union {0} :
          /\ disturbed' = IF InPass /\ s = pass THEN disturbed \union {p} ELSE disturbed
          /\ erased' = (erased \/ (InPass /\ s = pass /\ q = 0
                                   /\ \E x \in table[s] : x[1] = p))
    BY HubMoves
  <2> QED
    BY <1>2, <2>1 DEF TopInv
<1>4. (InPass /\ disturbed' = {}) =>
        /\ disturbed = {} /\ Below' = Below
        /\ table'[pass] = table[pass] /\ base' = base
  BY <1>1, <1>2 DEF Below
<1>5. Added' = Added
  BY <1>1 DEF Added
<1>6. (InPass /\ disturbed' = {}) => NextDown' = NextDown
  BY <1>1, <1>4 DEF NextDown
<1> QED
  BY <1>1, <1>3, <1>4, <1>5, <1>6 DEF TopInv

LEMMA NoPassTop ==
  ASSUME Types, TopInv, app = "ready" \/ app = "clear", app' \in {"ready", "clear", "sleep"},
         UNCHANGED <<loopVars, passVars>>
  PROVE  TopInv'
<1>1. ~InPass'
  BY DEF InPass
<1> QED
  BY <1>1 DEF TopInv, loopVars, passVars

LEMMA BeginTop ==
  ASSUME Types, NEW s \in Sides, Begin(s), UNCHANGED table, sum[s] = Before(turns'),
         turns' # 0, turns' \in Nat, UNCHANGED sum, s = "ask" => sum["bid"] = Before(turns')
  PROVE  TopInv'
<1>1. /\ pass' = s /\ base' = End /\ count' = 0 /\ app' = "check"
      /\ started' = table'[pass'] /\ disturbed' = {} /\ erased' = FALSE
  BY DEF Begin
<1>2. InPass' /\ sum'[pass'] = Before(turns')
  BY <1>1 DEF InPass
<1>3. Added' = <<>>
  <2>1. CASE turns' = 1
    <3>1. sum'[pass'] = <<Junk>>
      BY <1>2, <2>1 DEF Before
    <3>2. Tail(<<Junk>>) = <<>>
      OBVIOUS
    <3> QED
      BY <2>1, <3>1, <3>2 DEF Added
  <2>2. CASE turns' # 1
    BY <1>2, <2>2 DEF Before, Added
  <2> QED
    BY <2>1, <2>2
<1>4. turns' = 1 => sum'[pass'] # <<>> /\ Head(sum'[pass']) = Junk
  BY <1>2 DEF Before
<1>5. RunsDown(<<>>, started', 0, End)
  <2>1. \A x \in started' : ~(x[1] >= End)
    <3>1. started' \in SUBSET (Prices \X Amounts)
      BY <1>1 DEF Types, LoopTypes
    <3>2. \A x \in started' : x[1] \in Prices
      BY <3>1
    <3> QED
      BY <3>2, EndIsAbove
  <2>2. Range(<<>>) = {}
    BY DEF Range
  <2>3. <<>> \in Seq(started') /\ Len(<<>>) = 0 /\ DOMAIN <<>> = {}
    OBVIOUS
  <2> QED
    BY <2>1, <2>2, <2>3 DEF RunsDown
<1>6. (pass' = "ask") => sum'["bid"] = Before(turns')
  BY <1>1
<1> QED
  BY <1>1, <1>2, <1>3, <1>4, <1>5, <1>6 DEF TopInv

LEMMA WakeTop ==
  ASSUME Types, TopInv, Wake
  PROVE  TopInv'
<1>1. /\ Begin("ask") /\ turns' = turns + 1 /\ app = "sleep" /\ UNCHANGED <<table, sum>>
      /\ turns \in Nat
  BY DEF Wake, loopStep, tableVars, Types, LoopTypes
<1>2. \A s \in Sides : sum[s] = Before(turns')
  BY <1>1 DEF TopInv
<1> QED
  BY <1>1, <1>2, BeginTop DEF Sides

LEMMA CheckTop ==
  ASSUME Types, PassInv, TopInv, Check
  PROVE  TopInv'
<1>1. /\ app = "check" /\ InPass
      /\ app' = IF base # Dangling /\ Below = {} THEN "done" ELSE "first"
      /\ UNCHANGED <<table, turns, pass, base, count, price, sum, started, disturbed, erased>>
  BY DEF Check, InPass, loopStep, tableVars, loopVars, passVars
<1>2. InPass' /\ Below' = Below /\ Added' = Added
  BY <1>1 DEF InPass, Below, Added
<1>3. ASSUME disturbed = {}, app' = "done" PROVE IsTopOf(Added, started, Depth)
  <2>1. RunsDown(Added, started, count, base) /\ table[pass] = started
    BY <1>1, <1>3 DEF TopInv
  <2>2. \A x \in started : x[1] >= base
    <3>1. Below = {}
      BY <1>1, <1>3
    <3>2. \A x \in started : ~(x[1] < base)
      BY <2>1, <3>1 DEF Below
    <3> QED
      BY <3>2, LevelTypes
  <2>3. count \in Nat /\ count <= Depth /\ base \in Nat /\ started \in SUBSET (Prices \X Amounts)
    BY LevelTypes, DepthAssumption DEF Types, LoopTypes
  <2> QED
    BY <2>1, <2>2, <2>3, TopReached
<1> QED
  BY <1>1, <1>2, <1>3 DEF TopInv

LEMMA AstrayTop ==
  ASSUME Types, PassInv, TopInv, app \in {"first", "second", "step"}, Below = {}, Astray,
         UNCHANGED table
  PROVE  TopInv'
<1>1. erased /\ InPass /\ disturbed # {}
  BY DEF PassInv, IteratorInv, TopInv, InPass
<1>2. UNCHANGED <<turns, pass, disturbed, erased>> /\ app' \in {app, "done"}
  BY DEF Astray
<1>3. pass = "ask" => sum'["bid"] = sum["bid"]
  <2>1. sum \in [Sides -> Seq(Summands)]
    BY DEF Types, LoopTypes
  <2> QED
    BY <2>1 DEF Astray, Sides
<1>4. InPass' /\ app' \notin {"ready", "clear", "sleep"}
  BY <1>1, <1>2 DEF InPass
<1> QED
  BY <1>1, <1>2, <1>3, <1>4 DEF TopInv

LEMMA ReadFirstTop ==
  ASSUME Types, PassInv, TopInv, ReadFirst
  PROVE  TopInv'
<1>1. app = "first" /\ UNCHANGED table /\ InPass
  BY DEF ReadFirst, loopStep, tableVars, InPass
<1>2. CASE Below = {}
  <2>1. Astray
    BY <1>2 DEF ReadFirst
  <2> QED
    BY <1>1, <1>2, <2>1, AstrayTop
<1>3. CASE Below # {}
  <2>1. /\ app' = "second" /\ price' = Designated[1]
        /\ UNCHANGED <<turns, pass, base, count, sum, started, disturbed, erased>>
    BY <1>3 DEF ReadFirst, passVars
  <2>2. Designated \in Below /\ \A y \in Below : y[1] <= Designated[1]
    BY <1>3, DesignatedIsHighest DEF Types
  <2>3. InPass' /\ Below' = Below /\ Added' = Added
    BY <1>1, <2>1 DEF InPass, Below, Added
  <2>4. NextDown'
    BY <2>1, <2>2, <2>3 DEF NextDown
  <2> QED
    BY <1>1, <2>1, <2>3, <2>4 DEF TopInv
<1> QED
  BY <1>2, <1>3

LEMMA ReadSecondTop ==
  ASSUME Types, PassInv, TopInv, ReadSecond
  PROVE  TopInv'
<1>1. app = "second" /\ UNCHANGED table /\ InPass
  BY DEF ReadSecond, loopStep, tableVars, InPass
<1>2. CASE Below = {}
  <2>1. Astray
    BY <1>2 DEF ReadSecond
  <2> QED
    BY <1>1, <1>2, <2>1, AstrayTop
<1>3. CASE Below # {}
  <2>1. PICK d : d = Designated
    OBVIOUS
  <2>2. /\ app' = "step" /\ sum' = [sum EXCEPT ![pass] = Append(@, <<price, d[2]>>)]
        /\ UNCHANGED <<turns, pass, base, count, price, started, disturbed, erased>>
    BY <1>3, <2>1 DEF ReadSecond, passVars
  <2>3. d \in Below /\ \A y \in Below : y[1] <= d[1]
    BY <1>3, <2>1, DesignatedIsHighest DEF Types
  <2>4. <<price, d[2]>> \in Summands
    <3>1. price \in Prices /\ d[2] \in Amounts
      BY <1>1, <2>3, LevelTypes DEF Types, LoopTypes
    <3> QED
      BY <3>1 DEF Summands
  <2>5. InPass' /\ Below' = Below
    BY <1>1, <2>2 DEF InPass, Below
  <2>6. pass = "ask" => sum'["bid"] = sum["bid"]
    <3>1. sum \in [Sides -> Seq(Summands)]
      BY DEF Types, LoopTypes
    <3> QED
      BY <2>2, <3>1 DEF Sides
  <2>7. ASSUME disturbed = {}
        PROVE  /\ table[pass] = started
               /\ turns = 1 => sum'[pass] # <<>> /\ Head(sum'[pass]) = Junk
               /\ NextDown'
               /\ RunsDown(Added', started, count + 1, price)
    <3>1. /\ table[pass] = started /\ RunsDown(Added, started, count, base) /\ NextDown
          /\ turns = 1 => sum[pass] # <<>> /\ Head(sum[pass]) = Junk
      BY <1>1, <2>7 DEF TopInv
    <3>2. /\ Added' = Append(Added, <<price, d[2]>>)
          /\ turns = 1 => sum'[pass] # <<>> /\ Head(sum'[pass]) = Head(sum[pass])
      BY <2>2, <2>4, <3>1, AddedGrows
    <3>3. d[1] = price
      <4>1. PICK y \in Below : y[1] = price
        BY <3>1 DEF NextDown
      <4>2. d[1] <= price /\ price <= d[1] /\ d[1] \in Nat /\ price \in Nat
        BY <2>3, <3>1, <4>1, LevelTypes DEF NextDown
      <4> QED
        BY <4>2
    <3>4. d = <<price, d[2]>>
      BY <2>3, <3>3, LevelTypes
    <3>5. NextDown'
      BY <2>2, <2>5, <3>1 DEF NextDown
    <3>6. RunsDown(Append(Added, d), started, count + 1, d[1])
      <4>1. /\ started \in SUBSET (Prices \X Amounts) /\ count \in Nat /\ base \in Nat
            /\ d \in started /\ d[1] < base
        BY <2>3, <3>1, LevelTypes DEF Types, LoopTypes
      <4>2. \A x \in started : x[1] < base => x[1] <= d[1]
        BY <2>3, <3>1 DEF Below
      <4>3. \A x, y \in started : x[1] = y[1] => x = y
        BY <3>1, LevelTypes DEF PassInv, OneEntry
      <4> QED
        BY <3>1, <4>1, <4>2, <4>3, OneDown
    <3> QED
      BY <3>1, <3>2, <3>3, <3>4, <3>5, <3>6
  <2> QED
    BY <1>1, <2>2, <2>5, <2>6, <2>7 DEF TopInv
<1> QED
  BY <1>2, <1>3

LEMMA StepTop ==
  ASSUME Types, PassInv, TopInv, Step
  PROVE  TopInv'
<1>1. app = "step" /\ UNCHANGED table /\ InPass
  BY DEF Step, loopStep, tableVars, InPass
<1>2. disturbed = {} =>
        /\ table[pass] = started /\ NextDown /\ RunsDown(Added, started, count + 1, price)
        /\ turns = 1 => sum[pass] # <<>> /\ Head(sum[pass]) = Junk
  BY <1>1 DEF TopInv
<1>3. /\ count \in Nat /\ count <= Depth - 1 /\ price \in Nat /\ Depth \in Nat
      /\ started \in SUBSET (Prices \X Amounts)
  BY DepthAssumption DEF Types, LoopTypes
<1>4. CASE Enough /\ app' = "done" /\ UNCHANGED <<proc, loopVars, passVars>>
  <2>1. UNCHANGED <<turns, pass, base, count, price, sum, started, disturbed, erased>>
    BY <1>4 DEF loopVars, passVars
  <2>2. InPass' /\ Added' = Added
    BY <1>1, <1>4, <2>1 DEF InPass, Added
  <2>3. disturbed = {} => IsTopOf(Added, started, Depth)
    <3>1. count + 1 = Depth /\ count + 1 \in Nat
      BY <1>3, <1>4 DEF Enough
    <3> QED
      BY <1>2, <1>3, <3>1, TopReached
  <2> QED
    BY <1>1, <1>2, <1>4, <2>1, <2>2, <2>3 DEF TopInv
<1>5. CASE ~Enough /\ Below = {}
  <2>1. Astray
    BY <1>5 DEF Step
  <2> QED
    BY <1>1, <1>5, <2>1, AstrayTop
<1>6. CASE ~Enough /\ Below # {}
  <2>1. PICK d : d = Designated
    OBVIOUS
  <2>2. /\ app' = "check" /\ base' = d[1] /\ count' = count + 1
        /\ UNCHANGED <<turns, pass, price, sum, started, disturbed, erased>>
    BY <1>6, <2>1 DEF Step, passVars
  <2>3. d \in Below /\ \A y \in Below : y[1] <= d[1]
    BY <1>6, <2>1, DesignatedIsHighest DEF Types
  <2>4. InPass' /\ Added' = Added
    BY <1>1, <2>2 DEF InPass, Added
  <2>5. disturbed = {} => d[1] = price
    <3> SUFFICES ASSUME disturbed = {} PROVE d[1] = price
      OBVIOUS
    <3>1. PICK y \in Below : y[1] = price
      BY <1>2 DEF NextDown
    <3>2. d[1] <= price /\ price <= d[1] /\ d[1] \in Nat /\ price \in Nat
      BY <1>2, <2>3, <3>1, LevelTypes DEF NextDown
    <3> QED
      BY <3>2
  <2> QED
    BY <1>1, <1>2, <2>2, <2>4, <2>5 DEF TopInv
<1> QED
  BY <1>4, <1>5, <1>6 DEF Step

LEMMA PassEndsTop ==
  ASSUME Types, TopInv, PassEnds
  PROVE  TopInv'
<1>1. app = "done" /\ UNCHANGED table /\ InPass /\ turns \in Nat /\ turns # 0
  BY DEF PassEnds, loopStep, tableVars, InPass, TopInv, Types, LoopTypes
<1>2. CASE pass = "ask" /\ Begin("bid") /\ UNCHANGED <<turns, sum>>
  <2>1. sum["bid"] = Before(turns')
    BY <1>1, <1>2 DEF TopInv
  <2> QED
    BY <1>1, <1>2, <2>1, BeginTop DEF Sides
<1>3. CASE /\ app' = "sleep" /\ sum' = [s \in Sides |-> <<>>]
           /\ UNCHANGED <<turns, pass, base, count, price, started, passVars>>
  <2>1. Before(turns' + 1) = <<>>
    BY <1>1, <1>3 DEF Before
  <2>2. ~InPass' /\ (erased' => disturbed' # {})
    BY <1>3 DEF InPass, TopInv, passVars
  <2> QED
    BY <1>3, <2>1, <2>2 DEF TopInv
<1> QED
  BY <1>2, <1>3 DEF PassEnds

-----------------------------------------------------------------------------
\* The pass, in every step.
Inv == BookInv /\ PassInv /\ TopInv

LEMMA InvStep == Inv /\ [Next]_vars => Inv'
<1> SUFFICES ASSUME Inv, [Next]_vars PROVE PassInv' /\ TopInv'
  BY BookStep, StutterStays DEF Inv
<1>1. CASE UNCHANGED vars
  <2>1. UNCHANGED <<table, app, loopVars, passVars>> /\ UNCHANGED proc
    BY <1>1 DEF vars, tableVars
  <2> QED
    BY <2>1, PassStays, TopStays DEF Inv
<1>2. CASE Next
  <2>1. proc = "up"
    BY <1>2 DEF Next, VenueAnswers, VenueChanges, Receive, ApplyItem, SubscribeDepth, Request,
           Wake, Check, ReadFirst, ReadSecond, Step, PassEnds
  <2>2. Types /\ ChainInv /\ TableInv /\ PassInv /\ TopInv
    BY <2>1 DEF Inv, BookInv, ContentInv
  <2>3. CASE VenueAnswers \/ VenueChanges \/ Receive
    <3>1. UNCHANGED <<table, app, loopVars, passVars>>
      BY <2>3 DEF VenueAnswers, VenueChanges, Receive, tableVars
    <3>2. proc' = "lost" => proc = "lost"
      BY <2>3 DEF VenueAnswers, VenueChanges, Receive
    <3> QED
      BY <2>2, <3>1, <3>2, PassStays, TopStays
  <2>4. CASE ApplyItem
    BY <2>2, <2>4, HubKeepsPass, HubKeepsTop
  <2>5. CASE SubscribeDepth \/ Request
    <3>1. /\ app = "ready" \/ app = "clear"
          /\ app' \in {"ready", "clear", "sleep"}
          /\ UNCHANGED <<loopVars, passVars, proc>>
          /\ table' \in {table, EmptyTable}
      BY <2>5 DEF SubscribeDepth, Request, Clear, tableVars
    <3> QED
      BY <2>2, <3>1, NoPass, NoPassTop
  <2>6. CASE Wake
    <3>1. Begin("ask") /\ UNCHANGED <<table, proc>>
      BY <2>6 DEF Wake, loopStep, tableVars
    <3> QED
      BY <2>1, <2>2, <2>6, <3>1, BeginPass, WakeTop DEF Sides
  <2>7. CASE Check
    BY <2>2, <2>7, CheckPass, CheckTop
  <2>8. CASE ReadFirst
    BY <2>2, <2>8, ReadFirstPass, ReadFirstTop
  <2>9. CASE ReadSecond
    BY <2>2, <2>9, ReadSecondPass, ReadSecondTop
  <2>10. CASE Step
    BY <2>2, <2>10, StepPass, StepTop
  <2>11. CASE PassEnds
    <3>1. UNCHANGED <<table, proc>>
      BY <2>11 DEF PassEnds, loopStep, tableVars
    <3>2. PassInv'
      <4>1. CASE Begin("bid")
        BY <2>1, <2>2, <3>1, <4>1, BeginPass DEF Sides
      <4>2. CASE app' = "sleep" /\ UNCHANGED passVars
        BY <2>2, <3>1, <4>2, NoPass
      <4> QED
        BY <2>11, <4>1, <4>2 DEF PassEnds
    <3> QED
      BY <2>2, <2>11, <3>2, PassEndsTop
  <2> QED
    BY <1>2, <2>3, <2>4, <2>5, <2>6, <2>7, <2>8, <2>9, <2>10, <2>11 DEF Next
<1> QED
  BY <1>1, <1>2

LEMMA Invariant == Spec => []Inv
<1>1. Init => Inv
  BY InitTypes, InitContent, InitPass, InitTop DEF Inv, BookInv
<1> QED
  BY <1>1, InvStep, PTL DEF Spec

\* Whatever is stored or inserted under bitfinexbook()'s reverse iterator, the
\* process dies and the sums go astray only if a level has been erased under it
\* (bitfinex.cpp), however many levels there are.
THEOREM ErasuresAlone == Spec => []OnlyErasingHarms
<1>1. Inv => OnlyErasingHarms
  BY DEF Inv, PassInv, IteratorInv, OnlyErasingHarms
<1> QED
  BY <1>1, Invariant, PTL

\* Without an erasure, a level that stands throughout a pass of bitfinexbook()
\* above the last price read is added up with its amount.
THEOREM SteadyAreCounted == Spec => []SteadyLevelsCounted
<1>1. Inv => SteadyLevelsCounted
  BY DEF Inv, PassInv, SteadyInv, Steady, SteadyLevelsCounted
<1> QED
  BY <1>1, Invariant, PTL

\* A pass of bitfinexbook() that nothing disturbs adds up the highest levels, from
\* the top, as many as the code means to, for any depth and any number of levels.
THEOREM UndisturbedIsTop == Spec => []UndisturbedPassIsTop
<1>1. Inv => UndisturbedPassIsTop
  BY DEF Inv, TopInv, InPass, UndisturbedPassIsTop
<1> QED
  BY <1>1, Invariant, PTL
=============================================================================
