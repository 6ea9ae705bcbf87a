------------------------- MODULE BinanceDepthProofs -------------------------
(***************************************************************************)
(* Theorems about BinanceDepth, for every bound: the local books follow    *)
(* the venue's except in the four ways that BookFollowsVenue names, and an *)
(* application that lets each call settle never has two streams.           *)
(***************************************************************************)
EXTENDS BinanceDepth, SequenceTheorems, FiniteSetTheorems, WellFoundedInduction, TLAPS

-----------------------------------------------------------------------------
\* The least number principle.
LEMMA LeastNumber ==
  ASSUME NEW T, T \subseteq Nat, T # {}
  PROVE  \E x \in T : \A y \in T : x <= y
<1>1. PICK x \in T : \A y \in T : ~ (<<y, x>> \in OpToRel(<, Nat))
  BY WFMin, NatLessThanWellFounded
<1>2. \A y \in T : ~ (y < x)
  BY <1>1 DEF OpToRel
<1> QED
  BY <1>2

\* A book does not change at a price that none of the changes i + 1 .. k
\* touches.
LEMMA UntouchedStays ==
  ASSUME NEW b, NEW p, NEW i \in Nat, NEW k \in Nat, i <= k,
         \A j \in i + 1 .. k : b[j][p] = b[j - 1][p]
  PROVE  b[k][p] = b[i][p]
<1> SUFFICES ASSUME b[k][p] # b[i][p] PROVE FALSE
  OBVIOUS
<1>1. PICK T : T = {j \in i .. k : b[j][p] # b[i][p]}
  OBVIOUS
<1>2. T \subseteq Nat /\ k \in T
  BY <1>1
<1>3. PICK x \in T : \A y \in T : x <= y
  BY <1>2, LeastNumber
<1>4. x \in i + 1 .. k /\ b[x][p] # b[i][p]
  BY <1>1, <1>3
<1>5. x - 1 \in i .. k /\ x - 1 \notin T
  BY <1>2, <1>3, <1>4
<1>6. b[x - 1][p] = b[i][p]
  BY <1>1, <1>5
<1> QED
  BY <1>4, <1>6
-----------------------------------------------------------------------------
\* Thread t, or the application thread, has still to store level p of s.
Owes(t, s, p) == handling[t] # Idle /\ handling[t].symbol = s /\ p \in left[t]
SnapshotOwes(s, p) == symbol = s /\ p \in unparsed

LEMMA WhoOwes ==
  ASSUME NEW s, NEW p
  PROVE  p \in ToBeStored(s) <=> SnapshotOwes(s, p) \/ \E t \in Threads : Owes(t, s, p)
BY DEF ToBeStored, BeingHandled, Owes, SnapshotOwes

\* The updates that the program holds are updates that the venue has made, and
\* a reply is there while it is parsed.
EventBounds ==
  \A t \in Threads :
    /\ left[t] # {} => handling[t] # Idle
    /\ handling[t] # Idle =>
         /\ handling[t].symbol \in Symbols
         /\ handling[t].U \in Nat \ {0} /\ handling[t].u \in Nat
         /\ handling[t].U <= handling[t].u
         /\ handling[t].u <= Latest(handling[t].symbol)
ReplyBounds ==
  /\ reply = "book" => snapshot \in 1 .. Latest(symbol)
  /\ unparsed # {} => reply = "book"
  /\ main \notin {"parse", "parse_id", "parse_levels"} => reply = "none" /\ unparsed = {}
  /\ main = "parse_id" => reply # "none"
  /\ main = "parse" /\ reply = "book" =>
       unparsed = {p \in Prices : Top(books[symbol][snapshot])[p] # 0}
  /\ main \in {"sub_check", "sub_kill", "request", "parse"} => ~sync[symbol].ok
Bounds ==
  /\ \A s \in Symbols : Latest(s) \in Nat \ {0}
  /\ EventBounds /\ ReplyBounds

\* What the book of s should show at price p, and the invariant: every level
\* shows it, or a thread will store it.
Shown(s, p) == IF p \in sync[s].seen THEN books[s][sync[s].at][p] ELSE 0
Follows(s) ==
  sync[s].ok =>
    /\ sync[s].at \in 1 .. Latest(s)
    /\ \A p \in Prices :
         /\ \A t \in Threads : Owes(t, s, p) => books[s][handling[t].u][p] = Shown(s, p)
         /\ SnapshotOwes(s, p) => books[s][snapshot][p] = Shown(s, p)
         /\ \/ table[s][p] = Shown(s, p)
            \/ SnapshotOwes(s, p)
            \/ \E t \in Threads : Owes(t, s, p)

BookInv == TypeOK /\ Bounds /\ \A s \in Symbols : Follows(s)

LEMMA EmptyType == Empty \in Books
  BY DEF Empty, Books

SyncType == [ok : BOOLEAN, at : Nat, seen : SUBSET Prices]
ThreadType == Rising \union {"none", "open", "gone"}

LEMMA NoSyncType == NoSync \in SyncType /\ NoSync.ok = FALSE
  BY DEF NoSync, SyncType

LEMMA InitBook == Init => BookInv
<1> SUFFICES ASSUME Init PROVE BookInv
  OBVIOUS
<1>1. PICK b : b = [p \in Prices |-> CHOOSE q \in Quantities : TRUE]
  OBVIOUS
<1>2. b \in Books
  BY <1>1, QuantitiesAssumption DEF Books
<1>3. books = [s \in Symbols |-> <<b>>]
  BY <1>1 DEF Init
<1>4. <<b>> \in Seq(Books) /\ Len(<<b>>) = 1
  BY <1>2
<1>5. books \in [Symbols -> Seq(Books)] /\ \A s \in Symbols : Latest(s) = 1
  BY <1>3, <1>4 DEF Latest
<1>6. /\ table \in [Symbols -> Books] /\ sync \in [Symbols -> SyncType]
      /\ \A s \in Symbols : sync[s].ok = FALSE
  BY EmptyType, NoSyncType DEF Init
<1>7. TypeOK
  <2>1. /\ thread \in [Threads -> ThreadType] /\ left \in [Threads -> SUBSET Prices]
        /\ handling \in [Threads -> Events \union {Idle}]
        /\ streams \in [Threads -> SUBSET Symbols]
        /\ sent \in [Threads -> [Symbols -> Nat]]
    BY DEF Init, ThreadType
  <2>2. /\ lastUpdateId \in [Symbols -> Nat]
        /\ \A s \in Symbols : lastUpdateId[s] <= Latest(s)
    BY <1>5 DEF Init
  <2>3. /\ listed \subseteq Symbols /\ ws \in Threads \union {0} /\ wsconn_state \in BOOLEAN
        /\ main \in MainStates /\ symbol \in Symbols /\ unparsed \subseteq Prices
        /\ reply \in {"none", "error", "book"} /\ snapshot \in Nat /\ calls \in Nat
        /\ proc \in {"up", "dead"}
    BY DEF Init, MainStates
  <2> QED
    BY <1>5, <1>6, <2>1, <2>2, <2>3 DEF TypeOK, SyncType, ThreadType
<1>8. Bounds
  BY <1>5, <1>6 DEF Init, Bounds, EventBounds, ReplyBounds
<1>9. \A s \in Symbols : Follows(s)
  BY <1>6 DEF Follows
<1> QED
  BY <1>7, <1>8, <1>9 DEF BookInv

\* The venue's new book is added to what its books have been.
LEMMA VenueAddsBook ==
  ASSUME TypeOK, Bounds, NEW s \in Symbols, VenueUpdates(s)
  PROVE  /\ books' \in [Symbols -> Seq(Books)]
         /\ \A o \in Symbols :
              /\ Len(books'[o]) \in Nat /\ Latest(o) <= Len(books'[o])
              /\ \A k \in 1 .. Latest(o) : books'[o][k] = books[o][k]
<1>1. PICK p \in Prices, q \in Quantities \union {0} :
        books' = [books EXCEPT ![s] = Append(@, [@[Latest(s)] EXCEPT ![p] = q])]
  BY DEF VenueUpdates
<1>2. PICK h : h = books[s]
  OBVIOUS
<1>3. h \in Seq(Books) /\ Len(h) = Latest(s) /\ Len(h) \in Nat \ {0}
  BY <1>2 DEF TypeOK, Bounds, Latest
<1>4. h[Len(h)] \in Books
  BY <1>3
<1>5. PICK c : c = [h[Len(h)] EXCEPT ![p] = q]
  OBVIOUS
<1>6. c \in Books
  BY <1>4, <1>5 DEF Books
<1>7. /\ Append(h, c) \in Seq(Books) /\ Len(Append(h, c)) = Len(h) + 1
      /\ \A k \in 1 .. Len(h) : Append(h, c)[k] = h[k]
  BY <1>3, <1>6, AppendProperties
<1>8. books' = [books EXCEPT ![s] = Append(h, c)]
  BY <1>1, <1>2, <1>3, <1>5
<1>9. books \in [Symbols -> Seq(Books)]
  BY DEF TypeOK
<1>10. books' \in [Symbols -> Seq(Books)]
  BY <1>7, <1>8, <1>9
<1>11. ASSUME NEW o \in Symbols
       PROVE  /\ Len(books'[o]) \in Nat /\ Latest(o) <= Len(books'[o])
              /\ \A k \in 1 .. Latest(o) : books'[o][k] = books[o][k]
  <2>1. CASE o = s
    BY <1>2, <1>3, <1>7, <1>8, <1>9, <2>1
  <2>2. CASE o # s
    <3>1. books'[o] = books[o] /\ books[o] \in Seq(Books)
      BY <1>8, <1>9, <2>2
    <3> QED
      BY <3>1 DEF Latest
  <2> QED
    BY <2>1, <2>2
<1> QED
  BY <1>10, <1>11

LEMMA VenueKeepsBook ==
  ASSUME BookInv, NEW s \in Symbols, VenueUpdates(s)
  PROVE  BookInv'
<1>1. /\ books' \in [Symbols -> Seq(Books)]
      /\ \A o \in Symbols :
           /\ Len(books'[o]) \in Nat /\ Latest(o) <= Len(books'[o])
           /\ \A k \in 1 .. Latest(o) : books'[o][k] = books[o][k]
  BY VenueAddsBook DEF BookInv
<1>2. UNCHANGED <<listed, table, lastUpdateId, sync, thread, streams, sent, handling, left,
                  ws, wsconn_state, main, symbol, reply, snapshot, unparsed, calls, proc>>
  BY DEF VenueUpdates, bookVars, hubVars, mainVars, replyVars
<1>4. \A o \in Symbols : Latest(o) \in Nat \ {0} /\ Latest(o)' \in Nat \ {0}
                         /\ Latest(o) <= Latest(o)'
  BY <1>1 DEF BookInv, Bounds, Latest
<1>3. TypeOK'
  <2>1. TypeOK
    BY DEF BookInv
  <2>2. \A o \in Symbols : lastUpdateId[o] \in Nat /\ lastUpdateId[o] <= Latest(o)
    BY <2>1 DEF TypeOK
  <2>3. \A o \in Symbols : lastUpdateId[o] <= Latest(o)'
    BY <1>4, <2>2
  <2> QED
    BY <1>1, <1>2, <2>1, <2>3 DEF TypeOK
<1>5. EventBounds'
  <2> SUFFICES ASSUME NEW t \in Threads, handling[t] # Idle
               PROVE  handling[t].u <= Latest(handling[t].symbol)'
    BY <1>2 DEF BookInv, Bounds, EventBounds
  <2>1. PICK e : e = handling[t]
    OBVIOUS
  <2>2. e.symbol \in Symbols /\ e.u \in Nat /\ e.u <= Latest(e.symbol)
    BY <2>1 DEF BookInv, Bounds, EventBounds
  <2>3. e.u <= Latest(e.symbol)'
    BY <1>4, <2>2
  <2> QED
    BY <1>2, <2>1, <2>3 DEF Latest
<1>6. ReplyBounds'
  <2>1. symbol \in Symbols
    BY DEF BookInv, TypeOK
  <2>2. Latest(symbol) \in Nat /\ Latest(symbol)' \in Nat /\ Latest(symbol) <= Latest(symbol)'
    BY <1>2, <1>4, <2>1 DEF Latest
  <2>3. reply = "book" => snapshot \in 1 .. Latest(symbol)
                          /\ books'[symbol][snapshot] = books[symbol][snapshot]
    BY <1>1, <2>1 DEF BookInv, Bounds, ReplyBounds
  <2>4. reply = "book" => snapshot \in 1 .. Latest(symbol)'
    BY <2>2, <2>3
  <2> QED
    BY <1>2, <2>3, <2>4 DEF BookInv, Bounds, ReplyBounds, Top, Better
<1>7. ASSUME NEW o \in Symbols PROVE Follows(o)'
  <2> SUFFICES ASSUME sync[o].ok
               PROVE  /\ sync[o].at \in 1 .. Latest(o)'
                      /\ \A p \in Prices :
                           /\ \A t \in Threads : Owes(t, o, p) =>
                                books'[o][handling[t].u][p] = Shown(o, p)'
                           /\ SnapshotOwes(o, p) => books'[o][snapshot][p] = Shown(o, p)'
                           /\ \/ table[o][p] = Shown(o, p)'
                              \/ SnapshotOwes(o, p)
                              \/ \E t \in Threads : Owes(t, o, p)
    BY <1>2 DEF Follows, Owes, SnapshotOwes
  <2>1. Follows(o) /\ sync[o].at \in 1 .. Latest(o)
    BY DEF BookInv, Follows
  <2>2. sync[o].at \in 1 .. Latest(o)'
    BY <1>4, <2>1
  <2>3. \A p \in Prices : Shown(o, p)' = Shown(o, p)
    BY <1>1, <1>2, <2>1 DEF Shown
  <2>4. ASSUME NEW t \in Threads, NEW p \in Prices, Owes(t, o, p)
        PROVE  books'[o][handling[t].u] = books[o][handling[t].u]
    <3>1. PICK u : u = handling[t].u
      OBVIOUS
    <3>2. u \in 1 .. Latest(o)
      <4>1. /\ handling[t].symbol = o /\ handling[t].U \in Nat \ {0} /\ handling[t].u \in Nat
            /\ handling[t].U <= handling[t].u /\ handling[t].u <= Latest(o)
        BY <2>4 DEF Owes, BookInv, Bounds, EventBounds
      <4> QED
        BY <1>4, <3>1, <4>1
    <3> QED
      BY <1>1, <3>1, <3>2
  <2>5. ASSUME NEW p \in Prices, SnapshotOwes(o, p)
        PROVE  books'[o][snapshot] = books[o][snapshot]
    BY <1>1, <2>5 DEF SnapshotOwes, BookInv, Bounds, ReplyBounds
  <2> QED
    BY <2>1, <2>2, <2>3, <2>4, <2>5 DEF Follows
<1> QED
  BY <1>3, <1>4, <1>5, <1>6, <1>7 DEF BookInv, Bounds

\* A step that leaves the book of s alone, what it should show and what is
\* still to be stored.
LEMMA AloneFollows ==
  ASSUME NEW s \in Symbols, Follows(s), UNCHANGED books,
         sync'[s] = sync[s], table'[s] = table[s],
         \A p \in Prices :
           /\ \A t \in Threads :
                /\ Owes(t, s, p)' <=> Owes(t, s, p)
                /\ Owes(t, s, p) => handling'[t] = handling[t]
           /\ SnapshotOwes(s, p)' <=> SnapshotOwes(s, p)
           /\ SnapshotOwes(s, p) => snapshot' = snapshot
  PROVE  Follows(s)'
<1>1. Latest(s)' = Latest(s)
  BY DEF Latest
<1>2. \A p \in Prices : Shown(s, p)' = Shown(s, p)
  BY DEF Shown
<1> QED
  BY <1>1, <1>2 DEF Follows

\* The steps that leave the books, the events being handled and the reply
\* alone.
LEMMA OtherKeepsBook ==
  ASSUME BookInv, TypeOK', ReplyBounds',
         UNCHANGED <<books, table, sync, handling, left>>,
         UNCHANGED <<symbol, snapshot, unparsed>> \/ (unparsed = {} /\ unparsed' = {})
  PROVE  BookInv'
<1>1. Bounds'
  BY DEF BookInv, Bounds, EventBounds, Latest
<1>2. ASSUME NEW s \in Symbols PROVE Follows(s)'
  <2>1. Follows(s)
    BY DEF BookInv
  <2>2. \A p \in Prices :
          /\ \A t \in Threads : Owes(t, s, p)' <=> Owes(t, s, p)
          /\ SnapshotOwes(s, p)' <=> SnapshotOwes(s, p)
          /\ SnapshotOwes(s, p) => snapshot' = snapshot
    BY DEF Owes, SnapshotOwes
  <2> QED
    BY <2>1, <2>2, AloneFollows
<1> QED
  BY <1>1, <1>2 DEF BookInv

\* A book of which nothing is said may be anything.
LEMMA ResetKeepsBook ==
  ASSUME BookInv, TypeOK', ReplyBounds', NEW s \in Symbols,
         UNCHANGED <<books, handling, left>>, ~sync'[s].ok,
         \A o \in Symbols \ {s} : sync'[o] = sync[o] /\ table'[o] = table[o],
         \A o \in Symbols \ {s}, p \in Prices : ~SnapshotOwes(o, p) /\ ~SnapshotOwes(o, p)'
  PROVE  BookInv'
<1>1. Bounds'
  BY DEF BookInv, Bounds, EventBounds, Latest
<1>2. ASSUME NEW o \in Symbols, o # s PROVE Follows(o)'
  <2>1. Follows(o) /\ sync'[o] = sync[o] /\ table'[o] = table[o]
    BY <1>2 DEF BookInv
  <2>2. \A p \in Prices :
          /\ \A t \in Threads : Owes(t, o, p)' <=> Owes(t, o, p)
          /\ ~SnapshotOwes(o, p) /\ ~SnapshotOwes(o, p)'
    BY <1>2 DEF Owes
  <2> QED
    BY <2>1, <2>2, AloneFollows
<1>3. Follows(s)'
  BY DEF Follows
<1> QED
  BY <1>1, <1>2, <1>3 DEF BookInv

LEMMA CallKeepsBook ==
  ASSUME BookInv, NEW s \in Symbols, SubscribeDepth(s) \/ CancelSubscribeDepth(s)
  PROVE  BookInv'
<1>1. /\ table' = [table EXCEPT ![s] = Empty] /\ sync' = [sync EXCEPT ![s] = NoSync]
      /\ main = "idle" /\ main' \in {"sub_check", "cancel_info"}
      /\ calls' = calls + 1 /\ symbol' = s
      /\ listed' \in {listed \union {s}, listed \ {s}}
  BY DEF SubscribeDepth, CancelSubscribeDepth, MayCall
<1>2. UNCHANGED <<books, lastUpdateId, thread, streams, sent, handling, left, ws,
                  wsconn_state, reply, snapshot, unparsed, proc>>
  BY DEF SubscribeDepth, CancelSubscribeDepth, venueVars, hubVars, replyVars
<1>3. reply = "none" /\ unparsed = {}
  BY <1>1 DEF BookInv, Bounds, ReplyBounds
<1>4. table \in [Symbols -> Books] /\ sync \in [Symbols -> SyncType]
  BY DEF BookInv, TypeOK, SyncType
<1>5. /\ table' \in [Symbols -> Books] /\ sync' \in [Symbols -> SyncType]
      /\ ~sync'[s].ok
      /\ \A o \in Symbols \ {s} : sync'[o] = sync[o] /\ table'[o] = table[o]
  BY <1>1, <1>4, EmptyType, NoSyncType
<1>6. \A o \in Symbols : Latest(o)' = Latest(o)
  BY <1>2 DEF Latest
<1>7. TypeOK'
  BY <1>1, <1>2, <1>5, <1>6 DEF BookInv, TypeOK, SyncType, MainStates
<1>8. ReplyBounds'
  BY <1>1, <1>2, <1>3, <1>5 DEF ReplyBounds
<1>9. \A o \in Symbols, p \in Prices : ~SnapshotOwes(o, p) /\ ~SnapshotOwes(o, p)'
  BY <1>2, <1>3 DEF SnapshotOwes
<1> QED
  BY <1>2, <1>5, <1>7, <1>8, <1>9, ResetKeepsBook

LEMMA FindStreamKeepsBook ==
  ASSUME BookInv, EraseDepthInfo \/ CheckConnState \/ Terminate
  PROVE  BookInv'
<1>1. /\ UNCHANGED <<books, listed, table, sync, streams, sent, handling, left, ws, symbol,
                     reply, snapshot, unparsed, calls>>
      /\ main' \in {"sub_kill", "request", "cancel_check", "cancel_kill", "restart"}
      /\ main \in {"sub_check", "sub_kill", "cancel_info", "cancel_check", "cancel_kill"}
      /\ main' \in {"sub_kill", "request"} => main \in {"sub_check", "sub_kill"}
  BY DEF EraseDepthInfo, CheckConnState, Terminate, AfterTerminate, venueVars, bookVars,
    hubVars, replyVars
<1>2. /\ thread' \in [Threads -> ThreadType]
      /\ wsconn_state' \in BOOLEAN /\ proc' \in {"up", "dead"}
  BY DEF EraseDepthInfo, CheckConnState, Terminate, WsIsOpen, BookInv, TypeOK, hubVars,
    ThreadType
<1>3. /\ symbol \in Symbols /\ lastUpdateId \in [Symbols -> Nat]
      /\ \A o \in Symbols : Latest(o) \in Nat /\ Latest(o)' = Latest(o)
                            /\ lastUpdateId[o] <= Latest(o)
  BY <1>1 DEF BookInv, TypeOK, Bounds, Latest
<1>4. lastUpdateId' \in {lastUpdateId, [lastUpdateId EXCEPT ![symbol] = 0]}
  BY DEF EraseDepthInfo, CheckConnState, Terminate, bookVars
<1>5. /\ lastUpdateId' \in [Symbols -> Nat]
      /\ \A o \in Symbols : lastUpdateId'[o] <= Latest(o)'
  BY <1>3, <1>4
<1>6. TypeOK'
  BY <1>1, <1>2, <1>5 DEF BookInv, TypeOK, MainStates, ThreadType
<1>7. ReplyBounds'
  BY <1>1 DEF BookInv, Bounds, ReplyBounds
<1>8. UNCHANGED <<books, table, sync, handling, left>> /\ UNCHANGED <<symbol, snapshot, unparsed>>
  BY <1>1
<1> QED
  BY <1>6, <1>7, <1>8, OtherKeepsBook

LEMMA RequestKeepsBook ==
  ASSUME BookInv, RequestSnapshot
  PROVE  BookInv'
<1>1. /\ UNCHANGED <<books, listed, table, lastUpdateId, sync, thread, streams, sent,
                     handling, left, ws, wsconn_state, symbol, calls, proc>>
      /\ main = "request" /\ main' = "parse"
  BY DEF RequestSnapshot, venueVars, bookVars, hubVars
<1>2. PICK s : s = symbol
  OBVIOUS
<1>3. s \in Symbols /\ Latest(s) \in Nat \ {0} /\ ~sync[s].ok
      /\ reply = "none" /\ unparsed = {}
  BY <1>1, <1>2 DEF BookInv, Bounds, ReplyBounds, TypeOK
<1>4. \/ reply' \in {"none", "error"} /\ UNCHANGED <<snapshot, unparsed>>
      \/ /\ reply' = "book" /\ snapshot' = Latest(s)
         /\ unparsed' = {p \in Prices : Top(books[s][Latest(s)])[p] # 0}
  BY <1>2 DEF RequestSnapshot
<1>5. \A o \in Symbols : Latest(o)' = Latest(o)
  BY <1>1 DEF Latest
<1>6. TypeOK'
  BY <1>1, <1>3, <1>4, <1>5 DEF BookInv, TypeOK, MainStates
<1>7. ReplyBounds'
  <2>1. reply' = "book" => unparsed' = {p \in Prices : Top(books[s][snapshot'])[p] # 0}
    BY <1>4
  <2>2. \A p \in Prices : (Top(books[symbol][snapshot])[p])' = Top(books[s][snapshot'])[p]
    BY <1>1, <1>2 DEF Top, Better
  <2> QED
    BY <1>1, <1>2, <1>3, <1>4, <1>5, <2>1, <2>2 DEF ReplyBounds
<1>8. \A o \in Symbols \ {s}, p \in Prices : ~SnapshotOwes(o, p) /\ ~SnapshotOwes(o, p)'
  BY <1>1, <1>2 DEF SnapshotOwes
<1> QED
  BY <1>1, <1>3, <1>6, <1>7, <1>8, ResetKeepsBook

\* The snapshot's levels and the rest of the book after the clear.
LEMMA ClearKeepsBook ==
  ASSUME BookInv, ParseClears
  PROVE  BookInv'
<1>1. /\ main = "parse" /\ main' = IF reply = "none" THEN "parse_levels" ELSE "parse_id"
      /\ listed' = listed \union {symbol}
      /\ UNCHANGED <<books, lastUpdateId, thread, streams, sent, handling, left, ws,
                     wsconn_state, symbol, reply, snapshot, unparsed, calls, proc>>
  BY DEF ParseClears, venueVars, hubVars, replyVars
<1>2. PICK s : s = symbol
  OBVIOUS
<1>3. PICK b : b = books[s][snapshot]
  OBVIOUS
<1>4. PICK y : y = IF reply = "book"
                     THEN [ok |-> BeingHandled(s) = {}, at |-> snapshot, seen |-> Covered(b)]
                     ELSE NoSync
  OBVIOUS
<1>5. table' = [table EXCEPT ![s] = Empty] /\ sync' = [sync EXCEPT ![s] = y]
  BY <1>2, <1>3, <1>4 DEF ParseClears
<1>6. /\ s \in Symbols /\ snapshot \in Nat /\ unparsed \subseteq Prices
      /\ \A o \in Symbols : Latest(o)' = Latest(o)
  BY <1>1, <1>2 DEF BookInv, TypeOK, Latest
<1>7. /\ y \in SyncType
      /\ y.ok => /\ BeingHandled(s) = {} /\ reply = "book"
                 /\ y.at = snapshot /\ y.seen = Covered(b)
  <2>1. CASE reply = "book"
    <3>1. PICK k : k = (BeingHandled(s) = {})
      OBVIOUS
    <3>2. k \in BOOLEAN /\ y = [ok |-> k, at |-> snapshot, seen |-> Covered(b)]
      BY <1>4, <2>1, <3>1
    <3> QED
      BY <1>6, <2>1, <3>1, <3>2 DEF SyncType, Covered
  <2>2. CASE reply # "book"
    BY <1>4, <2>2, NoSyncType
  <2> QED
    BY <2>1, <2>2
<1>8. table \in [Symbols -> Books] /\ sync \in [Symbols -> SyncType]
  BY DEF BookInv, TypeOK, SyncType
<1>9. /\ table' \in [Symbols -> Books] /\ sync' \in [Symbols -> SyncType]
      /\ sync'[s] = y /\ table'[s] = Empty
      /\ \A o \in Symbols \ {s} : sync'[o] = sync[o] /\ table'[o] = table[o]
  BY <1>5, <1>6, <1>7, <1>8, EmptyType
<1>10. TypeOK'
  BY <1>1, <1>2, <1>6, <1>9 DEF BookInv, TypeOK, SyncType, MainStates
<1>11. ReplyBounds'
  BY <1>1, <1>6 DEF BookInv, Bounds, ReplyBounds, TypeOK
<1>12. Bounds'
  BY <1>1, <1>6, <1>11 DEF BookInv, Bounds, EventBounds, Latest
<1>13. ASSUME NEW o \in Symbols, o # s PROVE Follows(o)'
  <2>1. Follows(o) /\ sync'[o] = sync[o] /\ table'[o] = table[o]
    BY <1>9, <1>13 DEF BookInv
  <2>2. \A p \in Prices :
          /\ \A t \in Threads : Owes(t, o, p)' <=> Owes(t, o, p)
          /\ SnapshotOwes(o, p)' <=> SnapshotOwes(o, p)
    BY <1>1 DEF Owes, SnapshotOwes
  <2> QED
    BY <1>1, <2>1, <2>2, AloneFollows
<1>14. Follows(s)'
  <2> SUFFICES ASSUME y.ok
               PROVE  /\ snapshot \in 1 .. Latest(s)
                      /\ \A p \in Prices :
                           /\ \A t \in Threads : ~Owes(t, s, p)
                           /\ SnapshotOwes(s, p) => b[p] = IF p \in Covered(b) THEN b[p] ELSE 0
                           /\ \/ 0 = IF p \in Covered(b) THEN b[p] ELSE 0
                              \/ SnapshotOwes(s, p)
    <3>1. (y.at = snapshot /\ y.seen = Covered(b)) \/ ~y.ok
      BY <1>7
    <3>2. /\ \A p \in Prices : table'[s][p] = 0
          /\ \A p \in Prices, t \in Threads : Owes(t, s, p)' <=> Owes(t, s, p)
          /\ \A p \in Prices : SnapshotOwes(s, p)' <=> SnapshotOwes(s, p)
          /\ UNCHANGED <<books, snapshot>> /\ sync'[s] = y
      BY <1>1, <1>9 DEF Owes, SnapshotOwes, Empty
    <3> QED
      BY <1>3, <1>6, <3>1, <3>2 DEF Follows, Shown
  <2>1. BeingHandled(s) = {} /\ reply = "book"
    BY <1>7
  <2>2. snapshot \in 1 .. Latest(s)
        /\ unparsed = {p \in Prices : Top(b)[p] # 0}
    BY <1>1, <1>2, <1>3, <2>1 DEF BookInv, Bounds, ReplyBounds
  <2>3. \A p \in Prices : Top(b)[p] = IF p \in Covered(b) THEN b[p] ELSE 0
    BY DEF Top, Covered
  <2>4. \A p \in Prices, t \in Threads : ~Owes(t, s, p)
    BY <2>1 DEF BeingHandled, Owes
  <2>5. \A p \in Prices : SnapshotOwes(s, p) <=> Top(b)[p] # 0
    BY <1>2, <2>2 DEF SnapshotOwes
  <2> QED
    BY <2>2, <2>3, <2>4, <2>5
<1> QED
  BY <1>10, <1>12, <1>13, <1>14 DEF BookInv

LEMMA IdKeepsBook ==
  ASSUME BookInv, ParseStoresId
  PROVE  BookInv'
<1>1. /\ UNCHANGED <<books, listed, table, sync, thread, streams, sent, handling, left, ws,
                     wsconn_state, symbol, reply, snapshot, unparsed, calls>>
      /\ main = "parse_id"
  BY DEF ParseStoresId, venueVars, hubVars, replyVars
<1>2. /\ symbol \in Symbols /\ lastUpdateId \in [Symbols -> Nat] /\ proc' \in {"up", "dead"}
      /\ \A o \in Symbols : Latest(o)' = Latest(o) /\ lastUpdateId[o] <= Latest(o)
  BY <1>1 DEF BookInv, TypeOK, Latest, ParseStoresId
<1>3. CASE reply = "error"
  <2>1. UNCHANGED <<main, lastUpdateId>>
    BY <1>3 DEF ParseStoresId
  <2>2. TypeOK'
    BY <1>1, <1>2, <2>1 DEF BookInv, TypeOK, MainStates
  <2>3. ReplyBounds'
    BY <1>1, <1>2, <2>1 DEF BookInv, Bounds, ReplyBounds
  <2>4. UNCHANGED <<books, table, sync, handling, left>> /\ UNCHANGED <<symbol, snapshot, unparsed>>
    BY <1>1
  <2> QED
    BY <2>2, <2>3, <2>4, OtherKeepsBook
<1>4. CASE reply # "error"
  <2>1. main' = "parse_levels" /\ lastUpdateId' = [lastUpdateId EXCEPT ![symbol] = snapshot]
    BY <1>4 DEF ParseStoresId
  <2>2. reply = "book" /\ snapshot \in 1 .. Latest(symbol)
    BY <1>1, <1>4 DEF BookInv, Bounds, ReplyBounds, TypeOK
  <2>3. /\ lastUpdateId' \in [Symbols -> Nat]
        /\ \A o \in Symbols : lastUpdateId'[o] <= Latest(o)
    BY <1>2, <2>1, <2>2 DEF BookInv, Bounds
  <2>4. TypeOK'
    BY <1>1, <1>2, <2>1, <2>3 DEF BookInv, TypeOK, MainStates
  <2>5. ReplyBounds'
    BY <1>1, <1>2, <2>1, <2>2 DEF ReplyBounds
  <2>6. UNCHANGED <<books, table, sync, handling, left>> /\ UNCHANGED <<symbol, snapshot, unparsed>>
    BY <1>1
  <2> QED
    BY <2>4, <2>5, <2>6, OtherKeepsBook
<1> QED
  BY <1>3, <1>4

\* Storing one level that is owed brings it to what the book should show.
LEMMA OneLevelKeepsFollows ==
  ASSUME NEW s \in Symbols, Follows(s), NEW p \in Prices, NEW u,
         table \in [Symbols -> Books],
         UNCHANGED books, sync'[s] = sync[s],
         table' = [table EXCEPT ![s][p] = books[s][u][p]],
         sync[s].ok => books[s][u][p] = Shown(s, p),
         \A q \in Prices :
           /\ \A t \in Threads :
                /\ Owes(t, s, q)' => Owes(t, s, q) /\ handling'[t] = handling[t]
                /\ q # p /\ Owes(t, s, q) => Owes(t, s, q)'
           /\ SnapshotOwes(s, q)' => SnapshotOwes(s, q) /\ snapshot' = snapshot
           /\ q # p /\ SnapshotOwes(s, q) => SnapshotOwes(s, q)'
  PROVE  Follows(s)'
<1> SUFFICES ASSUME sync[s].ok PROVE Follows(s)'
  BY DEF Follows
<1>1. table'[s][p] = books[s][u][p] /\ \A q \in Prices : q # p => table'[s][q] = table[s][q]
  BY DEF Books
<1>2. sync[s].at \in 1 .. Latest(s)
  BY DEF Follows
<1>3. ASSUME NEW q \in Prices, NEW t \in Threads, Owes(t, s, q)'
      PROVE  books[s][handling'[t].u][q] = Shown(s, q)
  BY <1>3 DEF Follows
<1>4. ASSUME NEW q \in Prices, SnapshotOwes(s, q)'
      PROVE  books[s][snapshot'][q] = Shown(s, q)
  BY <1>4 DEF Follows
<1>5. ASSUME NEW q \in Prices
      PROVE  \/ table'[s][q] = Shown(s, q)
             \/ SnapshotOwes(s, q)'
             \/ \E t \in Threads : Owes(t, s, q)'
  <2>1. CASE q = p
    BY <1>1, <2>1
  <2>2. CASE q # p
    BY <1>1, <2>2 DEF Follows
  <2> QED
    BY <2>1, <2>2
<1>6. Latest(s)' = Latest(s) /\ sync'[s].at = sync[s].at
  BY DEF Latest
<1>7. \A q \in Prices : Shown(s, q)' = Shown(s, q)
  BY DEF Shown
<1> QED
  BY <1>2, <1>3, <1>4, <1>5, <1>6, <1>7 DEF Follows

\* And the type of the table.
LEMMA OneLevelType ==
  ASSUME TypeOK, NEW s \in Symbols, NEW p \in Prices, NEW u \in 1 .. Latest(s),
         table' = [table EXCEPT ![s][p] = books[s][u][p]]
  PROVE  /\ table' \in [Symbols -> Books]
         /\ \A o \in Symbols \ {s} : table'[o] = table[o]
<1>1. table \in [Symbols -> Books] /\ books[s] \in Seq(Books) /\ u \in 1 .. Len(books[s])
  BY DEF TypeOK, Latest
<1>2. books[s][u] \in Books
  BY <1>1
<1>3. books[s][u][p] \in Quantities \union {0}
  BY <1>2 DEF Books
<1>4. PICK w : w = [table[s] EXCEPT ![p] = books[s][u][p]]
  OBVIOUS
<1>5. w \in Books
  BY <1>1, <1>3, <1>4 DEF Books
<1>6. table' = [table EXCEPT ![s] = w]
  BY <1>4
<1> QED
  BY <1>1, <1>5, <1>6

LEMMA LevelKeepsBook ==
  ASSUME BookInv, ParseStoresLevel
  PROVE  BookInv'
<1>1. /\ UNCHANGED <<books, lastUpdateId, sync, thread, streams, sent, handling, left, ws,
                     wsconn_state, main, symbol, reply, snapshot, calls, proc>>
      /\ main = "parse_levels" /\ listed' = listed \union {symbol}
  BY DEF ParseStoresLevel, venueVars, hubVars
<1>2. PICK p \in unparsed :
        /\ unparsed' = unparsed \ {p}
        /\ table' = [table EXCEPT ![symbol][p] = books[symbol][snapshot][p]]
  BY DEF ParseStoresLevel
<1>3. PICK s : s = symbol
  OBVIOUS
<1>4. s \in Symbols /\ p \in Prices /\ snapshot \in 1 .. Latest(s) /\ reply = "book"
  BY <1>2, <1>3 DEF BookInv, TypeOK, Bounds, ReplyBounds
<1>5. table' = [table EXCEPT ![s][p] = books[s][snapshot][p]]
  BY <1>2, <1>3
<1>6. /\ table' \in [Symbols -> Books]
      /\ \A o \in Symbols \ {s} : table'[o] = table[o]
  BY <1>4, <1>5, OneLevelType DEF BookInv
<1>7. \A o \in Symbols : Latest(o)' = Latest(o)
  BY <1>1 DEF Latest
<1>8. TypeOK'
  BY <1>1, <1>2, <1>3, <1>4, <1>6, <1>7 DEF BookInv, TypeOK, MainStates
<1>9. Bounds'
  BY <1>1, <1>2, <1>4, <1>7 DEF BookInv, Bounds, EventBounds, ReplyBounds, Latest
<1>10. ASSUME NEW o \in Symbols, o # s PROVE Follows(o)'
  <2>1. Follows(o) /\ sync'[o] = sync[o] /\ table'[o] = table[o]
    BY <1>1, <1>6, <1>10 DEF BookInv
  <2>2. \A q \in Prices :
          /\ \A t \in Threads : Owes(t, o, q)' <=> Owes(t, o, q)
          /\ ~SnapshotOwes(o, q) /\ ~SnapshotOwes(o, q)'
    BY <1>1, <1>3, <1>10 DEF Owes, SnapshotOwes
  <2> QED
    BY <1>1, <2>1, <2>2, AloneFollows
<1>11. Follows(s)'
  <2>1. Follows(s) /\ table \in [Symbols -> Books]
    BY <1>4 DEF BookInv, TypeOK
  <2>2. sync[s].ok => books[s][snapshot][p] = Shown(s, p)
    BY <1>2, <1>3, <1>4, <2>1 DEF Follows, SnapshotOwes
  <2>3. \A q \in Prices :
          /\ \A t \in Threads :
               /\ Owes(t, s, q)' => Owes(t, s, q) /\ handling'[t] = handling[t]
               /\ q # p /\ Owes(t, s, q) => Owes(t, s, q)'
          /\ SnapshotOwes(s, q)' => SnapshotOwes(s, q) /\ snapshot' = snapshot
          /\ q # p /\ SnapshotOwes(s, q) => SnapshotOwes(s, q)'
    BY <1>1, <1>2 DEF Owes, SnapshotOwes
  <2>4. UNCHANGED books /\ sync'[s] = sync[s]
    BY <1>1
  <2> QED
    BY <1>4, <1>5, <2>1, <2>2, <2>3, <2>4, OneLevelKeepsFollows
<1> QED
  BY <1>8, <1>9, <1>10, <1>11 DEF BookInv

\* Whichever thread start_stream takes.
LEMMA StartType ==
  ASSUME TypeOK, StartStream
  PROVE  thread' \in [Threads -> ThreadType]
  BY DEF TypeOK, StartStream, ThreadType, Rising

LEMMA RestartKeepsBook ==
  ASSUME BookInv, StartAfterSnapshot \/ Restart
  PROVE  BookInv'
<1>1. /\ UNCHANGED <<books, listed, table, lastUpdateId, sync, streams, sent, handling, left,
                     ws, wsconn_state, symbol, unparsed, calls, proc>>
      /\ main' = "idle"
  BY DEF StartAfterSnapshot, Restart, venueVars, bookVars, replyVars
<1>2. unparsed = {} /\ unparsed' = {} /\ reply' = "none" /\ snapshot' \in Nat
  BY DEF StartAfterSnapshot, Restart, replyVars, BookInv, Bounds, ReplyBounds, TypeOK
<1>3. thread' \in [Threads -> ThreadType]
  BY StartType DEF StartAfterSnapshot, Restart, BookInv, TypeOK, ThreadType
<1>4. \A o \in Symbols : Latest(o)' = Latest(o)
  BY <1>1 DEF Latest
<1>5. TypeOK'
  BY <1>1, <1>2, <1>3, <1>4 DEF BookInv, TypeOK, MainStates, ThreadType
<1>6. ReplyBounds'
  BY <1>1, <1>2 DEF ReplyBounds
<1>7. UNCHANGED <<books, table, sync, handling, left>>
  BY <1>1
<1> QED
  BY <1>2, <1>5, <1>6, <1>7, OtherKeepsBook

LEMMA ConnectionKeepsBook ==
  ASSUME BookInv, NEW t \in Threads,
         \/ FindSymbols(t) \/ GetSymbolUri(t) \/ Connect(t)
         \/ OnError(t) \/ OnConnection(t) \/ OnDisconnection(t)
  PROVE  BookInv'
<1> USE DEF FindSymbols, GetSymbolUri, Connect, OnError, OnConnection, OnDisconnection
<1>1. UNCHANGED <<books, listed, table, lastUpdateId, sync, handling, left,
                  main, symbol, reply, snapshot, unparsed, calls>>
  BY DEF venueVars, bookVars, hubVars, mainVars, replyVars
<1>2. thread' \in [Threads -> ThreadType]
  BY DEF hubVars, BookInv, TypeOK, ThreadType, Rising
<1>3. streams' \in [Threads -> SUBSET Symbols]
  BY DEF hubVars, BookInv, TypeOK
<1>4. sent' \in [Threads -> [Symbols -> Nat]]
  <2>1. [s \in Symbols |-> Latest(s)] \in [Symbols -> Nat]
    BY DEF BookInv, Bounds
  <2> QED
    BY <2>1 DEF hubVars, BookInv, TypeOK
<1>5. ws' \in Threads \union {0} /\ wsconn_state' \in BOOLEAN /\ proc' \in {"up", "dead"}
  BY DEF hubVars, BookInv, TypeOK
<1>6. \A o \in Symbols : Latest(o)' = Latest(o)
  BY <1>1 DEF Latest
<1>7. TypeOK'
  BY <1>1, <1>2, <1>3, <1>4, <1>5, <1>6 DEF BookInv, TypeOK, ThreadType
<1> HIDE DEF FindSymbols, GetSymbolUri, Connect, OnError, OnConnection, OnDisconnection
<1>8. ReplyBounds'
  BY <1>1, <1>6 DEF BookInv, Bounds, ReplyBounds, Latest
<1>9. UNCHANGED <<books, table, sync, handling, left>> /\ UNCHANGED <<symbol, snapshot, unparsed>>
  BY <1>1
<1> QED
  BY <1>7, <1>8, <1>9, OtherKeepsBook

LEMMA MessageKeepsBook ==
  ASSUME BookInv, NEW t \in Threads, NEW s \in Symbols, OnMessage(t, s)
  PROVE  BookInv'
<1>1. PICK u \in sent[t][s] + 1 .. Latest(s) :
        /\ handling' = [handling EXCEPT ![t] =
                          [event |-> TRUE, symbol |-> s, U |-> sent[t][s] + 1, u |-> u]]
        /\ sent' = [sent EXCEPT ![t][s] = u]
  BY DEF OnMessage
<1>2. /\ UNCHANGED <<books, listed, table, lastUpdateId, sync, thread, streams, left, ws,
                     wsconn_state, main, symbol, reply, snapshot, unparsed, calls, proc>>
      /\ handling[t] = Idle
  BY DEF OnMessage, venueVars, bookVars, mainVars, replyVars
<1>3. PICK v : v = sent[t][s] + 1
  OBVIOUS
<1>4. /\ sent[t][s] \in Nat /\ Latest(s) \in Nat /\ v \in Nat \ {0} /\ u \in Nat
      /\ v <= u /\ u <= Latest(s)
  BY <1>1, <1>3, SMTT(40) DEF BookInv, TypeOK, Bounds
<1>5. PICK e : e = [event |-> TRUE, symbol |-> s, U |-> v, u |-> u]
  OBVIOUS
<1>6. e \in Events /\ e.symbol = s /\ e.U = v /\ e.u = u
  BY <1>4, <1>5 DEF Events
<1>7. handling' = [handling EXCEPT ![t] = e]
  BY <1>1, <1>3, <1>5
<1>8. handling' \in [Threads -> Events \union {Idle}]
      /\ handling'[t] = e /\ \A o \in Threads \ {t} : handling'[o] = handling[o]
  BY <1>6, <1>7 DEF BookInv, TypeOK
<1>9. sent' \in [Threads -> [Symbols -> Nat]]
  BY <1>1, <1>4 DEF BookInv, TypeOK
<1>10. \A o \in Symbols : Latest(o)' = Latest(o)
  BY <1>2 DEF Latest
<1>11. TypeOK'
  BY <1>2, <1>8, <1>9, <1>10 DEF BookInv, TypeOK
<1>12. left[t] = {}
  BY <1>2 DEF BookInv, Bounds, EventBounds
<1>13. EventBounds'
  <2> SUFFICES ASSUME NEW o \in Threads
               PROVE  /\ left'[o] # {} => handling'[o] # Idle
                      /\ handling'[o] # Idle =>
                           /\ handling'[o].symbol \in Symbols
                           /\ handling'[o].U \in Nat \ {0} /\ handling'[o].u \in Nat
                           /\ handling'[o].U <= handling'[o].u
                           /\ handling'[o].u <= Latest(handling'[o].symbol)
    BY <1>2 DEF EventBounds, Latest
  <2>1. CASE o = t
    BY <1>2, <1>4, <1>6, <1>8, <1>12, <2>1
  <2>2. CASE o # t
    BY <1>2, <1>8, <2>2 DEF BookInv, Bounds, EventBounds
  <2> QED
    BY <2>1, <2>2
<1>14. Bounds'
  BY <1>2, <1>10, <1>13 DEF BookInv, Bounds, ReplyBounds, TypeOK
<1>15. ASSUME NEW o \in Symbols PROVE Follows(o)'
  <2>1. Follows(o) /\ sync'[o] = sync[o] /\ table'[o] = table[o]
    BY <1>2 DEF BookInv
  <2>2. \A q \in Prices :
          /\ \A k \in Threads : /\ Owes(k, o, q)' <=> Owes(k, o, q)
                                /\ Owes(k, o, q) => handling'[k] = handling[k]
          /\ SnapshotOwes(o, q)' <=> SnapshotOwes(o, q)
    BY <1>2, <1>8, <1>12 DEF Owes, SnapshotOwes
  <2> QED
    BY <1>2, <2>1, <2>2, AloneFollows
<1> QED
  BY <1>11, <1>14, <1>15 DEF BookInv

LEMMA DropKeepsBook ==
  ASSUME BookInv, NEW t \in Threads, DropEvent(t)
  PROVE  BookInv'
<1>1. /\ UNCHANGED <<books, listed, table, lastUpdateId, sync, thread, streams, sent, left,
                     ws, wsconn_state, main, symbol, reply, snapshot, unparsed, calls, proc>>
      /\ handling' = [handling EXCEPT ![t] = Idle] /\ left[t] = {}
  BY DEF DropEvent, venueVars, bookVars, mainVars, replyVars
<1>2. handling' \in [Threads -> Events \union {Idle}]
      /\ handling'[t] = Idle /\ \A o \in Threads \ {t} : handling'[o] = handling[o]
  BY <1>1 DEF BookInv, TypeOK
<1>3. \A o \in Symbols : Latest(o)' = Latest(o)
  BY <1>1 DEF Latest
<1>4. TypeOK'
  BY <1>1, <1>2, <1>3 DEF BookInv, TypeOK
<1>5. EventBounds'
  BY <1>1, <1>2, <1>3 DEF BookInv, Bounds, EventBounds
<1>6. Bounds'
  BY <1>1, <1>3, <1>5 DEF BookInv, Bounds, ReplyBounds, TypeOK
<1>7. ASSUME NEW o \in Symbols PROVE Follows(o)'
  <2>1. Follows(o) /\ sync'[o] = sync[o] /\ table'[o] = table[o]
    BY <1>1 DEF BookInv
  <2>2. \A q \in Prices :
          /\ \A k \in Threads : /\ Owes(k, o, q)' <=> Owes(k, o, q)
                                /\ Owes(k, o, q) => handling'[k] = handling[k]
          /\ SnapshotOwes(o, q)' <=> SnapshotOwes(o, q)
    BY <1>1, <1>2 DEF Owes, SnapshotOwes
  <2> QED
    BY <1>1, <2>1, <2>2, AloneFollows
<1> QED
  BY <1>4, <1>6, <1>7 DEF BookInv

\* What an event that continues where the book is, or overlaps with it, changes
\* of what the book should show.
LEMMA EventMovesBook ==
  ASSUME BookInv, NEW s \in Symbols, NEW e, e.symbol = s, ~Stale(e),
         e.U \in Nat \ {0}, e.u \in Nat, e.U <= e.u, e.u <= Latest(s),
         NEW y, y = SyncAfter(sync[s], e), y.ok
  PROVE  /\ sync[s].ok /\ y.at = e.u /\ y.at \in 1 .. Latest(s)
         /\ Touched(s, e.U, e.u) \intersect ToBeStored(s) = {}
         /\ \A p \in Prices :
              (IF p \in y.seen THEN books[s][y.at][p] ELSE 0)
                = IF p \in Touched(s, e.U, e.u) THEN books[s][e.u][p] ELSE Shown(s, p)
<1>1. PICK z : z = sync[s]
  OBVIOUS
<1>2. /\ y.ok = (/\ z.ok /\ z.at <= e.u /\ e.U <= z.at + 1
                 /\ Touched(s, e.U, e.u) \intersect ToBeStored(s) = {})
      /\ y.at = IF e.u > z.at THEN e.u ELSE z.at
      /\ y.seen = z.seen \union Touched(s, e.U, e.u)
  <2>1. ~ (e.u < lastUpdateId[e.symbol])
    BY DEF Stale
  <2> QED
    BY <1>1, <2>1 DEF SyncAfter
<1>3. z.ok /\ z.at \in 1 .. Latest(s) /\ Latest(s) \in Nat
  BY <1>1, <1>2 DEF BookInv, Bounds, Follows
<1>4. z.at <= e.u /\ e.U <= z.at + 1
  BY <1>2
<1>5. y.at = e.u
  BY <1>2, <1>3, <1>4
<1>6. e.u \in 1 .. Latest(s)
  BY <1>3, <1>4
<1>7. ASSUME NEW p \in Prices, p \notin Touched(s, e.U, e.u)
      PROVE  books[s][e.u][p] = books[s][z.at][p]
  <2>1. \A i \in e.U .. e.u : books[s][i][p] = books[s][i - 1][p]
    BY <1>7 DEF Touched
  <2>2. \A i \in z.at + 1 .. e.u : books[s][i][p] = books[s][i - 1][p]
    BY <1>3, <1>4, <2>1
  <2>3. PICK b, i, k : b = books[s] /\ i = z.at /\ k = e.u
    OBVIOUS
  <2>4. i \in Nat /\ k \in Nat /\ i <= k
    BY <1>3, <1>4, <2>3
  <2>5. \A j \in i + 1 .. k : b[j][p] = b[j - 1][p]
    BY <2>2, <2>3
  <2>6. b[k][p] = b[i][p]
    BY <2>4, <2>5, UntouchedStays
  <2> QED
    BY <2>3, <2>6
<1>8. ASSUME NEW p \in Prices
      PROVE  (IF p \in y.seen THEN books[s][y.at][p] ELSE 0)
               = IF p \in Touched(s, e.U, e.u) THEN books[s][e.u][p] ELSE Shown(s, p)
  <2>1. CASE p \in Touched(s, e.U, e.u)
    BY <1>2, <1>5, <2>1
  <2>2. CASE p \notin Touched(s, e.U, e.u)
    BY <1>1, <1>2, <1>5, <1>7, <2>2 DEF Shown
  <2> QED
    BY <2>1, <2>2
<1> QED
  BY <1>1, <1>2, <1>3, <1>5, <1>6, <1>8

LEMMA AcceptKeepsBook ==
  ASSUME BookInv, NEW t \in Threads, AcceptEvent(t)
  PROVE  BookInv'
<1>1. PICK e : e = handling[t]
  OBVIOUS
<1>2. PICK s : s = e.symbol
  OBVIOUS
<1>3. PICK levels : levels = Touched(s, e.U, e.u)
  OBVIOUS
<1>4. PICK y : y = SyncAfter(sync[s], e)
  OBVIOUS
<1>5. /\ UNCHANGED <<books, listed, table, lastUpdateId, thread, streams, sent, handling, ws,
                     wsconn_state, main, symbol, reply, snapshot, unparsed, calls, proc>>
      /\ e # Idle /\ left[t] = {} /\ ~Stale(e)
      /\ left' = [left EXCEPT ![t] = levels]
  BY <1>1, <1>2, <1>3 DEF AcceptEvent, venueVars, mainVars, replyVars
<1>6. /\ s \in Symbols /\ e.U \in Nat \ {0} /\ e.u \in Nat /\ e.U <= e.u
      /\ e.u <= Latest(s)
  BY <1>1, <1>2, <1>5 DEF BookInv, Bounds, EventBounds
<1>7. sync' = [sync EXCEPT ![s] = y]
  BY <1>1, <1>2, <1>4, <1>6 DEF AcceptEvent
<1>8. levels \subseteq Prices /\ left \in [Threads -> SUBSET Prices]
  BY <1>3 DEF Touched, BookInv, TypeOK
<1>9. /\ left' \in [Threads -> SUBSET Prices] /\ left'[t] = levels
      /\ \A o \in Threads \ {t} : left'[o] = left[o]
  BY <1>5, <1>8
<1>10. y \in SyncType
  <2>1. sync[s] \in SyncType
    BY <1>6 DEF BookInv, TypeOK, SyncType
  <2>2. PICK z, k : z = sync[s] /\ k = (/\ z.ok /\ z.at <= e.u /\ e.U <= z.at + 1
                                        /\ levels \intersect ToBeStored(s) = {})
    OBVIOUS
  <2>3. k \in BOOLEAN
    BY <2>2
  <2>4. y = [ok |-> k, at |-> IF e.u > z.at THEN e.u ELSE z.at, seen |-> z.seen \union levels]
    BY <1>2, <1>3, <1>4, <1>5, <2>2 DEF SyncAfter, Stale
  <2> QED
    BY <1>6, <1>8, <2>1, <2>2, <2>3, <2>4 DEF SyncType
<1>11. sync' \in [Symbols -> SyncType] /\ sync'[s] = y
       /\ \A o \in Symbols \ {s} : sync'[o] = sync[o]
  BY <1>6, <1>7, <1>10 DEF BookInv, TypeOK, SyncType
<1>12. \A o \in Symbols : Latest(o)' = Latest(o)
  BY <1>5 DEF Latest
<1>13. TypeOK'
  BY <1>5, <1>9, <1>11, <1>12, SMTT(40) DEF BookInv, TypeOK, SyncType
<1>14. EventBounds'
  BY <1>1, <1>5, <1>9, <1>12 DEF BookInv, Bounds, EventBounds
<1>15. y.ok => /\ sync[s].ok /\ y.at \in 1 .. Latest(s)
               /\ levels \intersect ToBeStored(s) = {}
               /\ \A p \in Prices :
                    (IF p \in y.seen THEN books[s][y.at][p] ELSE 0)
                      = IF p \in levels THEN books[s][e.u][p] ELSE Shown(s, p)
  BY <1>2, <1>3, <1>4, <1>5, <1>6, EventMovesBook
<1>16. ReplyBounds'
  BY <1>5, <1>11, <1>12, <1>15 DEF BookInv, Bounds, ReplyBounds, TypeOK
<1>17. Bounds'
  BY <1>12, <1>14, <1>16 DEF BookInv, Bounds
<1>18. ASSUME NEW o \in Symbols, o # s PROVE Follows(o)'
  <2>1. Follows(o) /\ sync'[o] = sync[o] /\ table'[o] = table[o]
    BY <1>5, <1>11, <1>18 DEF BookInv
  <2>2. \A q \in Prices :
          /\ \A k \in Threads : /\ Owes(k, o, q)' <=> Owes(k, o, q)
                                /\ Owes(k, o, q) => handling'[k] = handling[k]
          /\ SnapshotOwes(o, q)' <=> SnapshotOwes(o, q)
    BY <1>1, <1>2, <1>5, <1>9, <1>18 DEF Owes, SnapshotOwes
  <2> QED
    BY <1>5, <2>1, <2>2, AloneFollows
<1>19. \A p \in Prices : y.ok =>
         /\ \A k \in Threads : Owes(k, s, p)' => books[s][handling[k].u][p] = Shown(s, p)'
         /\ SnapshotOwes(s, p) => books[s][snapshot][p] = Shown(s, p)'
         /\ \/ table[s][p] = Shown(s, p)'
            \/ SnapshotOwes(s, p)
            \/ \E k \in Threads : Owes(k, s, p)'
  <2> SUFFICES ASSUME NEW p \in Prices, y.ok
               PROVE  /\ \A k \in Threads :
                           Owes(k, s, p)' => books[s][handling[k].u][p] = Shown(s, p)'
                      /\ SnapshotOwes(s, p) => books[s][snapshot][p] = Shown(s, p)'
                      /\ \/ table[s][p] = Shown(s, p)'
                         \/ SnapshotOwes(s, p)
                         \/ \E k \in Threads : Owes(k, s, p)'
    OBVIOUS
  <2>1. Follows(s) /\ sync[s].ok
    BY <1>6, <1>15 DEF BookInv
  <2>2. Shown(s, p)' = IF p \in levels THEN books[s][e.u][p] ELSE Shown(s, p)
    BY <1>5, <1>11, <1>15 DEF Shown
  <2>3. p \in levels => ~SnapshotOwes(s, p) /\ \A k \in Threads : ~Owes(k, s, p)
    BY <1>15, WhoOwes
  <2>4. \A k \in Threads : Owes(k, s, p)' <=> (k = t /\ p \in levels) \/ Owes(k, s, p)
    BY <1>1, <1>2, <1>5, <1>9 DEF Owes
  <2>5. ASSUME NEW k \in Threads, Owes(k, s, p)'
        PROVE  books[s][handling[k].u][p] = Shown(s, p)'
    <3>1. CASE k = t /\ p \in levels
      BY <1>1, <2>2, <3>1
    <3>2. CASE Owes(k, s, p)
      BY <2>1, <2>2, <2>3, <3>2 DEF Follows
    <3> QED
      BY <2>4, <2>5, <3>1, <3>2
  <2>6. SnapshotOwes(s, p) => books[s][snapshot][p] = Shown(s, p)'
    BY <2>1, <2>2, <2>3 DEF Follows
  <2>7. \/ table[s][p] = Shown(s, p)'
        \/ SnapshotOwes(s, p)
        \/ \E k \in Threads : Owes(k, s, p)'
    BY <2>1, <2>2, <2>4 DEF Follows
  <2> QED
    BY <2>5, <2>6, <2>7
<1>20. Follows(s)'
  <2>1. sync'[s].ok = y.ok /\ (y.ok => sync'[s].at \in 1 .. Latest(s)')
    BY <1>6, <1>11, <1>12, <1>15
  <2>2. \A p \in Prices : SnapshotOwes(s, p)' <=> SnapshotOwes(s, p)
    BY <1>5 DEF SnapshotOwes
  <2>3. UNCHANGED <<books, table, handling, snapshot>>
    BY <1>5
  <2> QED
    BY <1>19, <2>1, <2>2, <2>3 DEF Follows
<1> QED
  BY <1>13, <1>17, <1>18, <1>20 DEF BookInv

LEMMA StoreKeepsBook ==
  ASSUME BookInv, NEW t \in Threads, StoreLevel(t)
  PROVE  BookInv'
<1>1. PICK e : e = handling[t]
  OBVIOUS
<1>2. PICK s : s = e.symbol
  OBVIOUS
<1>3. PICK p \in left[t] :
        /\ left' = [left EXCEPT ![t] = @ \ {p}]
        /\ table' = [table EXCEPT ![s][p] = books[s][e.u][p]]
        /\ handling' = IF left[t] = {p} THEN [handling EXCEPT ![t] = Idle] ELSE handling
  BY <1>1, <1>2 DEF StoreLevel
<1>4. /\ UNCHANGED <<books, lastUpdateId, sync, thread, streams, sent, ws, wsconn_state,
                     main, symbol, reply, snapshot, unparsed, calls, proc>>
      /\ listed' = listed \union {s}
  BY <1>1, <1>2 DEF StoreLevel, venueVars, mainVars, replyVars
<1>5. /\ e # Idle /\ s \in Symbols /\ e.U \in Nat \ {0} /\ e.u \in Nat /\ e.U <= e.u
      /\ e.u <= Latest(s) /\ Latest(s) \in Nat
  BY <1>1, <1>2, <1>3 DEF BookInv, Bounds, EventBounds
<1>6. p \in Prices /\ left \in [Threads -> SUBSET Prices] /\ e.u \in 1 .. Latest(s)
      /\ handling \in [Threads -> Events \union {Idle}]
  <2>1. TypeOK
    BY DEF BookInv
  <2>2. /\ left \in [Threads -> SUBSET Prices]
        /\ handling \in [Threads -> Events \union {Idle}]
    BY <2>1 DEF TypeOK
  <2>3. p \in Prices
    BY <2>2
  <2>4. e.u \in 1 .. Latest(s)
    BY <1>5
  <2> QED
    BY <2>2, <2>3, <2>4
<1>7. /\ left' \in [Threads -> SUBSET Prices] /\ left'[t] = left[t] \ {p}
      /\ \A o \in Threads \ {t} : left'[o] = left[o]
  BY <1>3, <1>6
<1>8. /\ handling' \in [Threads -> Events \union {Idle}]
      /\ handling'[t] = IF left[t] = {p} THEN Idle ELSE handling[t]
      /\ \A o \in Threads \ {t} : handling'[o] = handling[o]
  BY <1>3, <1>6
<1>9. /\ table' \in [Symbols -> Books]
      /\ \A o \in Symbols \ {s} : table'[o] = table[o]
  BY <1>3, <1>5, <1>6, OneLevelType DEF BookInv
<1>10. \A o \in Symbols : Latest(o)' = Latest(o)
  BY <1>4 DEF Latest
<1>11. TypeOK'
  BY <1>4, <1>5, <1>7, <1>8, <1>9, <1>10 DEF BookInv, TypeOK
<1>12. EventBounds'
  <2> SUFFICES ASSUME NEW o \in Threads
               PROVE  /\ left'[o] # {} => handling'[o] # Idle
                      /\ handling'[o] # Idle =>
                           /\ handling'[o].symbol \in Symbols
                           /\ handling'[o].U \in Nat \ {0} /\ handling'[o].u \in Nat
                           /\ handling'[o].U <= handling'[o].u
                           /\ handling'[o].u <= Latest(handling'[o].symbol)
    BY <1>4 DEF EventBounds, Latest
  <2>1. CASE o = t
    BY <1>1, <1>2, <1>5, <1>7, <1>8, <2>1
  <2>2. CASE o # t
    BY <1>7, <1>8, <2>2 DEF BookInv, Bounds, EventBounds
  <2> QED
    BY <2>1, <2>2
<1>13. Bounds'
  BY <1>4, <1>10, <1>12 DEF BookInv, Bounds, ReplyBounds, TypeOK
<1>14. \A o \in Symbols, q \in Prices, k \in Threads :
         /\ Owes(k, o, q)' => Owes(k, o, q) /\ handling'[k] = handling[k]
         /\ o # s \/ q # p => (Owes(k, o, q) => Owes(k, o, q)')
  <2> TAKE o \in Symbols, q \in Prices, k \in Threads
  <2>1. CASE k = t
    BY <1>1, <1>2, <1>7, <1>8, <2>1 DEF Owes
  <2>2. CASE k # t
    BY <1>7, <1>8, <2>2 DEF Owes
  <2> QED
    BY <2>1, <2>2
<1>15. \A o \in Symbols, q \in Prices : SnapshotOwes(o, q)' <=> SnapshotOwes(o, q)
  BY <1>4 DEF SnapshotOwes
<1>16. ASSUME NEW o \in Symbols, o # s PROVE Follows(o)'
  <2>1. Follows(o) /\ sync'[o] = sync[o] /\ table'[o] = table[o]
    BY <1>4, <1>9, <1>16 DEF BookInv
  <2>2. \A q \in Prices :
          /\ \A k \in Threads : /\ Owes(k, o, q)' <=> Owes(k, o, q)
                                /\ Owes(k, o, q) => handling'[k] = handling[k]
          /\ SnapshotOwes(o, q)' <=> SnapshotOwes(o, q)
    BY <1>14, <1>15, <1>16
  <2> QED
    BY <1>4, <2>1, <2>2, AloneFollows
<1>17. Follows(s)'
  <2>1. Follows(s) /\ table \in [Symbols -> Books]
    BY <1>5 DEF BookInv, TypeOK
  <2>2. Owes(t, s, p)
    BY <1>1, <1>2, <1>3, <1>5 DEF Owes
  <2>3. sync[s].ok => books[s][e.u][p] = Shown(s, p)
    BY <1>1, <1>6, <2>1, <2>2 DEF Follows
  <2>4. \A q \in Prices :
          /\ \A k \in Threads :
               /\ Owes(k, s, q)' => Owes(k, s, q) /\ handling'[k] = handling[k]
               /\ q # p /\ Owes(k, s, q) => Owes(k, s, q)'
          /\ SnapshotOwes(s, q)' => SnapshotOwes(s, q) /\ snapshot' = snapshot
          /\ q # p /\ SnapshotOwes(s, q) => SnapshotOwes(s, q)'
    BY <1>4, <1>5, <1>14, <1>15
  <2>5. UNCHANGED books /\ sync'[s] = sync[s]
    BY <1>4
  <2>6. table' = [table EXCEPT ![s][p] = books[s][e.u][p]]
    BY <1>3
  <2> QED
    BY <1>5, <1>6, <2>1, <2>3, <2>4, <2>5, <2>6, OneLevelKeepsFollows
<1> QED
  BY <1>11, <1>13, <1>16, <1>17 DEF BookInv

LEMMA NextKeepsBook ==
  ASSUME BookInv, [Next]_vars
  PROVE  BookInv'
<1>1. CASE AppStep
  BY <1>1, CallKeepsBook, FindStreamKeepsBook, RequestKeepsBook, ClearKeepsBook,
    IdKeepsBook, LevelKeepsBook, RestartKeepsBook DEF AppStep
<1>2. ASSUME NEW t \in Threads, HubStep(t) PROVE BookInv'
  BY <1>2, ConnectionKeepsBook, MessageKeepsBook, DropKeepsBook, AcceptKeepsBook,
    StoreKeepsBook DEF HubStep
<1>3. ASSUME NEW s \in Symbols, VenueUpdates(s) PROVE BookInv'
  BY <1>3, VenueKeepsBook
<1>4. CASE UNCHANGED vars
  <2>1. UNCHANGED <<books, listed, table, lastUpdateId, sync, thread, streams, sent, handling,
                    left, ws, wsconn_state, main, symbol, reply, snapshot, unparsed, calls,
                    proc>>
    BY <1>4 DEF vars, venueVars, bookVars, hubVars, mainVars, replyVars
  <2>2. \A o \in Symbols : Latest(o)' = Latest(o)
    BY <2>1 DEF Latest
  <2>3. TypeOK'
    BY <2>1, <2>2 DEF BookInv, TypeOK
  <2>4. ReplyBounds'
    BY <2>1, <2>2 DEF BookInv, Bounds, ReplyBounds, TypeOK
  <2>5. UNCHANGED <<books, table, sync, handling, left>> /\ UNCHANGED <<symbol, snapshot, unparsed>>
    BY <2>1
  <2> QED
    BY <2>3, <2>4, <2>5, OtherKeepsBook
<1> QED
  BY <1>1, <1>2, <1>3, <1>4 DEF Next

LEMMA BookAlways == Spec => []BookInv
  BY InitBook, NextKeepsBook, PTL DEF Spec

\* Every variable keeps its type, and lastUpdateId is never ahead of the venue.
THEOREM TypeCorrect == Spec => []TypeOK
<1>1. BookInv => TypeOK
  BY DEF BookInv
<1> QED
  BY <1>1, BookAlways, PTL

\* Whenever calls, threads, snapshots and events of old and new streams meet,
\* access by access, every level that no thread has still to store is the
\* venue's at the last update accepted, unless the book has got there in one of
\* the four ways that sync.ok records.
THEOREM BookFollows == Spec => []BookFollowsVenue
<1>1. BookInv => BookFollowsVenue
  <2> SUFFICES ASSUME BookInv, NEW s \in Symbols, sync[s].ok,
                      NEW p \in Prices, p \notin ToBeStored(s)
               PROVE  table[s][p] = Shown(s, p)
    BY DEF BookFollowsVenue, Shown
  <2>1. ~SnapshotOwes(s, p) /\ \A t \in Threads : ~Owes(t, s, p)
    BY WhoOwes
  <2> QED
    BY <2>1 DEF BookInv, Follows
<1> QED
  BY <1>1, BookAlways, PTL

-----------------------------------------------------------------------------
\* What holds if the application lets each call settle: one stream at most is
\* alive, from its start to its end; while a call is being made none is under
\* way; the stream that is open is the one that ws and wsconn_state tell of;
\* and it is gone before a snapshot is requested or a new one is started.
Active(t) == thread[t] \in Rising \union {"open"}
NoneActive == {"request", "parse", "parse_id", "parse_levels", "restart"}
StreamInv ==
  /\ \A t, o \in Threads : Active(t) /\ Active(o) => t = o
  /\ \A t \in Threads : thread[t] = "open" => ws = t /\ wsconn_state
  /\ wsconn_state => \E t \in Threads : thread[t] \in {"connecting", "open"}
  /\ main # "idle" =>
       /\ \E t \in Threads : thread[t] = "none"
       /\ \A t \in Threads : thread[t] \notin Rising
  /\ main \in NoneActive => \A t \in Threads : ~Active(t)

\* A symbol being subscribed to is listed.  A stream has asked for symbols that
\* are listed and, while one of them is being cancelled, for that one; an event
\* is of one of its stream's symbols.
CancelStates == {"cancel_info", "cancel_check", "cancel_kill"}
SubscribeStates ==
  {"sub_check", "sub_kill", "request", "parse", "parse_id", "parse_levels"}
Asked(t) == thread[t] \in {"dialling", "connecting", "open"}
ListedInv ==
  /\ main \in SubscribeStates => symbol \in listed
  /\ \A t \in Threads : Asked(t) =>
       \A s \in streams[t] : s \in listed \/ (main \in CancelStates /\ symbol = s)
  /\ \A t \in Threads : handling[t] # Idle =>
       thread[t] \in {"open", "gone"} /\ handling[t].symbol \in streams[t]

PatientInv == StreamInv /\ ListedInv

LEMMA InitPatient == Init => PatientInv
  BY DEF Init, PatientInv, StreamInv, ListedInv, Active, Rising, NoneActive,
    SubscribeStates, Asked

\* start_stream takes a thread that has not been used.
LEMMA StartTakesNew ==
  ASSUME StartStream, \E t \in Threads : thread[t] = "none"
  PROVE  \E t \in Threads : thread[t] = "none"
                            /\ thread' = [thread EXCEPT ![t] = "starting"]
<1>1. PICK T : T = {t \in Threads : thread[t] = "none"}
  OBVIOUS
<1>2. T \subseteq Nat /\ T # {}
  BY <1>1 DEF Threads
<1>3. PICK x \in T : \A y \in T : x <= y
  BY <1>2, LeastNumber
<1>4. \E t \in Threads : thread[t] = "none"
                         /\ \A o \in Threads : thread[o] = "none" => t <= o
  BY <1>1, <1>3
<1>5. PICK t : t = CHOOSE k \in Threads :
                     thread[k] = "none" /\ \A o \in Threads : thread[o] = "none" => k <= o
  OBVIOUS
<1>6. t \in Threads /\ thread[t] = "none"
  BY <1>4, <1>5
<1>7. thread' = [thread EXCEPT ![t] = "starting"]
  BY <1>5 DEF StartStream
<1> QED
  BY <1>6, <1>7

\* A new stream is started when no other is left.
LEMMA StartKeepsPatient ==
  ASSUME TypeOK, PatientInv, StartStream, main \in NoneActive,
         main' = "idle", UNCHANGED <<listed, streams, handling, ws, wsconn_state>>
  PROVE  PatientInv'
<1>1. PICK n \in Threads : thread[n] = "none"
                           /\ thread' = [thread EXCEPT ![n] = "starting"]
  BY StartTakesNew DEF PatientInv, StreamInv, NoneActive
<1>2. thread'[n] = "starting" /\ \A t \in Threads \ {n} : thread'[t] = thread[t]
  BY <1>1 DEF TypeOK
<1>3. \A t \in Threads : ~Active(t)
  BY DEF PatientInv, StreamInv
<1>4. StreamInv'
  BY <1>2, <1>3 DEF PatientInv, StreamInv, Active, Rising, NoneActive
<1>5. ListedInv'
  <2>1. \A t \in Threads : ~Asked(t)'
    BY <1>2, <1>3 DEF Active, Asked, Rising
  <2>2. \A t \in Threads : handling[t] # Idle => t # n
    BY <1>1 DEF PatientInv, ListedInv
  <2> QED
    BY <1>2, <2>1, <2>2 DEF PatientInv, ListedInv, SubscribeStates
<1> QED
  BY <1>4, <1>5 DEF PatientInv

LEMMA CallKeepsPatient ==
  ASSUME Patient, TypeOK, PatientInv, NEW s \in Symbols,
         SubscribeDepth(s) \/ CancelSubscribeDepth(s)
  PROVE  PatientInv'
<1>1. /\ UNCHANGED <<thread, streams, handling, ws, wsconn_state>>
      /\ main = "idle" /\ symbol' = s
      /\ \/ main' = "sub_check" /\ listed' = listed \union {s}
         \/ main' = "cancel_info" /\ listed' = listed \ {s}
      /\ \E t \in Threads : thread[t] = "none"
      /\ \A t \in Threads : thread[t] \notin Rising
  BY DEF SubscribeDepth, CancelSubscribeDepth, MayCall, Settled, hubVars
<1>2. StreamInv'
  BY <1>1 DEF PatientInv, StreamInv, Active, NoneActive
<1>3. ListedInv'
  BY <1>1 DEF PatientInv, ListedInv, Asked, SubscribeStates, CancelStates
<1> QED
  BY <1>2, <1>3 DEF PatientInv

\* The steps of the application thread that leave the threads and the symbols
\* alone.
LEMMA MainKeepsPatient ==
  ASSUME PatientInv, UNCHANGED <<thread, streams, handling, ws, wsconn_state, symbol>>,
         main # "idle", main' # "idle", listed \subseteq listed',
         main' \in NoneActive => \A t \in Threads : ~Active(t),
         main' \in SubscribeStates => symbol \in listed',
         main \in CancelStates =>
           main' \in CancelStates \/ \A t \in Threads : ~Active(t)
  PROVE  PatientInv'
<1>1. StreamInv'
  BY DEF PatientInv, StreamInv, Active
<1>2. ListedInv'
  BY DEF PatientInv, ListedInv, Asked, Active, Rising
<1> QED
  BY <1>1, <1>2 DEF PatientInv

LEMMA FindStreamKeepsPatient ==
  ASSUME TypeOK, PatientInv, EraseDepthInfo \/ CheckConnState \/ Terminate
  PROVE  PatientInv'
<1>1. CASE EraseDepthInfo
  <2>1. /\ UNCHANGED <<thread, streams, handling, ws, wsconn_state, symbol, listed>>
        /\ main = "cancel_info" /\ main' = "cancel_check"
    BY <1>1 DEF EraseDepthInfo, hubVars
  <2> QED
    BY <2>1, MainKeepsPatient DEF NoneActive, SubscribeStates, CancelStates
<1>2. CASE CheckConnState
  <2>1. /\ UNCHANGED <<thread, streams, handling, ws, wsconn_state, symbol, listed>>
        /\ \/ main = "sub_check" /\ main' = "sub_kill"
           \/ main = "cancel_check" /\ main' = "cancel_kill"
           \/ main = "sub_check" /\ main' = "request" /\ ~wsconn_state
           \/ main = "cancel_check" /\ main' = "restart" /\ ~wsconn_state
    BY <1>2 DEF CheckConnState, AfterTerminate, hubVars, bookVars
  <2>2. ~wsconn_state => \A t \in Threads : ~Active(t)
    BY <2>1 DEF PatientInv, StreamInv, Active
  <2>3. main = "sub_check" => symbol \in listed
    BY DEF PatientInv, ListedInv, SubscribeStates
  <2> QED
    BY <2>1, <2>2, <2>3, MainKeepsPatient DEF NoneActive, SubscribeStates, CancelStates
<1>3. CASE Terminate
  <2>1. /\ UNCHANGED <<streams, handling, ws, symbol, listed>>
        /\ \/ main = "sub_kill" /\ main' = "request"
           \/ main = "cancel_kill" /\ main' = "restart"
    BY <1>3 DEF Terminate, AfterTerminate, bookVars
  <2>2. main = "sub_kill" => symbol \in listed
    BY DEF PatientInv, ListedInv, SubscribeStates
  <2>3. CASE WsIsOpen
    <3>1. /\ ws \in Threads /\ thread[ws] = "open" /\ wsconn_state' = FALSE
          /\ thread' = [thread EXCEPT ![ws] = "gone"]
      BY <1>3, <2>3 DEF Terminate, WsIsOpen, TypeOK
    <3>2. thread'[ws] = "gone" /\ \A t \in Threads \ {ws} : thread'[t] = thread[t]
      BY <3>1 DEF TypeOK
    <3>3. \A t \in Threads : thread'[t] \notin Rising \union {"open"}
      BY <2>1, <3>1, <3>2 DEF PatientInv, StreamInv, Active, Rising
    <3>4. \E t \in Threads : thread'[t] = "none"
      BY <2>1, <3>1, <3>2 DEF PatientInv, StreamInv
    <3>5. StreamInv'
      BY <2>1, <3>1, <3>3, <3>4 DEF StreamInv, Active
    <3>6. ListedInv'
      BY <2>1, <2>2, <3>1, <3>2, <3>3
        DEF PatientInv, ListedInv, Asked, Rising, SubscribeStates
    <3> QED
      BY <3>5, <3>6 DEF PatientInv
  <2>4. CASE ~WsIsOpen
    <3>1. UNCHANGED <<thread, wsconn_state>>
      BY <1>3, <2>4 DEF Terminate
    <3>2. \A t \in Threads : ~Active(t)
      BY <2>1, <2>4 DEF PatientInv, StreamInv, Active, WsIsOpen, Threads
    <3> QED
      BY <2>1, <2>2, <3>1, <3>2, MainKeepsPatient DEF SubscribeStates, CancelStates
  <2> QED
    BY <2>3, <2>4
<1> QED
  BY <1>1, <1>2, <1>3

LEMMA SnapshotKeepsPatient ==
  ASSUME TypeOK, PatientInv,
         RequestSnapshot \/ ParseClears \/ ParseStoresId \/ ParseStoresLevel
  PROVE  PatientInv'
<1>1. /\ UNCHANGED <<thread, streams, handling, ws, wsconn_state, symbol>>
      /\ main \in {"request", "parse", "parse_id", "parse_levels"}
      /\ main' \in {"parse", "parse_id", "parse_levels"}
      /\ listed' \in {listed, listed \union {symbol}}
  BY DEF RequestSnapshot, ParseClears, ParseStoresId, ParseStoresLevel, hubVars, bookVars
<1>2. /\ \A t \in Threads : ~Active(t)
      /\ symbol \in listed
  BY <1>1 DEF PatientInv, StreamInv, ListedInv, NoneActive, SubscribeStates
<1> QED
  BY <1>1, <1>2, MainKeepsPatient

LEMMA RestartKeepsPatient ==
  ASSUME TypeOK, PatientInv, StartAfterSnapshot \/ Restart
  PROVE  PatientInv'
<1>1. /\ UNCHANGED <<listed, streams, handling, ws, wsconn_state>>
      /\ main \in {"parse_levels", "restart"} /\ main' = "idle"
      /\ StartStream \/ UNCHANGED thread
  BY DEF StartAfterSnapshot, Restart, bookVars
<1>2. CASE StartStream
  BY <1>1, <1>2, StartKeepsPatient DEF NoneActive
<1>3. CASE UNCHANGED thread
  <2>1. \A t \in Threads : ~Active(t)
    BY <1>1 DEF PatientInv, StreamInv, NoneActive
  <2>2. StreamInv'
    BY <1>1, <1>3, <2>1 DEF PatientInv, StreamInv, Active, NoneActive
  <2>3. ListedInv'
    BY <1>1, <1>3, <2>1
      DEF PatientInv, ListedInv, Asked, Active, Rising, SubscribeStates
  <2> QED
    BY <2>2, <2>3 DEF PatientInv
<1> QED
  BY <1>1, <1>2, <1>3

\* Thread t comes one step closer to its connection, or ends.
LEMMA RiseKeepsPatient ==
  ASSUME TypeOK, PatientInv, NEW t \in Threads, thread[t] \in Rising,
         FindSymbols(t) \/ GetSymbolUri(t) \/ Connect(t) \/ OnConnection(t)
  PROVE  PatientInv'
<1>1. UNCHANGED <<main, symbol, handling, listed>>
  BY DEF FindSymbols, GetSymbolUri, Connect, OnConnection, mainVars, bookVars
<1>2. main = "idle" /\ \A o \in Threads \ {t} : ~Active(o)
  BY DEF PatientInv, StreamInv, Active
<1>3. \/ /\ thread[t] = "starting" /\ UNCHANGED <<streams, wsconn_state, ws>>
         /\ \E x \in {"gone", "listing"} : thread' = [thread EXCEPT ![t] = x]
      \/ /\ thread[t] = "listing" /\ UNCHANGED <<wsconn_state, ws>>
         /\ streams' = [streams EXCEPT ![t] = listed]
         /\ thread' = [thread EXCEPT ![t] = "dialling"]
      \/ /\ thread[t] = "dialling" /\ wsconn_state' = TRUE /\ UNCHANGED <<streams, ws>>
         /\ thread' = [thread EXCEPT ![t] = "connecting"]
      \/ /\ thread[t] = "connecting" /\ wsconn_state' = TRUE /\ ws' = t
         /\ UNCHANGED streams /\ thread' = [thread EXCEPT ![t] = "open"]
  BY DEF FindSymbols, GetSymbolUri, Connect, OnConnection
<1>4. /\ thread'[t] \in {"gone", "listing", "dialling", "connecting", "open"}
      /\ \A o \in Threads \ {t} : thread'[o] = thread[o] /\ streams'[o] = streams[o]
  BY <1>3 DEF TypeOK
<1>5. /\ thread'[t] = "open" => ws' = t /\ wsconn_state'
      /\ wsconn_state' /\ ~wsconn_state => thread'[t] \in {"connecting", "open"}
      /\ thread[t] \in {"connecting"} => thread'[t] = "open"
  BY <1>3 DEF TypeOK
<1>6. wsconn_state' => thread'[t] \in {"connecting", "open"}
  <2>1. wsconn_state => thread[t] = "connecting"
    BY <1>2 DEF PatientInv, StreamInv, Active, Rising
  <2> QED
    BY <1>5, <2>1
<1>7. StreamInv'
  BY <1>1, <1>2, <1>4, <1>5, <1>6 DEF StreamInv, Active, NoneActive
<1>8. Asked(t)' => \A s \in streams'[t] : s \in listed
  <2>1. \/ thread[t] = "starting" /\ thread'[t] \in {"gone", "listing"}
        \/ thread[t] = "listing" /\ streams'[t] = listed
        \/ thread[t] \in {"dialling", "connecting"} /\ UNCHANGED streams
    BY <1>3 DEF TypeOK
  <2>2. thread[t] \in {"dialling", "connecting"} => \A s \in streams[t] : s \in listed
    BY <1>2 DEF PatientInv, ListedInv, Asked, CancelStates
  <2> QED
    BY <2>1, <2>2 DEF Asked
<1>9. handling[t] = Idle
  BY DEF PatientInv, ListedInv, Rising
<1>10. \A o \in Threads \ {t} : ~Asked(o)'
  BY <1>2, <1>4 DEF Asked, Active, Rising
<1>11. ListedInv'
  BY <1>1, <1>2, <1>4, <1>8, <1>9, <1>10 DEF PatientInv, ListedInv, SubscribeStates
<1> QED
  BY <1>7, <1>11 DEF PatientInv

LEMMA HubKeepsPatient ==
  ASSUME TypeOK, PatientInv, NEW t \in Threads, HubStep(t)
  PROVE  PatientInv'
<1>1. CASE FindSymbols(t) \/ GetSymbolUri(t) \/ Connect(t) \/ OnConnection(t)
  <2>1. thread[t] \in Rising
    BY <1>1 DEF FindSymbols, GetSymbolUri, Connect, OnConnection, Rising
  <2> QED
    BY <1>1, <2>1, RiseKeepsPatient
<1>2. CASE OnError(t)
  BY <1>2 DEF OnError, PatientInv, StreamInv, ListedInv, Active, Asked, hubVars, bookVars,
    mainVars
<1>3. CASE OnDisconnection(t)
  <2>1. /\ thread[t] = "open" /\ UNCHANGED <<main, symbol, handling, listed, streams, ws>>
        /\ thread' = [thread EXCEPT ![t] = "gone"] /\ wsconn_state' = FALSE
    BY <1>3 DEF OnDisconnection, mainVars, bookVars
  <2>2. \A o \in Threads \ {t} : ~Active(o)
    BY <2>1 DEF PatientInv, StreamInv, Active
  <2>3. thread'[t] = "gone" /\ \A o \in Threads \ {t} : thread'[o] = thread[o]
    BY <2>1 DEF TypeOK
  <2>4. \A o \in Threads : thread[o] = "none" => thread'[o] = "none"
    BY <2>1, <2>3
  <2>5. StreamInv'
    BY <2>1, <2>2, <2>3, <2>4 DEF PatientInv, StreamInv, Active, Rising
  <2>6. ListedInv'
    BY <2>1, <2>3 DEF PatientInv, ListedInv, Asked
  <2> QED
    BY <2>5, <2>6 DEF PatientInv
<1>4. CASE DropEvent(t) \/ AcceptEvent(t) \/ StoreLevel(t)
  <2>1. /\ handling' \in {handling, [handling EXCEPT ![t] = Idle]}
        /\ listed \subseteq listed'
        /\ UNCHANGED <<thread, streams, ws, wsconn_state, main, symbol>>
    BY <1>4 DEF DropEvent, AcceptEvent, StoreLevel, mainVars, bookVars
  <2>2. \A o \in Threads : handling'[o] # Idle => handling'[o] = handling[o]
    BY <2>1 DEF TypeOK
  <2>3. StreamInv'
    BY <2>1 DEF PatientInv, StreamInv, Active
  <2>4. ListedInv'
    BY <2>1, <2>2 DEF PatientInv, ListedInv, Asked
  <2> QED
    BY <2>3, <2>4 DEF PatientInv
<1>5. ASSUME NEW s \in Symbols, OnMessage(t, s) PROVE PatientInv'
  <2>1. /\ thread[t] = "open" /\ s \in streams[t]
        /\ UNCHANGED <<thread, streams, ws, wsconn_state, main, symbol, listed>>
    BY <1>5 DEF OnMessage, mainVars, bookVars
  <2>2. PICK u : handling' = [handling EXCEPT ![t] =
                     [event |-> TRUE, symbol |-> s, U |-> sent[t][s] + 1, u |-> u]]
    BY <1>5 DEF OnMessage
  <2>3. PICK e : e = [event |-> TRUE, symbol |-> s, U |-> sent[t][s] + 1, u |-> u]
    OBVIOUS
  <2>4. handling' = [handling EXCEPT ![t] = e] /\ e.symbol = s
    BY <2>2, <2>3
  <2>5. handling'[t] = e /\ \A o \in Threads \ {t} : handling'[o] = handling[o]
    BY <2>4 DEF TypeOK
  <2>6. StreamInv'
    BY <2>1 DEF PatientInv, StreamInv, Active
  <2>7. ListedInv'
    BY <2>1, <2>4, <2>5 DEF PatientInv, ListedInv, Asked
  <2> QED
    BY <2>6, <2>7 DEF PatientInv
<1> QED
  BY <1>1, <1>2, <1>3, <1>4, <1>5 DEF HubStep

LEMMA NextKeepsPatient ==
  ASSUME Patient, TypeOK, PatientInv, [Next]_vars
  PROVE  PatientInv'
<1>1. CASE AppStep
  BY <1>1, CallKeepsPatient, FindStreamKeepsPatient, SnapshotKeepsPatient,
    RestartKeepsPatient DEF AppStep
<1>2. CASE \E t \in Threads : HubStep(t)
  BY <1>2, HubKeepsPatient
<1>3. CASE (\E s \in Symbols : VenueUpdates(s)) \/ UNCHANGED vars
  <2>1. UNCHANGED <<listed, thread, streams, handling, ws, wsconn_state, main, symbol>>
    BY <1>3 DEF VenueUpdates, vars, bookVars, hubVars, mainVars
  <2> QED
    BY <2>1 DEF PatientInv, StreamInv, ListedInv, Active, Asked
<1> QED
  BY <1>1, <1>2, <1>3 DEF Next

LEMMA PatientAlways == ASSUME Patient PROVE Spec => []PatientInv
<1>1. TypeOK /\ PatientInv /\ [Next]_vars => PatientInv'
  BY NextKeepsPatient
<1> QED
  BY <1>1, InitPatient, TypeCorrect, PTL DEF Spec

\* If each call is made after the one before has settled, a new stream replaces
\* the old one, although nobody waits for a hub thread to end, and no stream is
\* there while a snapshot is requested and parsed.
THEOREM OneStreamIfPatient == ASSUME Patient PROVE Spec => []OneStream
<1>1. PatientInv => OneStream
  <2> SUFFICES ASSUME PatientInv
               PROVE  /\ Cardinality(LiveThreads) <= 1
                      /\ Parsing => Cardinality(LiveThreads) = 0
    BY FS_EmptySet DEF OneStream
  <2>1. \A t, o \in LiveThreads : t = o
    BY DEF LiveThreads, PatientInv, StreamInv, Active, Rising
  <2>2. Parsing => LiveThreads = {}
    BY DEF Parsing, LiveThreads, PatientInv, StreamInv, Active, Rising, NoneActive
  <2>3. CASE LiveThreads = {}
    BY <2>3, FS_EmptySet
  <2>4. CASE LiveThreads # {}
    <3>1. PICK t \in LiveThreads : TRUE
      BY <2>4
    <3>2. LiveThreads = {t}
      BY <2>1, <3>1
    <3>3. Cardinality({t}) = 1
      BY FS_Singleton, Zenon
    <3> QED
      BY <2>2, <2>4, <3>2, <3>3
  <2> QED
    BY <2>3, <2>4
<1> QED
  BY <1>1, PatientAlways, PTL

\* Likewise, the pointer that terminate is called through designates the open
\* socket, unless a disconnection has come in since the flag was read.
THEOREM TerminateSafeIfPatient == ASSUME Patient PROVE Spec => []TerminateFindsTheStream
<1>1. TypeOK /\ PatientInv => TerminateFindsTheStream
  BY DEF TypeOK, PatientInv, StreamInv, TerminateFindsTheStream, WsIsOpen, Threads, Rising
<1> QED
  BY <1>1, PatientAlways, TypeCorrect, PTL

\* Likewise, a symbol cancelled comes back to symbol_askbid_table in two ways
\* only, besides a new subscription: an event of the stream still open is stored
\* between the erase of the symbol and terminate(), or one whose handling has
\* outlasted its stream is stored later.
THEOREM CancelledOutIfPatient == ASSUME Patient PROVE Spec => CancelledStaysOut
<1>1. ASSUME BookInv, PatientInv, [Next]_vars
      PROVE  [\A s \in listed' \ listed :
                \/ calls' > calls /\ symbol' = s
                \/ \E t \in Threads :
                     /\ handling[t] # Idle /\ handling[t].symbol = s
                     /\ \/ thread[t] = "open" /\ Cancelling(s)
                        \/ thread[t] = "gone"]_vars
  <2> SUFFICES ASSUME NEW s \in listed' \ listed, ~ (calls' > calls /\ symbol' = s)
               PROVE  \E t \in Threads :
                        /\ handling[t] # Idle /\ handling[t].symbol = s
                        /\ \/ thread[t] = "open" /\ Cancelling(s)
                           \/ thread[t] = "gone"
    OBVIOUS
  <2>0. calls \in Nat
    BY <1>1 DEF BookInv, TypeOK
  <2>1. CASE AppStep
    <3>1. ASSUME NEW o \in Symbols, SubscribeDepth(o) \/ CancelSubscribeDepth(o)
          PROVE  FALSE
      BY <2>0, <3>1 DEF SubscribeDepth, CancelSubscribeDepth
    <3>2. CASE ParseClears \/ ParseStoresLevel
      <4>1. main \in SubscribeStates /\ listed' = listed \union {symbol}
        BY <3>2 DEF ParseClears, ParseStoresLevel, SubscribeStates
      <4> QED
        BY <1>1, <4>1 DEF PatientInv, ListedInv
    <3>3. CASE \/ EraseDepthInfo \/ CheckConnState \/ Terminate \/ RequestSnapshot
               \/ ParseStoresId \/ StartAfterSnapshot \/ Restart
      BY <3>3 DEF EraseDepthInfo, CheckConnState, Terminate, RequestSnapshot,
        ParseStoresId, StartAfterSnapshot, Restart, bookVars
    <3> QED
      BY <2>1, <3>1, <3>2, <3>3 DEF AppStep
  <2>2. ASSUME NEW t \in Threads, HubStep(t)
        PROVE  /\ handling[t] # Idle /\ handling[t].symbol = s
               /\ \/ thread[t] = "open" /\ Cancelling(s)
                  \/ thread[t] = "gone"
    <3>1. CASE StoreLevel(t)
      <4>1. left[t] # {} /\ handling[t].symbol = s
        BY <3>1 DEF StoreLevel
      <4>2. handling[t] # Idle
        BY <1>1, <4>1 DEF BookInv, Bounds, EventBounds
      <4> QED
        BY <1>1, <4>1, <4>2 DEF PatientInv, ListedInv, Asked, CancelStates, Cancelling
    <3>2. CASE ~StoreLevel(t)
      BY <2>2, <3>2 DEF HubStep, FindSymbols, GetSymbolUri, Connect, OnError, OnConnection,
        OnDisconnection, OnMessage, DropEvent, AcceptEvent, bookVars
    <3> QED
      BY <3>1, <3>2
  <2>3. CASE (\E o \in Symbols : VenueUpdates(o)) \/ UNCHANGED vars
    BY <2>3 DEF VenueUpdates, vars, bookVars
  <2> QED
    BY <1>1, <2>1, <2>2, <2>3 DEF Next
<1> QED
  BY <1>1, PatientAlways, BookAlways, PTL DEF Spec, CancelledStaysOut
=============================================================================
