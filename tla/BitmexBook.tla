----------------------------- MODULE BitmexBook -----------------------------
(***************************************************************************)
(* The bitmex order book kept in two SQLite tables, Sell and Buy: the hub  *)
(* thread applies the rows of the orderBookL2 messages one statement at a  *)
(* time, the monitor loop of bitmexbook() reads the figures of the best    *)
(* levels with one query per side.  sqlite3_exec is atomic, the messages   *)
(* and the pair of queries are not.                                        *)
(*                                                                         *)
(* A price level is named by its price, which stands for msgid as well.    *)
(* rows is everything the venue has sent since the subscription, and       *)
(* books[k + 1] is the book that its first k rows describe.  A figure is   *)
(* the set of the table rows it adds up, price times amount of each.       *)
(*                                                                         *)
(* A definition named A_Something is not part of the model: it is A with a *)
(* fault, kept to show that a property notices the fault.                  *)
(***************************************************************************)
EXTENDS Naturals, Sequences, FiniteSets

CONSTANTS Prices, Sizes,
          Depth,         \* levels a query adds up
          FirstSizes,    \* bound on the amounts in the partial
          MaxMessages    \* bound on the messages after the partial

ASSUME PricesAssumption == Prices \subseteq Nat /\ IsFiniteSet(Prices)
ASSUME SizesAssumption == Sizes \subseteq Nat \ {0}
ASSUME FirstSizesAssumption == FirstSizes \subseteq Sizes
ASSUME DepthAssumption == Depth \in Nat \ {0}
ASSUME MaxMessagesAssumption == MaxMessages \in Nat

Sides == {"Sell", "Buy"}
Books == [Sides -> [Prices -> Sizes \union {0}]]
Rows == [act : {"partial", "insert", "update", "delete"}, side : Sides,
         price : Prices, amount : Sizes \union {0}, last : BOOLEAN]
TableRows == [key : Nat \ {0}, price : Prices, amount : Sizes]

VARIABLES
  books, rows,    \* see above; the field last ends a message
  connected,      \* the stream is up
  messages,       \* messages sent
  applied,        \* rows the hub thread has applied
  table,          \* per side, the rows of the table XBTUSD<side>
  lastKey,        \* per side, the last AUTOINCREMENT key
  monitor,        \* the loop of bitmexbook(): sleep, bid (between its two
                  \* queries) or send
  m_ask, m_bid,
  askAt, bidAt,   \* the value of applied when they were read
  proc

venueVars   == <<books, rows, messages>>
tableVars   == <<applied, table, lastKey>>
monitorVars == <<monitor, m_ask, m_bid, askAt, bidAt>>
vars == <<venueVars, connected, tableVars, monitorVars, proc>>

EmptyBook == [s \in Sides |-> [p \in Prices |-> 0]]

Init ==
  /\ books = <<EmptyBook>> /\ rows = <<>> /\ messages = 0
  /\ connected = TRUE
  /\ applied = 0 /\ table = [s \in Sides |-> {}] /\ lastKey = [s \in Sides |-> 0]
  /\ monitor = "sleep" /\ m_ask = {} /\ m_bid = {} /\ askAt = 0 /\ bidAt = 0
  /\ proc = "up"

-----------------------------------------------------------------------------
\* The venue.

Latest == books[Len(books)]
Levels(b, s) == {p \in Prices : b[s][p] # 0}
Proper(b) == \A a \in Levels(b, "Sell"), d \in Levels(b, "Buy") : d < a

\* A message is sent: its rows, and the books they describe one after the
\* other.
Send(message, after) ==
  /\ rows' = rows \o message
  /\ books' = books \o after
  /\ messages' = messages + 1
  /\ Proper(after[Len(after)])
  /\ UNCHANGED <<connected, tableVars, monitorVars, proc>>

\* The answer to the subscription: the whole book, one ask and one bid here.
SendPartial ==
  /\ proc = "up" /\ connected /\ messages = 0
  /\ \E a, d \in Prices, x, y \in FirstSizes :
       LET one == [EmptyBook EXCEPT !["Sell"][a] = x]
           two == [one EXCEPT !["Buy"][d] = y]
       IN  Send(<<[act |-> "partial", side |-> "Sell", price |-> a, amount |-> x,
                   last |-> FALSE],
                  [act |-> "partial", side |-> "Buy", price |-> d, amount |-> y,
                   last |-> TRUE]>>,
                <<one, two>>)

\* One level appears, changes its size or disappears.
RowFor(s, p, q) ==
  [act  |-> IF Latest[s][p] = 0 THEN "insert" ELSE IF q = 0 THEN "delete" ELSE "update",
   side |-> s, price |-> p, amount |-> q, last |-> TRUE]
SendChange ==
  /\ proc = "up" /\ connected /\ messages \in 1 .. MaxMessages
  /\ \E s \in Sides, p \in Prices, q \in Sizes \union {0} :
       /\ q # Latest[s][p]
       /\ Send(<<RowFor(s, p, q)>>, <<[Latest EXCEPT ![s][p] = q]>>)

\* Two levels of a side disappear in one message.
SendDeletes ==
  /\ proc = "up" /\ connected /\ messages \in 1 .. MaxMessages
  /\ \E s \in Sides : \E p, q \in Levels(Latest, s) :
       /\ p < q
       /\ LET one == [Latest EXCEPT ![s][p] = 0]
          IN  Send(<<[RowFor(s, p, 0) EXCEPT !.last = FALSE], RowFor(s, q, 0)>>,
                   <<one, [one EXCEPT ![s][q] = 0]>>)

-----------------------------------------------------------------------------
\* The hub thread: statements on one table.  msgid is not unique in the
\* tables; every statement but the insertion selects by it.

insert_price_Swapped(t, key, p, q) ==
  t \union {[key |-> key, price |-> q, amount |-> p]}
insert_price(t, key, p, q) == t \union {[key |-> key, price |-> p, amount |-> q]}

delete_price_Everything(t, p) == {}
delete_price(t, p) == {r \in t : r.price # p}

update_price_Everywhere(t, p, q) == {[r EXCEPT !.amount = q] : r \in t}
update_price(t, p, q) ==
  {IF r.price = p THEN [r EXCEPT !.amount = q] ELSE r : r \in t}

MidMessage == applied > 0 /\ ~rows[applied].last

\* parse_priceamount_to_map, one row.  A message that has begun is finished
\* even if the stream goes down.
ApplyRow ==
  /\ proc = "up" /\ applied < Len(rows) /\ (connected \/ MidMessage)
  /\ applied' = applied + 1
  /\ LET r == rows[applied + 1]
         inserts == r.act \in {"partial", "insert"}
     IN  /\ lastKey' = IF inserts THEN [lastKey EXCEPT ![r.side] = @ + 1] ELSE lastKey
         /\ table' = [table EXCEPT ![r.side] =
              CASE inserts -> insert_price(@, lastKey[r.side] + 1, r.price, r.amount)
                [] r.act = "update" -> update_price(@, r.price, r.amount)
                [] r.act = "delete" -> delete_price(@, r.price)]
  /\ UNCHANGED <<venueVars, connected, monitorVars, proc>>

\* The tables stay as they are; there is no reconnection.
OnDisconnection ==
  /\ proc = "up" /\ connected /\ ~MidMessage
  /\ connected' = FALSE
  /\ UNCHANGED <<venueVars, tableVars, monitorVars, proc>>

-----------------------------------------------------------------------------
\* The monitor loop.

\* The rows of set t that come first by price, which the query adds up.
Before_Ascending(s, o, r) == o.price < r.price
Before(s, o, r) == IF s = "Sell" THEN o.price < r.price ELSE o.price > r.price
Figure(t, s) == {r \in t : Cardinality({o \in t : Before(s, o, r)}) < Depth}

\* sum() over an empty table is NULL, and stod of the null pointer ends the
\* process.
Query(s, figure) ==
  IF table[s] = {} THEN proc' = "dead" /\ UNCHANGED figure
                   ELSE figure' = Figure(table[s], s) /\ UNCHANGED proc

select_askamount ==
  /\ proc = "up" /\ monitor = "sleep"
  /\ monitor' = "bid" /\ askAt' = applied
  /\ Query("Sell", m_ask)
  /\ UNCHANGED <<venueVars, connected, tableVars, m_bid, bidAt>>

select_bidamount ==
  /\ proc = "up" /\ monitor = "bid"
  /\ monitor' = "send" /\ bidAt' = applied
  /\ Query("Buy", m_bid)
  /\ UNCHANGED <<venueVars, connected, tableVars, m_ask, askAt>>

\* socket.send and the next sleep; BookMonitor says what becomes of the
\* message.
SendReading ==
  /\ proc = "up" /\ monitor = "send"
  /\ monitor' = "sleep"
  /\ UNCHANGED <<venueVars, connected, tableVars, m_ask, m_bid, askAt, bidAt, proc>>

-----------------------------------------------------------------------------
Next == \/ SendPartial \/ SendChange \/ SendDeletes
        \/ ApplyRow \/ OnDisconnection
        \/ select_askamount \/ select_bidamount \/ SendReading

Spec == Init /\ [][Next]_vars

-----------------------------------------------------------------------------
TypeOK ==
  /\ books \in Seq(Books) /\ rows \in Seq(Rows) /\ messages \in Nat
  /\ connected \in BOOLEAN /\ proc \in {"up", "dead"}
  /\ applied \in Nat /\ lastKey \in [Sides -> Nat]
  /\ table \in [Sides -> SUBSET TableRows]
  /\ monitor \in {"sleep", "bid", "send"}
  /\ m_ask \in SUBSET TableRows /\ m_bid \in SUBSET TableRows /\ askAt \in Nat /\ bidAt \in Nat

\* The tables hold the book that the rows applied so far describe, each level
\* once: although msgid is not unique, no level is doubled, left behind or
\* changed by a statement meant for another.
LevelsIn(t) == {<<r.price, r.amount>> : r \in t}
BookRows(b, s) == {<<p, b[s][p]>> : p \in Levels(b, s)}
TablesAreVenueBook ==
  \A s \in Sides :
    /\ LevelsIn(table[s]) = BookRows(books[applied + 1], s)
    /\ \A r, o \in table[s] : r.price = o.price => r = o

\* The levels that the figure of a side should add up when the book is b.
Best(b, s) ==
  {p \in Levels(b, s) :
     Cardinality({q \in Levels(b, s) : IF s = "Buy" THEN q > p ELSE q < p}) < Depth}
VenueFigure(b, s) == {<<p, b[s][p]>> : p \in Best(b, s)}

\* The rows f add up to that figure: its levels, each once.
IsVenueFigure(f, b, s) ==
  /\ LevelsIn(f) = VenueFigure(b, s)
  /\ \A r, o \in f : r.price = o.price => r = o

\* A query finds an empty table only where the venue's book has an empty side
\* at that row, or before the partial is in: the program does not empty one on
\* its own, and in particular not by a delete.
SideEmpty(b, s) == Levels(b, s) = {}
MonitorDiesOfEmptySide ==
  proc = "dead" => IF monitor = "bid" THEN SideEmpty(books[askAt + 1], "Sell")
                                      ELSE SideEmpty(books[bidAt + 1], "Buy")
=============================================================================
