---------------------------- MODULE AskBidTables ----------------------------
(***************************************************************************)
(* The order books that okex, exg58coin and bitfinex keep in two std::maps *)
(* per symbol: subscribe_depth empties them and asks for the book, the hub *)
(* thread stores and erases one level at a time, and bitfinexbook() runs   *)
(* through them with reverse iterators once a second.  There is no lock.   *)
(*                                                                         *)
(* A map is a set of pairs <<price, amount>>.  A reverse iterator is the   *)
(* price of the node it holds, its base(): it designates the level just    *)
(* below, whatever that is when it is used.  Each access to a map is       *)
(* atomic here.                                                            *)
(*                                                                         *)
(* A definition named A_Something is not part of the model: it is A with a *)
(* fault, kept to show that a property notices the fault.                  *)
(***************************************************************************)
EXTENDS Integers, FiniteSets, SequencesExt

CONSTANTS Classes, Prices, Sizes,
          Depth,         \* levels the monitor adds up, 17 in the code
          MaxCalls,      \* bound on the subscriptions
          MaxChanges,    \* bound on the changes of the venue's book
          MaxTurns       \* bound on the turns of the monitor

ASSUME ClassesAssumption == Classes \subseteq {"okex", "exg58coin", "bitfinex"}
ASSUME LevelsAssumption ==
  /\ Prices \subseteq Nat \ {0} /\ Prices # {} /\ IsFiniteSet(Prices)
  /\ Sizes \subseteq Nat \ {0} /\ Sizes # {}
ASSUME DepthAssumption == Depth \in Nat \ {0}
ASSUME BoundsAssumption == MaxCalls \in Nat /\ MaxChanges \in Nat /\ MaxTurns \in Nat

Sides == {"ask", "bid"}
End == Max(Prices) + 1      \* base() of rbegin()

\* The venue's book: a level is a bid, an ask or empty.
NoLevel == [side |-> "none", size |-> 0]
Levels == [side : Sides, size : Sizes] \union {NoLevel}
Books == [Prices -> Levels]
Proper(b) ==
  \A p, q \in Prices : b[p].side = "bid" /\ b[q].side = "ask" => p < q

VARIABLES
  class,
  proc,       \* up, or dead of an assertion or of a lost iterator
  book,       \* the book of the venue
  changes,    \* how often it has changed
  asked,      \* subscriptions the venue has to answer with the whole book
  following,  \* it sends the changes
  wire,       \* messages under way
  message,    \* what is left of the message in onMessage, or None
  table,      \* the two maps
  app,        \* the application: ready, clear (between emptying the maps and
              \* the request), or, in bitfinexbook(), what the loop does next:
              \* sleep, check, first, second, step, ratio
  calls, turns,
  pass,       \* the map the loop runs through
  base,       \* its iterator, or Dangling
  count,      \* cnt_ask, cnt_bid
  price,      \* rit->first
  sum,        \* book_asksum and book_bidsum: the products added up
  \* Not in the program, only in the properties:
  shown,      \* the venue's book after the last message handled
  seen,       \* the levels messages have told of since the maps were emptied
  whole,      \* a snapshot has been applied to the emptied maps
  started,    \* the map when the pass began
  disturbed,  \* levels the hub thread has stored or erased during the pass
  erased,     \* one of them was erased
  wild        \* the pass has used an iterator that designates nothing

venueVars  == <<book, changes, asked, following>>
loopVars   == <<turns, pass, base, count, price, sum, started>>
passVars   == <<disturbed, erased, wild>>
tableVars  == <<table, seen, whole>>
vars == <<class, proc, venueVars, wire, message, shown, tableVars, app, calls,
          loopVars, passVars>>

Dangling == 0
None == [items |-> <<>>]
Junk == <<0, 0>>
EmptyTable == [s \in Sides |-> {}]

\* Any book whose levels have one size, whichever.  The constructor of bitfinex
\* initialises neither sum.
Init ==
  /\ class \in Classes /\ proc = "up"
  /\ book \in {b \in Books : Proper(b) /\ \A p \in Prices : b[p].size <= Min(Sizes)}
  /\ changes = 0 /\ asked = 0 /\ following = FALSE
  /\ wire = <<>> /\ message = None /\ table = EmptyTable
  /\ app = "ready" /\ calls = 0 /\ turns = 0
  /\ pass = "ask" /\ base = End /\ count = 0 /\ price = 0
  /\ sum = [s \in Sides |-> <<Junk>>]
  /\ shown = book /\ seen = {} /\ whole = FALSE
  /\ started = {} /\ disturbed = {} /\ erased = FALSE /\ wild = FALSE

-----------------------------------------------------------------------------
\* The venue.

\* How a message says that level p has size q on side s, 0 for none: a bitfinex
\* level is a price, a count and an amount that is negative for asks.
Sign(s) == IF s = "ask" THEN -1 ELSE 1
Item(s, p, q) ==
  IF class = "bitfinex"
  THEN [price |-> p, cnt |-> Min({q, 1}), amt |-> Sign(s) * Max({q, 1})]
  ELSE [side |-> s, price |-> p, amount |-> q]

\* The asks come first, as in the objects of okex, the levels of a side in some
\* order.
SideItems(b, s) ==
  LET ps == SetToSeq({p \in Prices : b[p].side = s})
  IN  [i \in DOMAIN ps |-> Item(s, ps[i], b[ps[i]].size)]
Snapshot == [items |-> SideItems(book, "ask") \o SideItems(book, "bid"),
             snapshot |-> TRUE, after |-> book]

\* The request of subscribe_depth is answered.
VenueAnswers ==
  /\ proc = "up" /\ asked > 0
  /\ asked' = asked - 1 /\ following' = TRUE
  /\ wire' = Append(wire, Snapshot)
  /\ UNCHANGED <<class, proc, book, changes, message, shown, tableVars, app, calls,
                 loopVars, passVars>>

\* A level changes its size, appears or disappears; on okex it may also change
\* sides, which one message tells in two items.
VenueChanges ==
  /\ proc = "up" /\ following /\ changes < MaxChanges
  /\ \E p \in Prices : \E l \in Levels \ {book[p]} :
       LET now == [book EXCEPT ![p] = l]
           sides == {l.side, book[p].side} \intersect Sides
           told == IF sides = Sides THEN <<"ask", "bid">> ELSE SetToSeq(sides)
           size(s) == IF l.side = s THEN l.size ELSE 0
       IN  /\ Proper(now) /\ book' = now
           /\ class = "bitfinex" => Len(told) = 1
           /\ wire' = Append(wire,
                [items |-> [i \in DOMAIN told |-> Item(told[i], p, size(told[i]))],
                 snapshot |-> FALSE, after |-> now])
  /\ changes' = changes + 1
  /\ UNCHANGED <<class, proc, asked, following, message, shown, tableVars, app, calls,
                 loopVars, passVars>>

-----------------------------------------------------------------------------
\* The hub thread.

Put(t, p, q) == {x \in t : x[1] # p} \union {<<p, q>>}
Erase_StoresZero(t, p) == Put(t, p, 0)
Erase(t, p) == {x \in t : x[1] # p}

\* What an item does: the side it is about and the amount stored, 0 to erase.
\* bitfinex erases only if the amount is exactly 1 or -1.
ItemSide(i) == IF class # "bitfinex" THEN i.side
               ELSE IF i.amt > 0 THEN "bid" ELSE "ask"
ItemAmount_KeepsCount(i) == IF class = "bitfinex" THEN i.amt ELSE i.amount
ItemAmount(i) == IF class # "bitfinex" THEN i.amount
                 ELSE IF i.cnt > 0 THEN i.amt ELSE 0

\* onMessage begins.  bitfinex takes an array of three for one level and reads
\* its first element as a number; shorter ones are passed over.
Receive ==
  /\ proc = "up" /\ message = None /\ wire # <<>>
  /\ wire' = Tail(wire)
  /\ LET m == Head(wire)
         n == IF m.snapshot /\ class = "bitfinex" THEN Len(m.items) ELSE 4
     IN  \/ n = 3 /\ proc' = "assertion" /\ UNCHANGED <<message, shown>>
         \/ /\ n > 3 /\ m.items # <<>>
            /\ message' = m /\ UNCHANGED <<proc, shown>>
         \/ /\ n < 3 \/ m.items = <<>>
            /\ shown' = m.after /\ UNCHANGED <<proc, message>>
  /\ UNCHANGED <<class, venueVars, tableVars, app, calls, loopVars, passVars>>

\* One level of the message.  Storing into a node keeps it where it is, erasing
\* it leaves an iterator that holds it dangling.
Invalidates_Always(i) == TRUE
Invalidates(i) == ItemAmount(i) = 0
ApplyItem ==
  /\ proc = "up" /\ message # None
  /\ LET i == Head(message.items)
         p == i.price
         s == ItemSide(i)
         q == ItemAmount(i)
         here == app \notin {"ready", "clear", "sleep"} /\ s = pass
         there == \E x \in table[s] : x[1] = p
         ends == Len(message.items) = 1
     IN  /\ table' = [table EXCEPT ![s] = IF q = 0 THEN Erase(@, p) ELSE Put(@, p, q)]
         /\ seen' = seen \union {<<s, p>>}
         /\ message' = IF ends THEN None ELSE [message EXCEPT !.items = Tail(@)]
         /\ shown' = IF ends THEN message.after ELSE shown
         /\ whole' = (whole \/ (ends /\ message.snapshot))
         /\ base' = IF here /\ base = p /\ Invalidates(i) THEN Dangling ELSE base
         /\ disturbed' = IF here THEN disturbed \union {p} ELSE disturbed
         /\ erased' = (erased \/ (here /\ there /\ q = 0))
  /\ UNCHANGED <<class, proc, venueVars, wire, app, calls, turns, pass, count, price, sum,
                 started, wild>>

-----------------------------------------------------------------------------
\* The application.

\* subscribe_depth: the maps are replaced by empty ones, and then the request
\* is sent.  A message that is being handled goes on into the empty maps.
Clear ==
  /\ table' = EmptyTable /\ seen' = {} /\ whole' = FALSE
  /\ message' = IF message = None THEN None ELSE [message EXCEPT !.snapshot = FALSE]
SubscribeDepth ==
  /\ proc = "up" /\ app = "ready" /\ calls < MaxCalls
  /\ app' = "clear" /\ calls' = calls + 1
  /\ Clear
  /\ UNCHANGED <<class, proc, venueVars, wire, shown, loopVars, passVars>>

Request ==
  /\ proc = "up" /\ app = "clear"
  /\ asked' = asked + 1
  /\ app' = IF class = "bitfinex" THEN "sleep" ELSE "ready"
  /\ UNCHANGED <<class, proc, book, changes, following, wire, message, shown, tableVars,
                 calls, loopVars, passVars>>

-----------------------------------------------------------------------------
\* The loop of bitfinexbook().

loopStep == <<class, venueVars, wire, message, shown, tableVars, calls>>

\* for (rit = rbegin(); ...): the asks first, then the bids.
Begin(s) ==
  /\ pass' = s /\ base' = End /\ count' = 0 /\ price' = End
  /\ started' = table[s] /\ disturbed' = {} /\ erased' = FALSE /\ wild' = FALSE
  /\ app' = "check"

Wake ==
  /\ proc = "up" /\ app = "sleep" /\ turns < MaxTurns
  /\ turns' = turns + 1
  /\ Begin("ask")
  /\ UNCHANGED <<loopStep, proc, sum>>

\* What the iterator designates: the level below its base.
Below == {x \in table[pass] : x[1] < base}
Designated_Lowest == CHOOSE x \in Below : \A y \in Below : y[1] >= x[1]
Designated == CHOOSE x \in Below : \A y \in Below : y[1] <= x[1]

\* A base that was erased, or that has become begin(), designates nothing: the
\* process dies, or the pass adds up something and comes to an end.
Astray ==
  /\ \/ proc' = "lost" /\ UNCHANGED <<app, sum, wild>>
     \/ /\ app' = "done" /\ sum' = [sum EXCEPT ![pass] = Append(@, Junk)]
        /\ wild' = TRUE /\ UNCHANGED proc
  /\ UNCHANGED <<turns, pass, base, count, price, started, disturbed, erased>>

\* rit != rend()
Check ==
  /\ proc = "up" /\ app = "check"
  /\ app' = IF base # Dangling /\ Below = {} THEN "done" ELSE "first"
  /\ UNCHANGED <<loopStep, proc, loopVars, passVars>>

\* rit->first and rit->second each look for the level anew.
ReadFirst ==
  /\ proc = "up" /\ app = "first"
  /\ IF Below = {} THEN Astray
     ELSE /\ app' = "second" /\ price' = Designated[1]
          /\ UNCHANGED <<proc, turns, pass, base, count, sum, started, passVars>>
  /\ UNCHANGED loopStep

ReadSecond ==
  /\ proc = "up" /\ app = "second"
  /\ IF Below = {} THEN Astray
     ELSE /\ app' = "step"
          /\ sum' = [sum EXCEPT ![pass] = Append(@, <<price, Designated[2]>>)]
          /\ UNCHANGED <<proc, turns, pass, base, count, price, started, passVars>>
  /\ UNCHANGED loopStep

\* if (cnt > 15) break; cnt++; rit++
Enough_Late == count > Depth - 1
Enough == count > Depth - 2
Step ==
  /\ proc = "up" /\ app = "step"
  /\ \/ /\ Enough /\ app' = "done"
        /\ UNCHANGED <<proc, loopVars, passVars>>
     \/ /\ ~Enough
        /\ IF Below = {} THEN Astray
           ELSE /\ app' = "check" /\ count' = count + 1 /\ base' = Designated[1]
                /\ UNCHANGED <<proc, turns, pass, price, sum, started, passVars>>
  /\ UNCHANGED loopStep

\* After the asks the bids; after the bids the ratio is printed and both sums
\* are set to zero.
PassEnds ==
  /\ proc = "up" /\ app = "done"
  /\ \/ pass = "ask" /\ Begin("bid") /\ UNCHANGED <<turns, sum>>
     \/ /\ pass = "bid" /\ app' = "sleep" /\ sum' = [s \in Sides |-> <<>>]
        /\ UNCHANGED <<turns, pass, base, count, price, started, passVars>>
  /\ UNCHANGED <<loopStep, proc>>

-----------------------------------------------------------------------------
Next == \/ VenueAnswers \/ VenueChanges
        \/ Receive \/ ApplyItem
        \/ SubscribeDepth \/ Request
        \/ Wake \/ Check \/ ReadFirst \/ ReadSecond \/ Step \/ PassEnds

Spec == Init /\ [][Next]_vars

-----------------------------------------------------------------------------
Amounts == Sizes \union {-q : q \in Sizes}
TypeOK ==
  /\ class \in Classes /\ proc \in {"up", "assertion", "lost"}
  /\ book \in Books /\ shown \in Books /\ Proper(book)
  /\ changes \in Nat /\ asked \in Nat /\ following \in BOOLEAN
  /\ \A m \in Range(wire) \union {message} : m.items # <<>> /\ m # None => m.after \in Books
  /\ table \in [Sides -> SUBSET (Prices \X Amounts)]
  /\ app \in {"ready", "clear", "sleep", "check", "first", "second", "step", "done"}
  /\ calls \in Nat /\ turns \in Nat /\ pass \in Sides
  /\ base \in Prices \union {End, Dangling} /\ count \in 0 .. Depth - 1
  /\ price \in Nat
  /\ \A s \in Sides : \A x \in Range(sum[s]) : x = Junk \/ x \in Prices \X Amounts
  /\ seen \in SUBSET (Sides \X Prices) /\ whole \in BOOLEAN
  /\ started \in SUBSET (Prices \X Amounts) /\ disturbed \in SUBSET Prices
  /\ erased \in BOOLEAN /\ wild \in BOOLEAN

\* Between two messages the maps hold the venue's book as of the last one: all
\* of it once a snapshot has been applied to the emptied maps, and before that
\* exactly the levels messages have told of since they were emptied, whether or
\* not that happened in the middle of a message.
Stored(s, q) == IF class = "bitfinex" THEN Sign(s) * q ELSE q
Known(s) == {p \in Prices : shown[p].side = s /\ (whole \/ <<s, p>> \in seen)}
TablesFollowVenue ==
  (proc = "up" /\ message = None) =>
    \A s \in Sides : table[s] = {<<p, Stored(s, shown[p].size)>> : p \in Known(s)}

\* A pass that no change of its map fell into adds up the levels with the
\* highest prices, from the top, Depth of them if there are as many; what was
\* in the sum before is there only in the first turn.
Added == IF turns = 1 THEN Tail(sum[pass]) ELSE sum[pass]
IsTopOf(t, levels, n) ==
  /\ Range(t) \subseteq levels /\ Len(t) <= n
  /\ \A i, j \in DOMAIN t : i < j => t[i][1] > t[j][1]
  /\ \A x \in levels \ Range(t) : Len(t) = n /\ \A i \in DOMAIN t : t[i][1] > x[1]
UndisturbedPassIsTop ==
  (app = "done" /\ disturbed = {}) =>
    /\ turns = 1 => Head(sum[pass]) = Junk
    /\ IsTopOf(Added, started, Depth)

\* The iterator is lost only to an erasure of a level on its side in the same
\* pass: storing and inserting levels under it never hurts.
OnlyErasingHarms == (wild \/ proc = "lost") => erased

\* Whatever is stored and inserted during a pass, a level that stands throughout
\* and is above the last price read is added up with its amount.  (The last
\* level itself may get the amount of one inserted between rit->first and
\* rit->second.)  An erasure may make the pass skip a level: rit++ starts from
\* the base, and if the level just read is gone it passes over the next.
SteadyLevelsCounted ==
  (app = "done" /\ ~erased) =>
    \A x \in started :
      (x[1] \notin disturbed /\ x[1] > price) => x \in Range(sum[pass])
=============================================================================
