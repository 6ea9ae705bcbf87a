---------------------------- MODULE BinanceDepth ----------------------------
(***************************************************************************)
(* Class binance: one local book per symbol, made from a REST snapshot and *)
(* the depth events of a WebSocket stream.  Every subscribe_depth and      *)
(* cancel_subscribe_depth terminates the stream and starts a new hub       *)
(* thread whose URI lists the symbols present in symbol_askbid_table.      *)
(*                                                                         *)
(* One side of the book is modelled (both sides run the same loop); a      *)
(* level that is absent has quantity 0.  No lock guards the maps: each     *)
(* access to them is a step, so that a snapshot is cleared and stored      *)
(* level by level in one thread while events are tested and stored level   *)
(* by level in others.  The venue numbers the changes of a symbol 1, 2,    *)
(* ... ; books is what its book was after each of them.                    *)
(*                                                                         *)
(* A definition named A_Something is not part of the model: it is A with a *)
(* fault, kept to show that a property notices the fault.                  *)
(***************************************************************************)
EXTENDS Naturals, Sequences, FiniteSets

CONSTANTS Symbols,
          Prices,         \* a higher price is a better one
          Quantities,     \* of a level that exists
          SnapshotLimit,  \* levels get_snapshot_depth asks for
          Patient,        \* the application calls only while Settled
          MaxUpdates, MaxThreads, MaxCalls  \* bounds

ASSUME PricesAssumption == Prices \subseteq Nat
ASSUME QuantitiesAssumption == Quantities \subseteq Nat \ {0} /\ Quantities # {}
ASSUME PatientAssumption == Patient \in BOOLEAN
ASSUME BoundsAssumption == MaxUpdates \in Nat /\ MaxThreads \in Nat \ {0}
                             /\ MaxCalls \in Nat

Threads == 1 .. MaxThreads
Books == [Prices -> Quantities \union {0}]
Empty == [p \in Prices |-> 0]
Idle == [event |-> FALSE]
Events == [event : {TRUE}, symbol : Symbols, U : Nat, u : Nat]

VARIABLES
  books,         \* per symbol, the venue's successive books
  listed,        \* the keys of symbol_askbid_table
  table,         \* its values
  lastUpdateId,  \* in depth_info; 0 where there is no entry
  thread,        \* hub threads: none, one of Rising, open or gone
  streams,       \* the symbols in the URI of a thread
  sent,          \* per thread and symbol, the last update put in an event
  handling,      \* the event a thread's onMessage is working on
  left,          \* the levels of it to be stored, {} before it is tested
  ws, wsconn_state,  \* ws: the thread whose socket it designates, 0 before
  main, symbol,  \* the application thread and the argument of its call
  reply,         \* of the REST request: none, an error object or a book
  snapshot,      \* the update at which the book was taken
  unparsed,      \* the levels of it to be stored
  proc, calls,
  sync           \* what the book of a symbol may be compared with, see below

venueVars == <<books>>
bookVars  == <<listed, table, lastUpdateId, sync>>
hubVars   == <<thread, streams, sent, handling, left>>
replyVars == <<reply, snapshot, unparsed>>
mainVars  == <<main, symbol, replyVars, calls>>
vars == <<venueVars, bookVars, hubVars, ws, wsconn_state, mainVars, proc>>

-----------------------------------------------------------------------------
Latest(s) == Len(books[s])

\* The levels that changes U..u of symbol s touched.
Touched(s, U, u) ==
  {p \in Prices : \E i \in U .. u : books[s][i][p] # books[s][i - 1][p]}

\* The best SnapshotLimit levels of a book, and the prices they tell us
\* everything about.
Better(b, p) == {q \in Prices : q > p /\ b[q] # 0}
Top(b) == [p \in Prices |-> IF Cardinality(Better(b, p)) < SnapshotLimit
                              THEN b[p] ELSE 0]
Covered(b) == {p \in Prices : Cardinality(Better(b, p)) < SnapshotLimit}

\* A hub thread on its way to a connection.
Rising == {"starting", "listing", "dialling", "connecting"}

Settled == main = "idle" /\ \A t \in Threads : thread[t] \notin Rising

NoSync == [ok |-> FALSE, at |-> 0, seen |-> {}]

Init ==
  /\ books = [s \in Symbols |-> << [p \in Prices |-> CHOOSE q \in Quantities : TRUE] >>]
  /\ listed = {} /\ table = [s \in Symbols |-> Empty]
  /\ lastUpdateId = [s \in Symbols |-> 0]
  /\ sync = [s \in Symbols |-> NoSync]
  /\ thread = [t \in Threads |-> "none"]
  /\ streams = [t \in Threads |-> {}]
  /\ sent = [t \in Threads |-> [s \in Symbols |-> 0]]
  /\ handling = [t \in Threads |-> Idle] /\ left = [t \in Threads |-> {}]
  /\ ws = 0 /\ wsconn_state = FALSE
  /\ main = "idle" /\ symbol \in Symbols
  /\ reply = "none" /\ snapshot = 0 /\ unparsed = {}
  /\ proc = "up" /\ calls = 0

-----------------------------------------------------------------------------
\* The venue changes one level.
VenueUpdates(s) ==
  /\ proc = "up" /\ Latest(s) <= MaxUpdates
  /\ \E p \in Prices, q \in Quantities \union {0} :
       /\ q # books[s][Latest(s)][p]
       /\ books' = [books EXCEPT ![s] =
                      Append(@, [@[Latest(s)] EXCEPT ![p] = q])]
  /\ UNCHANGED <<bookVars, hubVars, ws, wsconn_state, mainVars, proc>>

-----------------------------------------------------------------------------
\* The application thread.

MayCall == /\ proc = "up" /\ main = "idle" /\ calls < MaxCalls
           /\ \E t \in Threads : thread[t] = "none"
           /\ Patient => Settled

SubscribeDepth(s) ==
  /\ MayCall
  /\ main' = "sub_check" /\ symbol' = s /\ calls' = calls + 1
  /\ listed' = listed \union {s}
  /\ table' = [table EXCEPT ![s] = Empty]
  /\ sync' = [sync EXCEPT ![s] = NoSync]
  /\ UNCHANGED <<venueVars, lastUpdateId, hubVars, ws, wsconn_state, replyVars,
                 proc>>

\* The two maps are erased one after the other.
CancelSubscribeDepth(s) ==
  /\ MayCall
  /\ main' = "cancel_info" /\ symbol' = s /\ calls' = calls + 1
  /\ listed' = listed \ {s}
  /\ table' = [table EXCEPT ![s] = Empty]
  /\ sync' = [sync EXCEPT ![s] = NoSync]
  /\ UNCHANGED <<venueVars, lastUpdateId, hubVars, ws, wsconn_state, replyVars,
                 proc>>

EraseDepthInfo ==
  /\ proc = "up" /\ main = "cancel_info"
  /\ main' = "cancel_check"
  /\ lastUpdateId' = [lastUpdateId EXCEPT ![symbol] = 0]
  /\ UNCHANGED <<venueVars, listed, table, sync, hubVars, ws, wsconn_state,
                 symbol, replyVars, calls, proc>>

\* if(wsconn_state) ws->terminate(): the flag is read in one step and the
\* pointer used in the next.
AfterTerminate == IF main \in {"sub_check", "sub_kill"} THEN "request"
                                                        ELSE "restart"

CheckConnState_SubscribeOnly ==
  /\ proc = "up" /\ main \in {"sub_check", "cancel_check"}
  /\ main' = IF wsconn_state /\ main = "sub_check" THEN "sub_kill"
                                                   ELSE AfterTerminate
  /\ UNCHANGED <<venueVars, bookVars, hubVars, ws, wsconn_state, symbol,
                 replyVars, calls, proc>>

CheckConnState ==
  /\ proc = "up" /\ main \in {"sub_check", "cancel_check"}
  /\ main' = CASE ~wsconn_state -> AfterTerminate
               [] wsconn_state /\ main = "sub_check" -> "sub_kill"
               [] wsconn_state /\ main = "cancel_check" -> "cancel_kill"
  /\ UNCHANGED <<venueVars, bookVars, hubVars, ws, wsconn_state, symbol,
                 replyVars, calls, proc>>

\* terminate() runs onDisconnection before it frees the socket.  An onMessage
\* already running in the hub thread goes on.  Through a pointer that
\* designates no open socket the outcome is undefined: the process dies, or
\* nothing happens.
WsIsOpen == ws # 0 /\ thread[ws] = "open"

Terminate ==
  /\ proc = "up" /\ main \in {"sub_kill", "cancel_kill"}
  /\ main' = AfterTerminate
  /\ IF WsIsOpen
       THEN /\ thread' = [thread EXCEPT ![ws] = "gone"]
            /\ wsconn_state' = FALSE
            /\ UNCHANGED proc
       ELSE /\ proc' \in {"up", "dead"}
            /\ UNCHANGED <<thread, wsconn_state>>
  /\ UNCHANGED <<venueVars, bookVars, streams, sent, handling, left, ws, symbol,
                 replyVars, calls>>

\* https_get fails and returns "", or the venue answers with an object that
\* tells an error, or with its latest book.
RequestSnapshot ==
  /\ proc = "up" /\ main = "request"
  /\ main' = "parse"
  /\ \/ reply' \in {"none", "error"} /\ UNCHANGED <<snapshot, unparsed>>
     \/ /\ reply' = "book" /\ snapshot' = Latest(symbol)
        /\ unparsed' = {p \in Prices : Top(books[symbol][Latest(symbol)])[p] # 0}
  /\ UNCHANGED <<venueVars, bookVars, hubVars, ws, wsconn_state, symbol, calls,
                 proc>>

\* The levels of the book of s that a thread has still to store.
BeingHandled(s) == UNION {left[t] : t \in {o \in Threads : handling[o] # Idle
                                                      /\ handling[o].symbol = s}}
ToBeStored(s) == BeingHandled(s)
                   \union (IF symbol = s THEN unparsed ELSE {})

\* parse_snapshot_to_map clears the book whatever the reply is.  From here on
\* the book is to be the snapshot's, unless an event accepted before is being
\* stored.
ParseClears ==
  /\ proc = "up" /\ main = "parse"
  /\ main' = IF reply = "none" THEN "parse_levels" ELSE "parse_id"
  /\ listed' = listed \union {symbol}
  /\ table' = [table EXCEPT ![symbol] = Empty]
  /\ sync' = [sync EXCEPT ![symbol] =
                IF reply = "book"
                  THEN [ok |-> BeingHandled(symbol) = {}, at |-> snapshot,
                        seen |-> Covered(books[symbol][snapshot])]
                  ELSE NoSync]
  /\ UNCHANGED <<venueVars, lastUpdateId, hubVars, ws, wsconn_state, symbol,
                 replyVars, calls, proc>>

\* An error object has no lastUpdateId: RapidJSON's assertion fails.
ParseStoresId_Next ==
  /\ proc = "up" /\ main = "parse_id"
  /\ IF reply = "error"
       THEN proc' = "dead" /\ UNCHANGED <<main, lastUpdateId>>
       ELSE /\ main' = "parse_levels"
            /\ lastUpdateId' = [lastUpdateId EXCEPT ![symbol] = snapshot + 1]
            /\ UNCHANGED proc
  /\ UNCHANGED <<venueVars, listed, table, sync, hubVars, ws, wsconn_state,
                 symbol, replyVars, calls>>

ParseStoresId ==
  /\ proc = "up" /\ main = "parse_id"
  /\ IF reply = "error"
       THEN proc' = "dead" /\ UNCHANGED <<main, lastUpdateId>>
       ELSE /\ main' = "parse_levels"
            /\ lastUpdateId' = [lastUpdateId EXCEPT ![symbol] = snapshot]
            /\ UNCHANGED proc
  /\ UNCHANGED <<venueVars, listed, table, sync, hubVars, ws, wsconn_state,
                 symbol, replyVars, calls>>

ParseStoresLevel ==
  /\ proc = "up" /\ main = "parse_levels"
  /\ \E p \in unparsed :
       /\ unparsed' = unparsed \ {p}
       /\ table' = [table EXCEPT ![symbol][p] = books[symbol][snapshot][p]]
  /\ listed' = listed \union {symbol}
  /\ UNCHANGED <<venueVars, lastUpdateId, sync, hubVars, ws, wsconn_state, main,
                 symbol, reply, snapshot, calls, proc>>

\* start_stream: the new hub thread is detached, nobody waits for it or for
\* the thread before it.
StartStream ==
  LET t == CHOOSE t \in Threads :
             thread[t] = "none" /\ \A o \in Threads : thread[o] = "none" => t <= o
  IN  thread' = [thread EXCEPT ![t] = "starting"]

\* subscribe_depth, at its end.
StartAfterSnapshot ==
  /\ proc = "up" /\ main = "parse_levels" /\ unparsed = {}
  /\ main' = "idle" /\ reply' = "none" /\ snapshot' = 0
  /\ StartStream
  /\ UNCHANGED <<venueVars, bookVars, streams, sent, handling, left, ws,
                 wsconn_state, symbol, unparsed, calls, proc>>

\* cancel_subscribe_depth, at its end.
Restart ==
  /\ proc = "up" /\ main = "restart"
  /\ main' = "idle"
  /\ IF listed # {} THEN StartStream ELSE UNCHANGED thread
  /\ UNCHANGED <<venueVars, bookVars, streams, sent, handling, left, ws,
                 wsconn_state, symbol, replyVars, calls, proc>>

-----------------------------------------------------------------------------
\* Hub thread t.

\* A thread that finds no symbol ends.
FindSymbols(t) ==
  /\ proc = "up" /\ thread[t] = "starting"
  /\ thread' = [thread EXCEPT ![t] = IF listed = {} THEN "gone" ELSE "listing"]
  /\ UNCHANGED <<venueVars, bookVars, streams, sent, handling, left, ws,
                 wsconn_state, mainVars, proc>>

\* get_symbol_uri.
GetSymbolUri(t) ==
  /\ proc = "up" /\ thread[t] = "listing"
  /\ thread' = [thread EXCEPT ![t] = "dialling"]
  /\ streams' = [streams EXCEPT ![t] = listed]
  /\ UNCHANGED <<venueVars, bookVars, sent, handling, left, ws, wsconn_state,
                 mainVars, proc>>

\* h.connect, and wsconn_state set before the handshake.
Connect(t) ==
  /\ proc = "up" /\ thread[t] = "dialling"
  /\ thread' = [thread EXCEPT ![t] = "connecting"]
  /\ wsconn_state' = TRUE
  /\ UNCHANGED <<venueVars, bookVars, streams, sent, handling, left, ws,
                 mainVars, proc>>

\* User data 9 reaches the default branch of onError.
OnError(t) ==
  /\ proc = "up" /\ thread[t] = "connecting"
  /\ proc' = "dead"
  /\ UNCHANGED <<venueVars, bookVars, hubVars, ws, wsconn_state, mainVars>>

\* The stream carries the changes made from now on.
OnConnection_KeepsWs(t) ==
  /\ proc = "up" /\ thread[t] = "connecting"
  /\ thread' = [thread EXCEPT ![t] = "open"]
  /\ wsconn_state' = TRUE
  /\ sent' = [sent EXCEPT ![t] = [s \in Symbols |-> Latest(s)]]
  /\ UNCHANGED <<venueVars, bookVars, streams, handling, left, ws, mainVars,
                 proc>>

OnConnection(t) ==
  /\ proc = "up" /\ thread[t] = "connecting"
  /\ thread' = [thread EXCEPT ![t] = "open"]
  /\ wsconn_state' = TRUE /\ ws' = t
  /\ sent' = [sent EXCEPT ![t] = [s \in Symbols |-> Latest(s)]]
  /\ UNCHANGED <<venueVars, bookVars, streams, handling, left, mainVars, proc>>

\* The venue or the network ends the connection.
OnDisconnection(t) ==
  /\ proc = "up" /\ thread[t] = "open" /\ handling[t] = Idle
  /\ thread' = [thread EXCEPT ![t] = "gone"]
  /\ wsconn_state' = FALSE
  /\ UNCHANGED <<venueVars, bookVars, streams, sent, handling, left, ws,
                 mainVars, proc>>

\* onMessage starts on the next event of symbol s, which covers one change or
\* several.
OnMessage(t, s) ==
  /\ proc = "up" /\ thread[t] = "open" /\ handling[t] = Idle
  /\ s \in streams[t]
  /\ \E u \in sent[t][s] + 1 .. Latest(s) :
       /\ handling' = [handling EXCEPT ![t] =
                         [event |-> TRUE, symbol |-> s, U |-> sent[t][s] + 1, u |-> u]]
       /\ sent' = [sent EXCEPT ![t][s] = u]
  /\ UNCHANGED <<venueVars, bookVars, thread, streams, left, ws, wsconn_state,
                 mainVars, proc>>

\* parse_priceamount_to_map tests the event against the lastUpdateId of now.
\* The bracketing test and prev_u decide nothing.
Stale_Never(e) == FALSE

Stale(e) == e.u < lastUpdateId[e.symbol]

DropEvent(t) ==
  /\ proc = "up" /\ handling[t] # Idle /\ left[t] = {}
  /\ Stale(handling[t])
  /\ handling' = [handling EXCEPT ![t] = Idle]
  /\ UNCHANGED <<venueVars, bookVars, thread, streams, sent, left, ws,
                 wsconn_state, mainVars, proc>>

\* Bookkeeping of what the book is to be compared with when changes U..u have
\* been accepted: it follows them if they continue at the update the book is
\* at, and none of their levels is one that a thread has still to store.  An
\* event older than lastUpdateId is to be without effect.
SyncAfter(y, e) ==
  LET levels == Touched(e.symbol, e.U, e.u)
  IN  IF e.u < lastUpdateId[e.symbol] THEN y
      ELSE [ok   |-> /\ y.ok /\ y.at <= e.u /\ e.U <= y.at + 1
                     /\ levels \intersect ToBeStored(e.symbol) = {},
            at   |-> IF e.u > y.at THEN e.u ELSE y.at,
            seen |-> y.seen \union levels]

AcceptEvent(t) ==
  LET e == handling[t]
  IN  /\ proc = "up" /\ e # Idle /\ left[t] = {}
      /\ ~Stale(e)
      /\ left' = [left EXCEPT ![t] = Touched(e.symbol, e.U, e.u)]
      /\ sync' = [sync EXCEPT ![e.symbol] = SyncAfter(@, e)]
      /\ UNCHANGED <<venueVars, listed, table, lastUpdateId, thread, streams,
                     sent, handling, ws, wsconn_state, mainVars, proc>>

\* One level of the event is stored, or erased if its quantity is 0.
\* operator[] creates the book of a symbol that is not listed.
StoreLevel(t) ==
  LET e == handling[t]
  IN  /\ proc = "up"
      /\ \E p \in left[t] :
           /\ left' = [left EXCEPT ![t] = @ \ {p}]
           /\ table' = [table EXCEPT ![e.symbol][p] = books[e.symbol][e.u][p]]
           /\ handling' = IF left[t] = {p} THEN [handling EXCEPT ![t] = Idle]
                                           ELSE handling
      /\ listed' = listed \union {e.symbol}
      /\ UNCHANGED <<venueVars, lastUpdateId, sync, thread, streams, sent, ws,
                     wsconn_state, mainVars, proc>>

-----------------------------------------------------------------------------
AppStep == \/ \E s \in Symbols : SubscribeDepth(s) \/ CancelSubscribeDepth(s)
           \/ EraseDepthInfo \/ CheckConnState \/ Terminate
           \/ RequestSnapshot \/ ParseClears \/ ParseStoresId
           \/ ParseStoresLevel \/ StartAfterSnapshot \/ Restart
HubStep(t) == \/ FindSymbols(t) \/ GetSymbolUri(t) \/ Connect(t)
              \/ OnError(t) \/ OnConnection(t) \/ OnDisconnection(t)
              \/ \E s \in Symbols : OnMessage(t, s)
              \/ DropEvent(t) \/ AcceptEvent(t) \/ StoreLevel(t)

Next == \/ AppStep
        \/ \E t \in Threads : HubStep(t)
        \/ \E s \in Symbols : VenueUpdates(s)

Spec == Init /\ [][Next]_vars

-----------------------------------------------------------------------------
MainStates ==
  {"idle", "sub_check", "sub_kill", "request", "parse", "parse_id",
   "parse_levels", "cancel_info", "cancel_check", "cancel_kill", "restart"}

TypeOK ==
  /\ books \in [Symbols -> Seq(Books)]
  /\ listed \subseteq Symbols /\ table \in [Symbols -> Books]
  /\ lastUpdateId \in [Symbols -> Nat]
  /\ \A s \in Symbols : lastUpdateId[s] <= Latest(s)
  /\ thread \in [Threads -> Rising \union {"none", "open", "gone"}]
  /\ streams \in [Threads -> SUBSET Symbols]
  /\ sent \in [Threads -> [Symbols -> Nat]]
  /\ handling \in [Threads -> Events \union {Idle}]
  /\ left \in [Threads -> SUBSET Prices]
  /\ ws \in Threads \union {0} /\ wsconn_state \in BOOLEAN
  /\ main \in MainStates /\ symbol \in Symbols
  /\ reply \in {"none", "error", "book"} /\ snapshot \in Nat
  /\ unparsed \subseteq Prices
  /\ calls \in Nat /\ proc \in {"up", "dead"}
  /\ sync \in [Symbols -> [ok : BOOLEAN, at : Nat, seen : SUBSET Prices]]

\* The book of a symbol is, level by level, the venue's at the last update
\* accepted, and shows no level that the program was not told of: old events
\* dropped, quantity 0 removed, an event that straddles the snapshot harmless.
\* Excepted are the levels that a thread has still to store.  The unlocked
\* accesses leave four ways out of it, and sync.ok says that none has been
\* taken since the snapshot cleared the book (binance.cpp:323):
\*   an update is missing between snapshot and stream, or two streams;
\*   an event is accepted that is older than what the book is at, because it
\*     was tested before the new lastUpdateId (334) or comes from an earlier
\*     stream;
\*   an event is accepted about a level that the snapshot (337-354) or an
\*     event of another thread has still to store;
\*   the book is cleared while an event accepted before is being stored.
\* Any other overlap of the threads does no harm.
BookFollowsVenue ==
  \A s \in Symbols : sync[s].ok =>
    \A p \in Prices \ ToBeStored(s) :
      table[s][p] = IF p \in sync[s].seen THEN books[s][sync[s].at][p] ELSE 0

\* The new stream replaces the old one: never two threads connecting or
\* connected, and none while a snapshot is requested and parsed, so that only
\* an event that outlasts its stream can overlap with the parse.  The comments
\* of subscribe_depth ask for a wait until the old thread has exited
\* (binance.cpp:254-256); it holds only of an application that makes a call
\* after the previous one has settled.
Parsing == main \in {"request", "parse", "parse_id", "parse_levels"}
LiveThreads == {t \in Threads : thread[t] \in {"connecting", "open"}}
OneStream == Cardinality(LiveThreads) <= IF Parsing THEN 0 ELSE 1

\* When the application thread has seen wsconn_state and is about to
\* terminate, and no disconnection has intervened, ws designates the open
\* socket.
TerminateFindsTheStream ==
  (main \in {"sub_kill", "cancel_kill"} /\ wsconn_state) => WsIsOpen

\* A symbol that is not listed comes back by a new subscription, or by an event
\* in one of two windows: while it is being cancelled, between its erase and
\* terminate(), through the stream still open, or later through an event whose
\* handling outlasted its stream.
Cancelling(s) ==
  main \in {"cancel_info", "cancel_check", "cancel_kill"} /\ symbol = s
CancelledStaysOut ==
  [][\A s \in listed' \ listed :
       \/ calls' > calls /\ symbol' = s
       \/ \E t \in Threads :
            /\ handling[t] # Idle /\ handling[t].symbol = s
            /\ \/ thread[t] = "open" /\ Cancelling(s)
               \/ thread[t] = "gone"]_vars

\* symbol_askbid_table is said to "save all symbols ask bid info"
\* (binance.h:49): with the last call settled, a snapshot taken that was not
\* cut short, and every event of an open stream applied, the book of a listed
\* symbol is the venue's.
CaughtUp(s) ==
  /\ proc = "up" /\ Settled /\ s \in listed /\ lastUpdateId[s] # 0
  /\ \A t \in Threads : handling[t] = Idle
  /\ \E t \in Threads : /\ thread[t] = "open" /\ s \in streams[t]
                        /\ sent[t][s] = Latest(s)
CaughtUpBookIsVenues ==
  SnapshotLimit >= Cardinality(Prices) =>
    \A s \in Symbols : CaughtUp(s) => table[s] = books[s][Latest(s)]
=============================================================================
