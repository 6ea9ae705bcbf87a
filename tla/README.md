# uncertent: TLA+ models, checks and proofs

`uncertent` is a C++ program that watches cryptocurrency exchanges.  It opens
a WebSocket stream per exchange, keeps order books and trade sums, and prints
and forwards the ratio of the ask side to the bid side.  The repository has no
tests and hardly any documentation, so the models are read off the code; line
numbers below refer to it.

1. [Inventory](#1-inventory)
2. [Modules](#2-modules)
3. [Runs](#3-runs)
4. [What the runs found](#4-what-the-runs-found)
5. [Proofs](#5-proofs)
6. [Limits and assumptions](#6-limits-and-assumptions)
7. [Plan](#7-plan)

How to run, in this directory: `tlc -config StreamClient.cfg StreamClient`
(the table of section 3 pairs configurations with modules) and
`tlapm StreamClientProofs.tla`, and likewise for the other modules whose
names end in `Proofs`.

## 1. Inventory

### Exchange classes: the streaming skeleton

`exchange/{bitmex,huobipro,okex,exg58coin,bitfinex,gateio,poloniex,zb,bibox,
bitstamp,coinbase,cryptofacilities,deribit}.cpp` repeat one skeleton.

- State: `ws` (pointer to the socket), `wsconn_state`, `sub_state`, `mu`, `cv`,
  and the books or sums that the messages fill.
- Operations: `start_stream` detaches a *hub thread* (`threadfunc_stream`) and
  waits on `cv` for `wsconn_state`; `subscribe_*` sends a request and waits for
  `sub_state`; `closestream` terminates the socket; the hub thread runs
  `onError`, `onConnection`, `onDisconnection` and `onMessage`; bitmex, okex
  and exg58coin detach a *heartbeat thread* that sends `ping` for ever.
- Interaction: all three threads share the object.  Only the application
  thread takes `mu`; the handlers store the flags and notify without it.
- Hard: a notification between the predicate and the blocking, flags that are
  never initialised, set or reset, a pointer that outlives its socket, waits
  without a timeout.
- Correct when: `ws` is assigned before anybody uses it; a subscription
  returns only after it was confirmed; a thread that waits for something that
  has happened is woken.

### binance

`exchange/binance.cpp` has another design: no wait at all, and a new stream for
every change of the set of symbols.

- State: `symbol_askbid_table` and `depth_info` (per symbol), `ws`,
  `wsconn_state`, one hub thread per call.
- Operations: `subscribe_depth` (entry, `terminate`, REST snapshot, new
  stream), `cancel_subscribe_depth`, `get_symbol_uri`,
  `parse_snapshot_to_map`, `parse_priceamount_to_map` and the handlers.
- Hard: snapshot and stream are taken at different moments; events older than
  the snapshot arrive after it; a snapshot is cleared and stored level by level
  in one thread while an event is tested and stored level by level in another,
  without a lock; `terminate` by another thread while the hub thread is
  connecting or in `onMessage`; two hub threads at once.
- Correct when: the local book is the venue's book at some update; one stream
  is live at a time; a cancelled symbol stays cancelled.

### bitmex order book and its monitor

The book of bitmex is two SQLite tables in memory (`bitmex.cpp:263-448`).  The
hub thread applies each row of a message with a statement of its own;
`bitmexbook()` (`main.cpp:221-279`), the one monitor that `main()` calls,
queries the sum of the ten best levels of each side once a second and sends
the figures to ZeroMQ.

- Hard: messages and pairs of queries are not atomic; `msgid` is not unique;
  the sum over an empty table is NULL and `stod` of it ends the process; a
  disconnection leaves the tables as they are.
- Correct when: the tables are the venue's book; each figure is the venue's
  figure at a moment of the turn it is reported for; the monitor ends only
  where the venue's book has an empty side.

### ZeroMQ relay

`service/zmqservice.cpp`: a thread that receives from
`inproc:///tmp/tunnelbook` and sends to `ipc:///tmp/myipctunnelbook`, both
DEALER sockets.  State: two bounded queues and one message in the thread.
Hard: blocking sends, clients that leave, a relay that is never started.
Correct when readings arrive in order, once, and none is lost while the client
stays.

### Trade monitors

`bitmextrade()` (`main.cpp:158-219`) and `bitfinextrade()`
(`main.cpp:325-348`): the hub thread adds every trade to four plain doubles
(`bitmex.cpp:245-261`, `bitfinex.cpp:213-246`), a loop in the application
thread wakes up every five minutes, reads them, reports them and sets them to
zero.  There is no lock.

- Hard: an addition is a load and a store, so a reset may fall into it; trades
  come between the reading and the reset; a zero is replaced by one in the
  shared variable; the members are never initialised; bitfinex multiplies the
  running amount.
- Correct when: every trade is in one report; nothing is divided by zero; what
  is called a sum is the sum of price times amount.

### Maps of okex, exg58coin and bitfinex, and `bitfinexbook()`

`subscribe_depth` empties two `std::map`s per symbol, the hub thread stores and
erases a level at a time (`okex.cpp:264-295`, `bitfinex.cpp:247-292`,
`exg58coin.cpp:186-217`), and `bitfinexbook()` (`main.cpp:282-323`) adds up
seventeen levels with reverse iterators once a second.

- Hard: maps emptied in the middle of a message, erasure under an iterator,
  two accesses through an iterator that designates whatever is below it.
- Correct when: the maps hold the venue's book as far as it was told; a pass
  adds up the levels that stood during it.

### Orders

`utils/trade.cpp`, `utils/httprequest.cpp` and the order functions of binance,
huobipro and okex.  `buy_sell` sends a buy and a sell order from two threads,
prints the replies and looks at neither.  huobipro's `get_balance` and the
snapshot that binance's `subscribe_depth` asks for go the same way, in the thread
of the application that calls them.  Every request is bracketed by
`curl_global_init` and `curl_global_cleanup`.

- State: libcurl's global counter, and on the other side the venue's decision.
- Hard: the counter is not guarded against two threads; an order may be
  executed and its answer lost; no timeout; one leg may be done alone.
- Correct when: no order is executed twice or on the wrong side; a whole answer
  is the venue's decision; the library is up during a transfer; the call
  returns.

### Mail and codecs

`utils/SmtpMail.cpp`: an object with recipients and attachments; `SendMail`
builds a MIME message from the files on disk and gives it to libcurl.
`utils/codec.cpp`: two pairs of base64 functions and the encodings of URLs,
which the mail and the signatures of the orders go through.

- Hard: files that change between `ftell` and the last of many `fread`s, which
  the C library serves from blocks; names kept from one attachment to the next;
  a result that says sent; a retry loop that does not retry; bit boundaries, padding and signed characters in the codecs.
- Correct when: the parts decode to the files; true means taken, once; each
  decoder inverts each encoder.

### Other parts

| Part | State and operations |
|---|---|
| `utils/misc.cpp` | hashes through OpenSSL, times, inflate loops around zlib; no state |
| `exchange.h` and bitflyer, bithumb, bittrex, jex, upbit | none: an interface and empty classes |
| `testWSS`, `sendmailtest`, `main/test.h`, `utils/mail.cpp` | scratch code that is not called |
| vendored libraries | curl, OpenSSL, uWS, ZeroMQ, SQLite, zlib, MySQL |

`PROJECT.json` lists for each part what is modelled, and every hazard with its
line and the properties aimed at it.

## 2. Modules

| Module | Models |
|---|---|
| `StreamVenues` | the five decisions in which the thirteen classes differ: what the functions of the caller and what the hub thread of each class decides |
| `StreamClient` | one exchange object, its application, hub and heartbeat threads |
| `StreamApi` | abstract: what `start_stream` and `subscribe_*` promise |
| `StreamClientMC` | sets of classes for the runs |
| `StreamClientProofs` | the theorems about `StreamClient` |
| `BinanceDepth`, `BinanceDepthMC` | class binance with its venue; symmetry of symbols |
| `BinanceDepthProofs` | the theorems about `BinanceDepth` |
| `BitmexBook` | the SQLite tables, BitMEX and the monitor loop |
| `ZmqRelay` | monitor, relay thread and client over two queues |
| `LossyFifo` | abstract: a service that numbers its messages, passes each on once and in order to the client connected then, and loses only what is queued for a client that leaves |
| `ZmqRelayProofs` | the theorems about `ZmqRelay` |
| `BookMonitor` | `BitmexBook` and `ZmqRelay` composed: from the venue's rows to what a client is told |
| `BookMonitorProofs` | the theorems about `BitmexBook` and `BookMonitor` |
| `TradeWindow` | the trade branches of bitmex and bitfinex against the loops of their monitors |
| `TradeWindowProofs` | the theorems about `TradeWindow` |
| `AskBidTables` | the maps of okex, exg58coin and bitfinex with a venue and the loop of `bitfinexbook()` |
| `AskBidTablesProofs` | the theorems about `AskBidTables` |
| `OrderGateway` | `buy_sell`, `get_balance` and `get_snapshot_depth` over `httprequest.cpp`, libcurl's counter and the network |
| `OrderGatewayProofs` | the theorems about `OrderGateway` |
| `Codec` | the functions of `codec.cpp`, as operators |
| `SmtpMail`, `SmtpMailMC` | one mail object, its files and the server; files and paths for the run |
| `SmtpMailProofs` | the theorems about `Codec` and `SmtpMail` |

### StreamClient

`main` is the program counter of the application thread.  A wait is what
`cv.wait(lock, pred)` does: `check` evaluates the predicate, `park` has found
it false and is not yet in the wait set, `wait` is blocked.  `mu` needs no
variable: only this thread takes it.  `hub` steps through `onConnection` store
by store (`connecting`, `flag`, `notify`, `run`) and through the confirmation
(`acked` before its notification).  `ws` says what the pointer designates:
nothing (`unset`), a live socket or a freed one; a use of the last or the first is
undefined and lets the process die or go on.  `calls`, `returned` and `acked`
count the subscriptions made, completed and confirmed.  bitmex is the class
the actions are written from; the profile says where the others depart from
it.  `closestream` on a stream runs `onDisconnection` in the caller, which
changes nothing but the socket.

The order of two stores by one thread is kept, as on the x86 targets the
project file builds for; C++ itself gives a data race no meaning.

### BinanceDepth

The venue numbers its changes; `books[s]` is its book after each of them.  A
hub thread's URI (`streams`) is fixed before it connects and its events cover
one or several changes (`U`..`u`).  No lock guards the maps, so each access is
a step of its own:

- in the application thread, `main` steps through a call: the entry, the erase
  in `depth_info`, the test of `wsconn_state`, the use of `ws`, the REST
  request, the clear (`ParseClears`, `binance.cpp:323`), `lastUpdateId`
  (`ParseStoresId`, 334), each level (`ParseStoresLevel`, 337-354);
- in a hub thread, `thread[t]` steps through the test for symbols, the URI, the
  connection and its handlers; an event is tested against the `lastUpdateId` of
  that moment (`DropEvent`, `AcceptEvent`, 367) and then stored level by level
  (`StoreLevel`, 385-418), with `left[t]` the levels still to come.

Levels are stored in any order; the code takes the order of the message.  A
price occurs once in it, and no property depends on the order.  An error object
in place of the snapshot fails RapidJSON's assertion at 333 and ends the
process.  `terminate` closes the socket at once, but an `onMessage` already
running finishes.  One side of the book stands for both: the two loops are
alike and touch different maps.

`sync` belongs to the statement of `BookFollowsVenue`, not to the program: up
to which update a book is to be compared with the venue's (`at`), about which
prices it knows anything (`seen`), and whether it may still be compared (`ok`).
The code does not keep a book right under every overlap.  `ok` is withdrawn,
until the next snapshot, in four cases and no other:

1. an update is missing, between snapshot and stream or between two streams;
2. an event is accepted that is older than what the book is at: it was tested
   before the new `lastUpdateId` was stored, or comes from an earlier stream;
3. an event is accepted about a level that the snapshot, or an event of another
   thread, has still to store;
4. the book is cleared while an event accepted before is being stored.

Each of the four is needed: without any one of them TLC finds the property
violated, by a level that shows an older quantity.  `OneStream` says besides that
with a patient application no stream is live while a snapshot is parsed, so
that all these overlaps need an event that outlasted its stream.

### BitmexBook

`rows` are the rows the venue has sent and `books` the books they describe,
one after the other, so a table can be compared with the book at any row, in
the middle of a message as well.  `askAt` and `bidAt` record when the queries
ran.  A level is named by its price, which also stands for `msgid`: BitMEX
derives its ids from prices.  A figure is the set of table rows the query adds
up, which says more than its sum: two books may have equal sums.  The product of
price and size and the division by 100 are the same for every row and left out.

### ZmqRelay

The n-th reading is the number n.  `tunnel` and `wire` are the inproc and the
ipc pipe, `held` the message between `recv` and `send`.  In the refinement
mapping to `LossyFifo` what the service has still to pass on is `held` followed
by `tunnel`, and what is queued for the client is `wire`.

### BookMonitor

`SendReading` of `BitmexBook` and `MonitorSends` of `ZmqRelay` are one step: the
loop waits in `send` while the tunnel is full, with figures that grow old while
the hub thread goes on.  `sent[n]` is the content of reading n and the rows
applied at its two queries; the numbers of `ZmqRelay` stay what they are.  The
relay's thread is in the process: when a query ends it, the relay stops, what
is in the tunnel and in its hands stays there, and a client still reads what is
in its pipe.

### TradeWindow

A double is the *set* of the products it is the sum of; a product is a pair of
factors, each named by the number of the trade it comes from.  `Junk` names
what an uninitialised member held (absent if that was zero), `Unit` the factor
one.  `hub` steps through an addition to the amount (load, store) and one to
the sum (load, store); `monitor` through the statements of the loop.  That the
arguments of `sprintf` are read in any order is left open, as C++ leaves it.
For bitfinex the compiler may or may not read `bid_amount` again for the second
statement; both are allowed.  `exposed` and `straddled` are no state of the
program: they record which stores fell between the reading of a figure and its
reset, and which resets fell between a load and its store.  The four
assignments at the end of a turn (`main.cpp:206-209`) are the four values
`reset_1` to `reset_4` of `monitor`; `Assigned` says which field each one zeroes.

### AskBidTables

A map is a set of pairs, a reverse iterator is its `base()`, the node above the
level it designates: dereferencing looks for the level just below, whatever it
is by then, and erasing the base leaves it dangling.  A use of an iterator that
designates nothing kills the process or ends the pass with rubbish (`Astray`).
Each access to a map is one step.  okex and exg58coin send a level as a price
and an amount, bitfinex as a price, a count and a signed amount; bitfinex takes
an array of three for one level, so a snapshot of exactly three levels fails an
assertion and one of fewer is ignored.  No build in `uncertent.cbp` defines
`NDEBUG`: RapidJSON's assertions are in force.  What a pass adds up is the
sequence of levels in the order read; in the first turn it begins with `Junk`,
because the sum is not initialised.

### OrderGateway

A request goes through `https_post` or `https_get` place by place (`pc`).
`curl_global_init` is `if (initialized++) return;` followed by the work:
a load, a store and, for the first, `BringUp`; the cleanup is the mirror image.
libcurl documents the functions as not thread-safe, and the model takes the
counter for what it is, a plain variable.  `curl_easy_init` initialises the
library itself if nobody has.  A transfer ends with the answer, without one, or
with part of one; the venue may have executed the order in all three cases.
`TypeOK` bounds the counter by 2 * `MaxCalls`, the requests
made: that is what can be proved of it with two threads racing, and what keeps
the unsigned counter of the library from wrapping.  A race leaves it one too
high, call after call; in the run it comes to four in the third.
The application makes one call at a time: `main()` and what it calls run in one
thread, and `Start` waits for the previous call to return.  Only the two legs of
`buy_sell` run at once.

### Codec and SmtpMail

`Codec` writes the group-wise functions in closed form, digit by digit, and the
shifting ones as recursive functions over `val` and `valb`.  A file is a
sequence of bytes, a path says whether it has a directory, its name and its
type.  `SendMail` is the action that starts a message anew; the parts are added
one attachment at a time, and files may change between any two steps.  The
text around the attachments is left out, as are the setters that only keep a
string.

A file is measured (`OpenFile`), then read: the loop makes `len / 54 + 1` calls of
`fread`, each of which takes a line out of the buffer of the `FILE` (`ReadLine`), and
the C library refills the buffer with a block of the file as it is then
(`ReadBlock`).  `taken` is all the buffer has been given.  A file longer than one
block may thus be read as a mixture of two of its contents, and
`AttachmentsDecode` says exactly that: the file, if it did not change between
`ftell` and `fclose`; otherwise at every place a byte the file held there in that
time.  `held`, kept for this statement, is what the file has held since it was
measured.  Once the end of the file has been met `fread` does not read again, as
C99 asks and glibc does since 2.28.  With an older glibc a file that becomes
shorter and then longer again leaves a short line in the middle, and the part
decodes to something the file never was; the model does not contain that
library.

## 3. Runs

| Configuration | Module | Checks | States |
|---|---|---|---|
| `StreamClient.cfg` | StreamClient | `TypeOK`, `WsSetBeforeUse`, `ReturnsAreConfirmed` | 2 893 |
| `StreamClientLive.cfg` | StreamClientMC | `ApiSpec` (bitmex and huobipro refine `StreamApi`), `ParkedIsWoken` | 569 |
| `BinanceDepth.cfg` | BinanceDepth | `TypeOK`, `BookFollowsVenue` | 620 176 |
| `BinanceDepthPatient.cfg` | BinanceDepthMC | `OneStream`, `TerminateFindsTheStream`, `CancelledStaysOut` | 799 351 |
| `BookMonitor.cfg` | BookMonitor | `FeedTypeOK`, `TablesAreVenueBook`, `ClientSeesVenue`, `MonitorDiesOfEmptySide` | 1 347 291 |
| `ZmqRelay.cfg` | ZmqRelay | `TypeOK`, `NothingLost`, `QueueSpec`, `EveryReadingArrives` | 1 281 |
| `TradeWindow.cfg` | TradeWindow | `TypeOK`, `RatioIsDefined`, `NothingLostOutsideTheGap`, `ReportedOnce`, `QuietReportsAgree` | 742 469 |
| `AskBidTables.cfg` | AskBidTables | `TypeOK`, `TablesFollowVenue`, `UndisturbedPassIsTop`, `OnlyErasingHarms`, `SteadyLevelsCounted` | 2 437 541 |
| `OrderGateway.cfg` | OrderGateway | `TypeOK`, `LibraryUpDuringTransfer`, `CounterIsUsers`, `OneOrderPerLeg`, `AnswersAreTrue`, `CallReturns` | 44 544 |
| `SmtpMail.cfg` | SmtpMailMC | `TypeOK`, `AttachmentsDecode`, `NamesOfThisMail`, `TakenOnce`, `CodecsAgree`, `SendMailReturns` | 71 272 |

Each property has a mutant in `PROJECT.json`: a fault of the kind the code
could have, under which TLC finds the property violated.

**Bounds.**

- `MaxCalls` of StreamClient: three subscriptions are one that waits, one
  that meets what it left behind, and one more after a refusal.
- BinanceDepth: three prices with a snapshot of two levels make levels that the
  snapshot does not know; three updates make an event that straddles the
  snapshot and one before and after; two threads are an old and a new stream,
  two calls a subscription and one that parses its snapshot while the first
  one's stream, or an event that outlasts it, is being stored; a level that
  exists has one quantity, so a stale store shows as a level too many or too few.
  The patient run has three threads for two symbols, so that a symbol can be
  subscribed, joined and cancelled.
- BookMonitor: three prices make two levels on a side, of which queries over one
  (`Depth`) take the better; amounts of the partial are equal (`FirstSizes`),
  those of the changes are not; two messages after the partial are enough for a
  change in the middle of a pair of queries, for a message of two rows, and for
  a disconnection behind it.  Queues of one and two readings let the loop wait
  in `send` while the book moves and a client leave with the first reading.
  Longer queues are those of the ZmqRelay run.
- ZmqRelay: six readings against two queues of two and one message held fill
  everything and leave one waiting; two departures drop the queue of a first
  and of a second client.
- TradeWindow: two trades, on one side or both, and three turns of which the
  last blocks in `send` for bitmex: a trade may fall into the gap of one turn
  while another is being added across the reset of the next.  `Hwm` stands for
  1000.
- AskBidTables: books of up to four levels with passes over two make the break
  and `rend()` both reachable; two subscriptions, two changes and two turns put
  an erasure, an insertion and a second snapshot into a pass.  `Depth` stands
  for 17.  exg58coin has the same map code as okex and is left out of the run.
- OrderGateway: `buy_sell` puts two requests in flight, as many as a race in the
  counter takes; after three calls two of them have met what a race left behind.
- SmtpMail: lines of three bytes stand for lines of 54 and blocks of four for
  blocks of 4096, so that lines and blocks end at different places; files are
  empty, or of a block, or of more than one, so that one that changes while it
  is read can come out as a mixture (with one change, which is enough for it;
  two were tried and show nothing new).  The bytes include zero, a percent
  sign, 255, and digits of base64 followed by bytes that are none.

`CHECK_DEADLOCK FALSE` is said everywhere: the application makes a bounded
number of calls, and a process that has exited does nothing more.

**Fairness.**  `StreamClient!FairSpec` assumes that a thread that can run runs,
that connecting ends, and that a venue asked answers.  It assumes nothing of
spurious wakeups, disconnections or the application's next call.
`ZmqRelay!FairSpec` assumes the same of the monitor and relay threads, and that
a client connects and reads; it does not assume that one leaves or stays.
`OrderGateway!Spec` assumes that every thread goes on between two calls of the
network and that the callers return; of the network, the venues and the
application nothing, so `CallReturns` has the premise that no transfer hangs.
`SmtpMail!Spec` assumes the same of the one thread of `SendMail`.  The other
modules claim no liveness and state no fairness.

## 4. What the runs found

These configurations end with a counterexample; `PROJECT.json` ("findings")
quotes the lines.

| Configuration | Property | Counterexample |
|---|---|---|
| `StreamClientLostWakeup.cfg` | `StartStreamReturns` | the hub thread stores `wsconn_state` and notifies after the predicate was evaluated and before the thread blocks: `start_stream` waits for ever |
| `BinanceDepthGap.cfg` | `CaughtUpBookIsVenues` | a change between the snapshot and the opening of the stream is in neither |

Other behaviours of the code that the models have and that no document
contradicts, so that the properties are stated around them:

- bitfinex and deribit leave `wsconn_state` uninitialised: `start_stream` may
  return without a socket (`WsSetBeforeUse` is about the classes that set it).
- okex and exg58coin never reset `sub_state`: from the second on a
  subscription returns unconfirmed (`ReturnsAreConfirmed` asks one confirmation
  of them, not one each).
- Two calls of `subscribe_depth` of binance in a row leave two open streams
  (`OneStream` is about an application that lets a call settle).
- A snapshot that is parsed while an event of another thread is being applied can
  leave an older quantity in a level, with no event missing (`BookFollowsVenue`
  names the four ways).
- A symbol of binance that is cancelled comes back if an event of the stream
  still open is stored between the erase and `terminate`, or one that outlasts
  its stream later; the new stream then subscribes to it again
  (`CancelledStaysOut` names the two windows).
- `zmqservice::start()` is commented out in `main()`: the monitor blocks when
  the queue is full.  The run starts the relay.  Nothing binds the address
  `bitmextrade()` sends to: it blocks likewise, after 1000 reports.
- A trade stored between the reading of a sum and its reset is in no report,
  and one that straddles a reset brings the old sum back.  bitfinex's sums are
  sums of running totals.
- `bitfinexbook()` reads the asks from the highest, the worst, price; an erased
  level under its iterator is a use of freed memory or skips the next level.
- After a race in libcurl's counter a call may leave it at one and the library
  down, and no later call brings it up again.
- huobipro's buy order is a sell order that the venue cannot parse, okex's is
  never sent: only binance can buy.  Quantity and symbol are fixed in the code
  for some of them.  `profitcalc` adds the fee of one leg to the profit.
- `SendMail` returns true without a curl handle; it complains five times and
  sends once; an html attachment is announced as `image/jpeg`; attachments and
  recipients are never cleared.
- `urlEncode` is wrong for bytes above 127.
- A ping of huobi is answered with a ping; its subscription to the depth fills
  no table; the result of `gzip_uncompress` is not looked at.

The properties that pass say how far the code is right in spite of these: a
thread that *was* parked in time is woken; a class with initialised flags never
uses `ws` unassigned; a book without a gap is exact, however late the events, as
long as the stores of two threads have not met in one of the ways named;
an application that lets a call settle has one stream; the relay, once it is
started, neither loses, repeats nor reorders, and a client is told of ever later
books; a trade outside the gap is
reported, once; a pass over a map suffers from erasures only; a leg is never
executed twice or on the wrong side; an attachment decodes to its file, or to a
mixture of what the file held while it was read.

## 5. Proofs

`StreamClientProofs` holds for every set of classes and any `MaxCalls`.

- `TypeCorrect`: `Spec => []TypeOK`, one step per action.
- `WsIsSetBeforeUse`: `Spec => []WsSetBeforeUse`.  The invariant alone is not
  inductive: that `start_stream` finds the flag says nothing unless the flag
  implies the pointer.  `WsInv` adds that the hub thread past `connecting` has
  stored `ws`, that with initialised flags `wsconn_state` implies it, and that
  only a subscription gets to the reset of `sub_state`.
- `ReturnsConfirmed`: `Spec => []ReturnsAreConfirmed`.  `ConfirmInv` relates
  counters and flag: where the flag is consumed, requests, answers and
  handled confirmations together are at most the calls, the calls are the
  completed ones plus the open one, and `acked` exceeds `returned` exactly when
  the flag is up (`ConsumedInv`); elsewhere the flag, once up, witnesses a
  confirmation (`KeptInv`).
- `ImplementsApi`: if every class initialises its flags and consumes
  `sub_state` (`AllConsume`: bitmex and huobipro are such classes), then
  `Spec => ApiSpec`.  The
  store of `ws` is `Connect`, the return of `start_stream` is `Start`, a handled
  confirmation is `Grant`, the reset of the flag is `Complete`; every other
  step stutters.  That a confirmation finds a call waiting for it is
  `ConsumedInv`.

`ZmqRelayProofs` holds for every high-water mark and any bounds; a client may
come and go as often as they allow.

- `TypeCorrect`: `Spec => []TypeOK`; that `held` has one message exactly in
  `send` is needed below.
- `NothingIsLost`: `Spec => []NothingLost`.  `Stream`, the readings received
  followed by those under way, is the first `readings` numbers.  `StreamGrows`
  shows that each step but `ClientLeaves` leaves it alone or, in `MonitorSends`,
  appends the reading sent.
- `ImplementsQueue`: `Spec => QueueSpec`.  `MonitorSends` is `Send`,
  `RelaySends` is `PassOn`, `ClientConnects` is `Connect`, `ClientReceives` is
  `Deliver` and `ClientLeaves` is `Leave`; `RelayReceives` moves the first message of
  `tunnel` into `held` and stutters, and so does `RelayStarts`.  That the message
  in the relay's hands is the first of those to be passed on is
  `RelayPassesFirst`.

- `ReceivedInOrder`: `Spec => []ReceivedRise`, that the numbers a client gets
  rise.  Alone it is not inductive; that all of `Stream` rises and is bounded by
  `readings` is (`Rising`), and survives what a departure takes out of its middle
  (`RisingWithout`).

The lemmas at the head of the module say how `Head`, `Tail` and
`SubSeq` act on a concatenation.

`BookMonitorProofs` holds for any finite set of prices, any amounts and bounds.

- `ImplementsBook`, `ImplementsRelay`: `FeedSpec` implements the specifications
  of both parts, action by action, so that what is proved of a part holds in the
  composition.
- `TablesCorrect`: `BitmexBook`'s `Spec => []TablesAreVenueBook`.  `HistoryInv`
  says that the rows sent lead from each of the venue's books to the next
  (`Describes`); `TableInv` that each table holds the levels of the book at
  `applied`, each once (`Holds`).  An update or a delete finds its row because
  `Describes` says the level was not empty, and finds no other because no level
  is there twice.
- `DiesOfEmptySideOnly`: `Spec => []MonitorDiesOfEmptySide`.  `FiguresInv` adds
  what the loop has in its hands: the rows a query took are the best levels of
  the book at the row of that query, and stay so, since books once sent do not
  change (`Extends`).
- `FeedTypeCorrect`, `ClientSeesVenueAlways`: `FeedSpec => []FeedTypeOK` and
  `FeedSpec => []ClientSeesVenue`.  `TurnInv` says that the rows of a turn's
  queries have been applied, the asks' first; `SentInv` that the turns of the
  readings sent do not overlap and lie before the one that has begun;
  `SentFigures` that the readings sent contain the figures of their books.  That
  the client's readings are among them in this order is `ReceivedInOrder`, which
  holds here because of `ImplementsRelay`.

`BinanceDepthProofs` holds for any symbols, prices and bounds.

- `TypeCorrect`, `BookFollows`: `Spec => []TypeOK` and
  `Spec => []BookFollowsVenue`.  `Bounds` says that no event, reply or book
  is ahead of the venue and that an event in hand covers at least one of its
  changes.  The property is not inductive: it is silent about the levels that a
  thread has still to store.  `Follows` adds that each of those (`Owes`,
  `SnapshotOwes`) will be stored as it should be shown, so that whoever stores
  it, and in whatever order, the level is right (`OneLevelKeepsFollows`).
  `EventMovesBook` is the heart: an accepted event that overlaps or adjoins what
  the book has reached, and meets no level still owed, moves what the book
  should show to its last update at the levels it touches and nowhere else,
  because a price it does not tell has not changed (`UntouchedStays`).  Nothing
  is assumed of the application.
- `OneStreamIfPatient`, `TerminateSafeIfPatient`, `CancelledOutIfPatient`: under
  `ASSUME Patient`, the value of the constant under which the patient run checks
  the three properties.  `StreamInv` relates the threads, `ws`, `wsconn_state`
  and the place of the call: one thread at most is starting, connecting or
  open; an open one is the one `ws` designates; past `terminate` there is none,
  which is the second half of `OneStream`.  `ListedInv` says that a stream's
  symbols are listed, but for the one being cancelled, and that an event in hand
  is of a symbol of its stream: hence the two windows of `CancelledStaysOut`.

`AskBidTablesProofs` holds for any of the classes, exg58coin included, any finite
set of prices and any bounds.

- `TypeCorrect`: `Spec => []TypeOK`.
- `TablesFollow`: `Spec => []TablesFollowVenue`.  The messages under way lead one
  after the other from the book the hub thread has reached to the venue's
  (`ChainInv`); the items of the message in hand tell the truth about the book
  after it, so at every price it tells no more of, the map is that book
  (`TableInv`).
- `ErasuresAlone`, `SteadyAreCounted`: from `PassInv`.  Without an erasure the
  iterator's node is in the map and there is a level below it when one is read;
  a level that stands throughout is added up once the iterator has passed it
  (`SteadyInv`, place by place of the loop: between `rit->first` and
  `rit->second` another level may have come above the one read).
- `UndisturbedIsTop`: from `TopInv`: while nobody touches the map, the levels
  added up run down and are all those from the iterator on (`RunsDown`).

`TradeWindowProofs` holds for either monitor and any number of trades, turns
and messages.

- `TypeCorrect`: `Spec => []TypeOK`.
- `RatioIsAlwaysDefined`: `Spec => []RatioIsDefined`.  `RatioInv` follows the
  loop: behind each test the sum tested is not zero, and stays so because the
  hub thread only stores sets that contain its trade; `OnlyBitmexDivides` keeps
  bitfinex out of those places.
- `NothingIsLostOutsideTheGap`: `Spec => []NothingLostOutsideTheGap`.  Alone
  the property does not survive a reset or a store: `LostInv` adds that what a
  field to be overwritten holds has been recorded (`DoomedIsRecorded`), that
  the copy in the hub thread's register has all that the field has, apart from
  what is recorded (`CopyIsComplete`), and where the loop is (`LoopInv`).
  `RecordedStays`, `StoreInLosesNothing` and `LoopLosesNothing` divide the
  steps.
- `OnlyStraddledResetsRepeat`: `Spec => []ReportedOnce`.  A product reported in a
  turn and still in a field, in the hub thread's register or in the reading in
  hand is there because every reset of that field since was straddled
  (`CopiesAreStraddled`); a product that the thread adds now is new, because the
  fields hold only products of trades taken before (`KnownInv`).
- `QuietReportsAlwaysAgree`: `Spec => []QuietReportsAgree`.  `QuietInv` says that,
  as long as no turn has overlapped a trade, the hub thread is idle while the
  loop is awake, and amount and sum of a side are those of the same trades
  (`Holds`).

`OrderGatewayProofs` holds for any set of venues and any number of calls.

- `TypeCorrect`: `Spec => []TypeOK`.  Only the bound of the counter needs more
  than types: `BoundInv` adds the requests that have not counted themselves yet
  to the counter, and to every value loaded, and bounds these sums.  It survives
  the races, where the counter is no longer the number of anything.
- `OneOrderPerLegAlways`, `AnswersAreAlwaysTrue`: from `OrderInv`, which says
  of each leg that an order a venue can read is on its side, that there is a
  verdict only during the transfer, nothing before it and one deal at most
  after it, and what a whole reply says.  `PassingKeepsOrders` disposes of every
  step of the counter.
- `CounterIsAlwaysUsers`, `LibraryIsUpDuringTransfer`: from `CurlInv`.  Until
  two threads have met inside the counter, at most one is there (`Alone`), the
  value it has loaded is still the counter's (`Fresh`), and the counter is the
  cardinality of the requests inside (`Exact`), which the theorems on finite
  sets carry over each step.  `raced` never goes back, so nothing is claimed
  afterwards.

`SmtpMailProofs` holds for files of any length and content, blocks of any length,
any length of a line that is a multiple of three bytes, and any number of
attachments, mails and changes of the disk.

- `AttachmentsAlwaysDecode`, `NamesAreOfThisMail`: from `MailInv`, which says how
  many parts the message has at each place of `CreatMessage`, that the parts
  finished decode as `AttachmentsDecode` says, and that names come from
  attachments of this mail.  Of the file being read it says that every byte in
  the buffer is one the file held at that place (`FromDisk`), and that the lines
  so far are those of the buffer, the last one whole unless the file has ended
  (`LinesSoFar`); `ReadPartDecodes` draws the conclusion when all lines are read.
  Below it are the lemmas about base64: `DecodeInvertsEncode`; `EncodeAppends`,
  that the encodings of whole groups of three bytes can be put together;
  `LinesDecode`, which adds up the lines of what was read.
- `MailIsTakenOnce`, `TypeCorrect`: from `SendInv`: nothing has been sent before
  `perform`, one transfer is made, and a count above zero goes with `ret` false.
- `CodecsAlwaysAgree`: `Spec => []CodecsAgree`.  `DecodersAgree` and
  `EncodersAgree` follow the state of the shifting functions byte by byte and
  digit by digit: how many bits `valb` says are left over, and that the low bits
  of `val` are the byte or digit shifted in last (`LowBits`, `LowBytes`; `val`
  wraps, and only multiples of 4096 are lost).  `EscapeIsInverted` and
  `UrlEncodeIsInverted` come from one lemma, `UnescapeInverts`, about any text
  of pieces each of which `deescapeURL` reads as one byte.  `urlEncode` is
  inverted for the characters 1 to 127, which a base64 text is made of
  (`CharsArePrintable`).

The library's induction theorems cannot be used with the installed provers.
What is proved here of sequences of any length and of recursive functions rests
on `LeastNumber`, the least number principle, from which `Induction` follows for
a set of numbers; `Recursion`, `ShiftsDoExist` and `UnescapedIs` show that the
recursive functions of `Codec` exist, on the lengths they are used for.

The assumptions on the constants are the named `ASSUME`s of the modules the
proofs extend; `ASSUME Patient` of the three theorems about a patient
application is the only other.

Only model-checked: the liveness properties `ParkedIsWoken`, `EveryReadingArrives`,
`CallReturns` and `SendMailReturns` (fairness and `ENABLED` are out of the
prover's reach), and the two properties of section 4 that do not hold.  Every
other property of the runs is a theorem.

## 6. Limits and assumptions

- External and modelled from their use: venues (a subscription is answered
  once, positively or not; events of a stream come in order), uWS, ZeroMQ and
  clients of the relay.
- A price occurs once in a message of binance, and its snapshot is the first
  levels of one of its books.
- A venue answers a request for a book with the whole book and then sends the
  changes in order; a book of theirs never has a bid at or above an ask.
- A double is exact in `TradeWindow`: rounding is not modelled.
- What a torn `struct tm` (`misc.cpp:143`) puts into a signed request only makes
  the venue refuse it.
- Update numbers are unbounded in `BinanceDepth`; the code reads them with
  `GetInt`.
- A `std::map` changed by two threads is modelled as if each access to it (a
  clear, a store of one level) were atomic.  What a corrupted tree does is not modelled.
- A connection that goes down between a request and its answer loses the answer,
  and the caller waits on; nobody promises otherwise, and no property claims it.
- `cancel_subscribe_depth` of the skeleton classes only sends its argument, and
  huobipro's answer to a ping only sends: they change no state of the object.
- `start_stream` is called once per object, as in `main.cpp`.  The monitor's
  wait of five seconds before its first query is not a guarantee in
  `BitmexBook`: the first query may come before the partial.
- `Hwm` stands for ZeroMQ's default of 1000.
- BitMEX inserts a level once: what the tables, which have no unique key, would
  do with a second insertion is not modelled.  A venue confirms a subscription
  once.
- `fread` is that of C99 and of glibc since 2.28 (see SmtpMail); another process
  writes a file at once, not byte by byte, and does not remove the open one.

Not modelled: `utils/misc.cpp` (calls of OpenSSL, zlib and the clock without
state of their own), `profitcalc`, the setters of `SmtpMail`, the building and
signing of parameters, huobipro's sums, which nothing reads, the scratch
programs, and the vendored libraries and headers, which are nine tenths of the
lines in the repository.

## 7. Plan

Done: the skeleton with its abstract specification; binance's depth stream; the
SQLite book with its monitor; the relay with its abstract queue; both composed;
the trade monitors; the maps of okex, exg58coin and bitfinex with the book
monitor; the orders over libcurl; mail and codecs.  The invariants, the action
properties and both refinements that the runs check are proved for all of them.

Next, in this order:

1. Proofs: an abstract specification of the book of binance for an application
   that lets a call settle and a venue whose events do not outlast their stream,
   with the refinement proved from `BookInv` and `PatientInv`.
2. The inflate loops of `misc.cpp` with huobipro's handler.
