---------------------------- MODULE StreamVenues ----------------------------
(***************************************************************************)
(* The thirteen exchange classes that share one WebSocket skeleton: a hub  *)
(* thread, the flags wsconn_state and sub_state, one condition variable    *)
(* and the pointer ws.  They differ in five decisions, collected here as a *)
(* profile per class:                                                      *)
(*   flags      the constructor sets wsconn_state and sub_state to false   *)
(*   acks       onMessage recognises a positive subscription reply         *)
(*   consumed   subscribe_* resets sub_state once its wait is over         *)
(*   heartbeat  the thread that pings forever is started by start_stream   *)
(*              ("start"), by onConnection ("open"), or not at all         *)
(*   refusal    what a negative subscription reply does to the process     *)
(***************************************************************************)

Profiles == [flags : BOOLEAN, acks : BOOLEAN, consumed : BOOLEAN,
             heartbeat : {"none", "start", "open"},
             refusal : {"ignored", "fatal"}]

\* What the functions of the caller decide: the constructor, start_stream and
\* subscribe_*.
Caller(init, reset, beat) == [flags |-> init, consumed |-> reset, pings |-> beat]

\* What the hub thread decides: onConnection and onMessage.
Hub(ack, beat, refuse) == [acks |-> ack, pings |-> beat, refusal |-> refuse]

\* A class that never looks at the replies: subscribe_* waits for a flag
\* that no handler sets.
Deaf == Hub(FALSE, FALSE, "ignored")

Class(caller, hub) ==
  [flags |-> caller.flags, acks |-> hub.acks, consumed |-> caller.consumed,
   heartbeat |-> IF caller.pings THEN "start" ELSE IF hub.pings THEN "open" ELSE "none",
   refusal |-> hub.refusal]

bitmexCaller == Caller(TRUE, TRUE, TRUE)
bitmexHub    == Hub(TRUE, FALSE, "ignored")

huobiproFlags  == TRUE
huobiproCaller == Caller(huobiproFlags, TRUE, FALSE)
huobiproHub    == Hub(TRUE, FALSE, "ignored")

okexCaller == Caller(TRUE, FALSE, FALSE)
okexHub    == Hub(TRUE, TRUE, "ignored")

exg58coinFlags  == TRUE
exg58coinCaller == Caller(exg58coinFlags, FALSE, TRUE)
exg58coinHub    == Hub(TRUE, FALSE, "ignored")

\* An error event of bitfinex carries event, channel and symbol like a
\* confirmation does, but no chanId: reading it fails RapidJSON's assertion.
bitfinexCaller == Caller(FALSE, TRUE, FALSE)
bitfinexHub    == Hub(TRUE, FALSE, "fatal")

gateioCaller   == Caller(TRUE, FALSE, FALSE)
gateioHub      == Deaf
poloniexCaller == Caller(TRUE, FALSE, FALSE)
poloniexHub    == Deaf
deribitFlags   == FALSE
deribitCaller  == Caller(deribitFlags, FALSE, FALSE)
deribitHub     == Deaf

\* Five classes made from one template.
zb               == Class(Caller(TRUE, FALSE, FALSE), Deaf)
bibox            == Class(Caller(TRUE, FALSE, FALSE), Deaf)
bitstamp         == Class(Caller(TRUE, FALSE, FALSE), Deaf)
coinbase         == Class(Caller(TRUE, FALSE, FALSE), Deaf)
cryptofacilities == Class(Caller(TRUE, FALSE, FALSE), Deaf)

Profile ==
  [bitmex |-> Class(bitmexCaller, bitmexHub),
   huobipro |-> Class(huobiproCaller, huobiproHub),
   okex |-> Class(okexCaller, okexHub),
   exg58coin |-> Class(exg58coinCaller, exg58coinHub),
   bitfinex |-> Class(bitfinexCaller, bitfinexHub),
   gateio |-> Class(gateioCaller, gateioHub),
   poloniex |-> Class(poloniexCaller, poloniexHub),
   deribit |-> Class(deribitCaller, deribitHub),
   zb |-> zb, bibox |-> bibox, bitstamp |-> bitstamp, coinbase |-> coinbase,
   cryptofacilities |-> cryptofacilities]

VenueNames == DOMAIN Profile
=============================================================================
