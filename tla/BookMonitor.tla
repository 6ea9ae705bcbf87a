---------------------------- MODULE BookMonitor ----------------------------
(***************************************************************************)
(* The order book of bitmex, the loop of bitmexbook() and the relay in one *)
(* system: BitmexBook, whose SendReading is the MonitorSends of ZmqRelay.  *)
(* The relay numbers the readings; sent says what they contain.  The loop  *)
(* waits in send while the tunnel is full, and the book moves on.  The     *)
(* relay's thread and its queues go down with the process, the client      *)
(* does not: it still reads what is in its pipe.                           *)
(*                                                                         *)
(* A definition named A_Something is not part of the model: it is A with a *)
(* fault, kept to show that a property notices the fault.                  *)
(***************************************************************************)
EXTENDS BitmexBook

CONSTANTS Hwm, MaxReadings, MaxDepartures  \* see ZmqRelay

ASSUME FeedHwmAssumption == Hwm \in Nat \ {0}
ASSUME FeedBoundsAssumption == MaxReadings \in Nat /\ MaxDepartures \in Nat

VARIABLES
  readings, tunnel, relay, held, peer, departures, wire, received,  \* see ZmqRelay
  sent   \* the readings sent, with the rows applied at their queries

Relay == INSTANCE ZmqRelay WITH RelayStarted <- TRUE

relayVars == <<readings, tunnel, relay, held, peer, departures, wire, received>>
allVars == <<vars, relayVars, sent>>

FeedInit == Init /\ Relay!Init /\ sent = <<>>

\* sprintf and memcpy of bitmexbook().
Reading_SidesSwapped == [ask |-> m_bid, bid |-> m_ask, askAt |-> askAt, bidAt |-> bidAt]
Reading == [ask |-> m_ask, bid |-> m_bid, askAt |-> askAt, bidAt |-> bidAt]

SendToTunnel ==
  /\ SendReading /\ Relay!MonitorSends
  /\ sent' = Append(sent, Reading)

\* The venue, the hub thread and the queries.
BookStep ==
  /\ \/ SendPartial \/ SendChange \/ SendDeletes
     \/ ApplyRow \/ OnDisconnection
     \/ select_askamount \/ select_bidamount
  /\ UNCHANGED <<relayVars, sent>>

\* The thread of zmqservice.
RelayStep ==
  /\ proc = "up"
  /\ Relay!RelayStarts \/ Relay!RelayReceives \/ Relay!RelaySends
  /\ UNCHANGED <<vars, sent>>

ClientConnects == proc = "up" /\ Relay!ClientConnects /\ UNCHANGED <<vars, sent>>

ClientStep ==
  /\ Relay!ClientReceives \/ Relay!ClientLeaves
  /\ UNCHANGED <<vars, sent>>

FeedNext == SendToTunnel \/ BookStep \/ RelayStep \/ ClientConnects \/ ClientStep

FeedSpec == FeedInit /\ [][FeedNext]_allVars

-----------------------------------------------------------------------------
FeedTypeOK ==
  /\ TypeOK /\ Relay!TypeOK
  /\ sent \in Seq([ask : SUBSET TableRows, bid : SUBSET TableRows, askAt : Nat, bidAt : Nat])
  /\ Len(sent) = readings

\* What the client reads, whatever the loop, the relay and the client itself
\* waited for or lost in between.
Told(i) == sent[received[i]]

\* Each side of a reading is the figure of the venue's best levels after some
\* row.
ToldIsVenues ==
  \A i \in DOMAIN received :
    /\ IsVenueFigure(Told(i).ask, books[Told(i).askAt + 1], "Sell")
    /\ IsVenueFigure(Told(i).bid, books[Told(i).bidAt + 1], "Buy")

\* The row of the ask side is no later than that of the bid side, and a reading
\* is of books no older than those of the one before it.
ToldInOrder ==
  \A i \in DOMAIN received :
    /\ Told(i).askAt <= Told(i).bidAt
    /\ \A j \in DOMAIN received : i < j => Told(i).bidAt <= Told(j).askAt

\* What a client is told in succession, although neither a message, nor a
\* pair of queries, nor the way of a reading is atomic.
ClientSeesVenue == ToldIsVenues /\ ToldInOrder
=============================================================================
