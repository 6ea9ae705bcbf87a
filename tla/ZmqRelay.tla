------------------------------ MODULE ZmqRelay ------------------------------
(***************************************************************************)
(* The way of a reading from the monitor loop to a client process: a       *)
(* DEALER socket of the monitor, connected to inproc:///tmp/tunnelbook,    *)
(* the thread of zmqservice, and its DEALER socket bound to ipc.  The n-th *)
(* reading is the number n.                                                *)
(*                                                                         *)
(* ZeroMQ is external: a connected socket queues up to Hwm messages, also  *)
(* before anybody binds; a send with nowhere to queue blocks; the queue of *)
(* a peer that goes away is discarded.                                     *)
(*                                                                         *)
(* A definition named A_Something is not part of the model: it is A with a *)
(* fault, kept to show that a property notices the fault.                  *)
(***************************************************************************)
EXTENDS Naturals, Sequences

CONSTANTS Hwm,           \* high-water mark of a queue
          RelayStarted,  \* main() calls zmqservice::start()
          MaxReadings, MaxDepartures  \* bounds

ASSUME HwmAssumption == Hwm \in Nat \ {0}
ASSUME RelayStartedAssumption == RelayStarted \in BOOLEAN
ASSUME BoundsAssumption == MaxReadings \in Nat /\ MaxDepartures \in Nat

VARIABLES
  readings,    \* sent by the monitor so far
  tunnel,      \* queue of the inproc pipe
  relay,       \* thread of zmqservice: off, recv or send
  held,        \* the message it has received and not sent on
  peer,        \* a client is connected to the ipc socket
  departures,  \* times a client went away
  wire,        \* queue of the ipc pipe
  received     \* by the client

vars == <<readings, tunnel, relay, held, peer, departures, wire, received>>

Init ==
  /\ readings = 0 /\ tunnel = <<>>
  /\ relay = "off" /\ held = <<>>
  /\ peer = FALSE /\ departures = 0
  /\ wire = <<>> /\ received = <<>>

\* socket.send in bitmexbook(): returns when the pipe has room.
MonitorSends ==
  /\ readings < MaxReadings
  /\ Len(tunnel) < Hwm
  /\ readings' = readings + 1
  /\ tunnel' = Append(tunnel, readings + 1)
  /\ UNCHANGED <<relay, held, peer, departures, wire, received>>

\* zmqservice::start and the two bind calls.
RelayStarts ==
  /\ RelayStarted /\ relay = "off"
  /\ relay' = "recv"
  /\ UNCHANGED <<readings, tunnel, held, peer, departures, wire, received>>

RelayReceives_Peek ==
  /\ relay = "recv" /\ tunnel # <<>>
  /\ held' = <<Head(tunnel)>>
  /\ relay' = "send"
  /\ UNCHANGED <<readings, tunnel, peer, departures, wire, received>>

RelayReceives ==
  /\ relay = "recv" /\ tunnel # <<>>
  /\ held' = <<Head(tunnel)>> /\ tunnel' = Tail(tunnel)
  /\ relay' = "send"
  /\ UNCHANGED <<readings, peer, departures, wire, received>>

\* The send of the relay returns only when a client is connected and its
\* queue has room.
RelaySends_DontWait ==
  /\ relay = "send"
  /\ wire' = IF peer /\ Len(wire) < Hwm THEN wire \o held ELSE wire
  /\ held' = <<>>
  /\ relay' = "recv"
  /\ UNCHANGED <<readings, tunnel, peer, departures, received>>

RelaySends_KeepsHeld ==
  /\ relay = "send"
  /\ peer /\ Len(wire) < Hwm
  /\ wire' = wire \o held
  /\ relay' = "recv"
  /\ UNCHANGED <<readings, tunnel, held, peer, departures, received>>

RelaySends ==
  /\ relay = "send"
  /\ peer /\ Len(wire) < Hwm
  /\ wire' = wire \o held /\ held' = <<>>
  /\ relay' = "recv"
  /\ UNCHANGED <<readings, tunnel, peer, departures, received>>

ClientConnects ==
  /\ relay # "off" /\ ~peer
  /\ peer' = TRUE
  /\ UNCHANGED <<readings, tunnel, relay, held, departures, wire, received>>

ClientReceives ==
  /\ peer /\ wire # <<>>
  /\ received' = Append(received, Head(wire)) /\ wire' = Tail(wire)
  /\ UNCHANGED <<readings, tunnel, relay, held, peer, departures>>

ClientLeaves ==
  /\ peer /\ departures < MaxDepartures
  /\ peer' = FALSE /\ departures' = departures + 1
  /\ wire' = <<>>
  /\ UNCHANGED <<readings, tunnel, relay, held, received>>

Next == \/ MonitorSends
        \/ RelayStarts \/ RelayReceives \/ RelaySends
        \/ ClientConnects \/ ClientReceives \/ ClientLeaves

Spec == Init /\ [][Next]_vars

\* Every thread goes on when it can, and a client connects and reads.
FairSpec ==
  /\ Spec
  /\ WF_vars(MonitorSends)
  /\ WF_vars(RelayStarts) /\ WF_vars(RelayReceives) /\ WF_vars(RelaySends)
  /\ WF_vars(ClientConnects) /\ WF_vars(ClientReceives)

-----------------------------------------------------------------------------
TypeOK ==
  /\ readings \in Nat /\ tunnel \in Seq(1 .. readings)
  /\ relay \in {"off", "recv", "send"}
  /\ held \in Seq(1 .. readings) /\ Len(held) = IF relay = "send" THEN 1 ELSE 0
  /\ peer \in BOOLEAN /\ departures \in Nat
  /\ wire \in Seq(1 .. readings) /\ received \in Seq(1 .. readings)

\* The relay as a service that has two queues only, one of its own and one for
\* the client.  Whatever the high-water marks, the blocking and the message in
\* the relay's hands: each reading is passed on once, in the order of the
\* monitor loop and only to a client that is connected; a reading stays in the
\* service until then, also across departures, and is lost only with the queue
\* of a client that leaves.
Queue == INSTANCE LossyFifo WITH
  sent <- readings, service <- held \o tunnel,
  connected <- peer, client <- wire, delivered <- received
QueueSpec == Queue!Spec

\* While no client has left, nothing is lost: the readings are the received
\* ones followed by those under way.
NothingLost ==
  departures = 0 =>
    received \o wire \o held \o tunnel = [n \in 1 .. readings |-> n]

\* Every reading reaches the client, unless a client left.
EveryReadingArrives ==
  \A n \in 1 .. MaxReadings :
    <>(departures > 0 \/ \E i \in DOMAIN received : received[i] = n)
=============================================================================
