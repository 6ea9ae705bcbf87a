------------------------------ MODULE LossyFifo ------------------------------
(***************************************************************************)
(* A service with one client at a time.  The n-th message sent is the      *)
(* number n; the service passes its messages on in order, each to the      *)
(* client that is connected then, and keeps them while there is none.      *)
(* What is queued for a client when it leaves is lost, and nothing else.   *)
(***************************************************************************)
EXTENDS Naturals, Sequences

VARIABLES
  sent,       \* messages sent so far
  service,    \* those the service has still to pass on
  connected,  \* a client is connected
  client,     \* those queued for it
  delivered   \* received by a client

vars == <<sent, service, connected, client, delivered>>

Init == /\ sent = 0 /\ service = <<>>
        /\ connected = FALSE /\ client = <<>> /\ delivered = <<>>

Send ==
  /\ sent' = sent + 1
  /\ service' = Append(service, sent + 1)
  /\ UNCHANGED <<connected, client, delivered>>

Connect ==
  /\ ~connected
  /\ connected' = TRUE
  /\ UNCHANGED <<sent, service, client, delivered>>

PassOn ==
  /\ connected /\ service # <<>>
  /\ client' = Append(client, Head(service))
  /\ service' = Tail(service)
  /\ UNCHANGED <<sent, connected, delivered>>

Deliver ==
  /\ connected /\ client # <<>>
  /\ delivered' = Append(delivered, Head(client))
  /\ client' = Tail(client)
  /\ UNCHANGED <<sent, service, connected>>

Leave ==
  /\ connected
  /\ connected' = FALSE /\ client' = <<>>
  /\ UNCHANGED <<sent, service, delivered>>

Next == Send \/ Connect \/ PassOn \/ Deliver \/ Leave

Spec == Init /\ [][Next]_vars
=============================================================================
