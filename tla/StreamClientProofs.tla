------------------------- MODULE StreamClientProofs -------------------------
(***************************************************************************)
(* Theorems about StreamClient, for every set of classes and every number  *)
(* of subscribe_* calls.                                                   *)
(***************************************************************************)
EXTENDS StreamClient, TLAPS

\* What the constructor leaves in the flags.
LEMMA InitialFlags ==
  Init => /\ wsconn_state \in BOOLEAN /\ sub_state \in BOOLEAN
          /\ P.flags => wsconn_state = FALSE /\ sub_state = FALSE
<1> SUFFICES ASSUME Init PROVE /\ wsconn_state \in BOOLEAN /\ sub_state \in BOOLEAN
                               /\ P.flags => wsconn_state = FALSE /\ sub_state = FALSE
  OBVIOUS
<1>1. CASE P.flags
  <2>1. wsconn_state \in {FALSE} /\ sub_state \in {FALSE}
    BY <1>1, Zenon DEF Init
  <2> QED
    BY <2>1, Zenon
<1>2. CASE ~P.flags
  BY <1>2, Zenon DEF Init
<1> QED
  BY <1>1, <1>2

\* Every variable keeps its type.
THEOREM TypeCorrect == Spec => []TypeOK
<1>1. Init => TypeOK
  <2> SUFFICES ASSUME Init PROVE TypeOK
    OBVIOUS
  <2>1. wsconn_state \in BOOLEAN /\ sub_state \in BOOLEAN
    BY InitialFlags, Zenon
  <2>2. replies \in Seq({"ok", "refused"}) /\ requests \in Nat /\ calls \in Nat
        /\ returned \in Nat /\ acked \in Nat
    BY DEF Init
  <2>3. /\ venue \in Venues
        /\ main = "new" /\ call = "start" /\ hub = "none" /\ hb = "none"
        /\ ws = "unset" /\ proc = "up"
    BY DEF Init
  <2> QED
    BY <2>1, <2>2, <2>3 DEF TypeOK
<1>2. TypeOK /\ [Next]_vars => TypeOK'
  <2> SUFFICES ASSUME TypeOK, [Next]_vars PROVE TypeOK'
    OBVIOUS
  <2> USE DEF TypeOK, mainVars, netVars
  <2>1. CASE StartStream
    BY <2>1 DEF StartStream
  <2>2. CASE Subscribe
    BY <2>2 DEF Subscribe, ProcAfterUse
  <2>3. CASE CheckFails
    BY <2>3 DEF CheckFails
  <2>4. CASE Park
    BY <2>4 DEF Park
  <2>5. CASE StartReturns
    BY <2>5 DEF StartReturns
  <2>6. CASE SubscribeWaited
    BY <2>6 DEF SubscribeWaited
  <2>7. CASE ResetSubState
    <3>1. sub_state' \in BOOLEAN
      BY <2>7, Zenon DEF ResetSubState
    <3> QED
      BY <2>7, <3>1 DEF ResetSubState
  <2>8. CASE OnError \/ StoreWs \/ StoreConnState
    BY <2>8 DEF OnError, StoreWs, StoreConnState
  <2>9. CASE NotifyConnected \/ NotifyAcked
    <3>1. main' \in {main, "check"}
      BY <2>9 DEF NotifyConnected, NotifyAcked, NotifyOne
    <3> QED
      BY <2>9, <3>1 DEF NotifyConnected, NotifyAcked
  <2>10. CASE OnAck
    <3>1. replies' \in Seq({"ok", "refused"})
      BY <2>10 DEF OnAck
    <3>2. CASE P.acks
      <4>1. sub_state' \in BOOLEAN
        BY <2>10, <3>2, Zenon DEF OnAck
      <4> QED
        BY <2>10, <3>1, <3>2, <4>1 DEF OnAck
    <3>3. CASE ~P.acks
      BY <2>10, <3>1, <3>3 DEF OnAck
    <3> QED
      BY <3>2, <3>3
  <2>11. CASE OnRefusal
    BY <2>11 DEF OnRefusal
  <2>12. CASE SpuriousWakeup
    BY <2>12 DEF SpuriousWakeup
  <2>13. CASE CloseStream \/ OnDisconnection
    <3>1. replies' = <<>> /\ requests' = 0
      BY <2>13 DEF CloseStream, OnDisconnection
    <3>2. ws' \in {"unset", "live", "freed"} /\ proc' \in {"up", "dead"}
      BY <2>13 DEF CloseStream, OnDisconnection, ProcAfterUse
    <3> QED
      BY <2>13, <3>1, <3>2 DEF CloseStream, OnDisconnection
  <2>14. CASE Ping \/ HeartbeatWakes
    BY <2>14 DEF Ping, HeartbeatWakes, ProcAfterUse
  <2>15. CASE VenueAnswers
    BY <2>15 DEF VenueAnswers
  <2>16. CASE UNCHANGED vars
    BY <2>16 DEF vars
  <2> QED
    BY <2>1, <2>2, <2>3, <2>4, <2>5, <2>6, <2>7, <2>8, <2>9, <2>10, <2>11,
       <2>12, <2>13, <2>14, <2>15, <2>16
    DEF Next, MainStep, HubStep, EnvironmentStep
<1> QED
  BY <1>1, <1>2, PTL DEF Spec

-----------------------------------------------------------------------------
\* Why ws is set before it is used: the hub thread stores ws first, and
\* whatever else it does comes later; the flag that start_stream waits for is
\* stored after it.
WsInv ==
  /\ hub \notin {"none", "connecting"} => ws # "unset"
  /\ P.flags => (wsconn_state => ws # "unset")
  /\ main = "reset" => call = "subscribe"
  /\ WsSetBeforeUse

LEMMA WsInvInit == Init => WsInv
  BY InitialFlags DEF Init, WsInv, WsSetBeforeUse, Started

LEMMA WsInvStep == ASSUME TypeOK, WsInv, [Next]_vars PROVE WsInv'
<1> USE DEF TypeOK, WsInv, WsSetBeforeUse, Started, P, mainVars, netVars
<1>1. CASE MainStep
  <2>1. CASE StartStream
    BY <2>1 DEF StartStream
  <2>2. CASE StartReturns
    BY <2>2 DEF StartReturns, Awaited
  <2>3. CASE SubscribeWaited
    BY <2>3 DEF SubscribeWaited
  <2>4. CASE Subscribe \/ CheckFails \/ Park \/ ResetSubState
    BY <2>4 DEF Subscribe, CheckFails, Park, ResetSubState
  <2> QED
    BY <1>1, <2>1, <2>2, <2>3, <2>4 DEF MainStep
<1>2. CASE HubStep
  BY <1>2 DEF HubStep, OnError, StoreWs, StoreConnState, NotifyConnected,
              OnAck, NotifyAcked, OnRefusal, NotifyOne
<1>3. CASE EnvironmentStep
  BY <1>3 DEF EnvironmentStep, SpuriousWakeup, CloseStream, OnDisconnection,
              Ping, HeartbeatWakes, VenueAnswers
<1>4. CASE UNCHANGED vars
  BY <1>4 DEF vars
<1> QED
  BY <1>1, <1>2, <1>3, <1>4 DEF Next

\* No thread that may call sendmsg runs before ws is assigned, in a class
\* whose constructor initialises the flags.
THEOREM WsIsSetBeforeUse == Spec => []WsSetBeforeUse
<1>1. WsInv => WsSetBeforeUse
  BY DEF WsInv
<1> QED
  BY <1>1, WsInvInit, WsInvStep, TypeCorrect, PTL DEF Spec

-----------------------------------------------------------------------------
\* Why a call has a confirmation of its own where the flag is consumed: no
\* more answers are under way or handled than calls were made, and the flag
\* is what tells the confirmations from the completed calls.
OpenCalls == IF call = "subscribe" /\ main # "ready" THEN 1 ELSE 0

ConsumedInv ==
  /\ requests + Len(replies) + acked <= calls
  /\ calls = returned + OpenCalls
  /\ acked = returned + (IF sub_state THEN 1 ELSE 0)
  /\ main = "reset" => sub_state /\ call = "subscribe"

KeptInv == (sub_state => acked > 0) /\ (returned > 0 => acked > 0)

ConfirmInv ==
  /\ main = "reset" => P.consumed
  /\ P.flags => IF P.consumed THEN ConsumedInv ELSE KeptInv

LEMMA ConfirmInvInit == Init => ConfirmInv
<1> SUFFICES ASSUME Init PROVE ConfirmInv
  OBVIOUS
<1>1. main = "new" /\ call = "start" /\ requests = 0 /\ Len(replies) = 0
      /\ calls = 0 /\ returned = 0 /\ acked = 0
  BY DEF Init
<1>2. P.flags => ~sub_state
  BY InitialFlags, Zenon
<1>3. OpenCalls = 0
  BY <1>1 DEF OpenCalls
<1>4. P.flags => ConsumedInv
  BY <1>1, <1>2, <1>3 DEF ConsumedInv
<1>5. P.flags => KeptInv
  BY <1>1, <1>2 DEF KeptInv
<1> QED
  BY <1>1, <1>4, <1>5 DEF ConfirmInv

LEMMA ConfirmInvStep == ASSUME TypeOK, ConfirmInv, [Next]_vars PROVE ConfirmInv'
<1> USE DEF TypeOK, ConfirmInv, ConsumedInv, KeptInv, OpenCalls, P,
            mainVars, netVars
<1>1. CASE MainStep
  <2>1. CASE StartStream \/ CheckFails \/ Park \/ StartReturns
    BY <2>1 DEF StartStream, CheckFails, Park, StartReturns
  <2>2. CASE Subscribe
    BY <2>2 DEF Subscribe
  <2>3. CASE SubscribeWaited
    BY <2>3 DEF SubscribeWaited, Awaited
  <2>4. CASE ResetSubState
    BY <2>4 DEF ResetSubState
  <2> QED
    BY <1>1, <2>1, <2>2, <2>3, <2>4 DEF MainStep
<1>2. CASE HubStep
  <2>1. CASE OnAck
    <3>1. Len(replies) >= 1 /\ Len(replies') = Len(replies) - 1
      BY <2>1 DEF OnAck
    <3> QED
      BY <2>1, <3>1 DEF OnAck
  <2>2. CASE OnRefusal
    <3>1. Len(replies') = Len(replies) - 1
      BY <2>2 DEF OnRefusal
    <3> QED
      BY <2>2, <3>1 DEF OnRefusal
  <2>3. CASE OnError \/ StoreWs \/ StoreConnState \/ NotifyConnected \/ NotifyAcked
    BY <2>3 DEF OnError, StoreWs, StoreConnState, NotifyConnected, NotifyAcked,
                NotifyOne
  <2> QED
    BY <1>2, <2>1, <2>2, <2>3 DEF HubStep
<1>3. CASE EnvironmentStep
  <2>1. CASE CloseStream \/ OnDisconnection
    BY <2>1 DEF CloseStream, OnDisconnection
  <2>2. CASE VenueAnswers
    <3>1. Len(replies') = Len(replies) + 1
      BY <2>2 DEF VenueAnswers
    <3> QED
      BY <2>2, <3>1 DEF VenueAnswers
  <2>3. CASE SpuriousWakeup \/ Ping \/ HeartbeatWakes
    BY <2>3 DEF SpuriousWakeup, Ping, HeartbeatWakes
  <2> QED
    BY <1>3, <2>1, <2>2, <2>3 DEF EnvironmentStep
<1>4. CASE UNCHANGED vars
  BY <1>4 DEF vars
<1> QED
  BY <1>1, <1>2, <1>3, <1>4 DEF Next

\* A subscribe_* call that has returned was confirmed.
THEOREM ReturnsConfirmed == Spec => []ReturnsAreConfirmed
<1>1. TypeOK /\ ConfirmInv => ReturnsAreConfirmed
  BY DEF TypeOK, ConfirmInv, ConsumedInv, KeptInv, ReturnsAreConfirmed
<1> QED
  BY <1>1, ConfirmInvInit, ConfirmInvStep, TypeCorrect, PTL DEF Spec

-----------------------------------------------------------------------------
\* Classes that initialise the flags and consume sub_state.
AllConsume == \A v \in Venues : Profile[v].flags /\ Profile[v].consumed

\* The calls of such a class are those of StreamApi: the store of ws is its
\* Connect, the return of start_stream its Start, a handled confirmation its
\* Grant, the reset of the flag its Complete.
LEMMA ApiInit == Init => Api!Init
<1> SUFFICES ASSUME Init PROVE Api!Init
  OBVIOUS
<1>1. main = "new" /\ call = "start" /\ ws = "unset" /\ acked = 0 /\ returned = 0
  BY DEF Init
<1> QED
  BY <1>1 DEF Api!Init, Started

LEMMA ApiStep ==
  ASSUME AllConsume, TypeOK, WsInv, ConfirmInv, [Next]_vars
  PROVE  [Api!Next]_(Api!vars)
<1>1. P.flags /\ P.consumed /\ ConsumedInv
  BY DEF AllConsume, TypeOK, P, ConfirmInv
<1> USE DEF TypeOK, mainVars, netVars, Started, Api!vars
<1>2. CASE StoreWs
  <2>1. CASE ws = "unset"
    <3>1. Api!Connect
      BY <1>2, <2>1 DEF StoreWs, Api!Connect
    <3> QED
      BY <3>1 DEF Api!Next
  <2>2. CASE ws # "unset"
    BY <1>2, <2>2 DEF StoreWs
  <2> QED
    BY <2>1, <2>2
<1>3. CASE StartReturns
  <2>1. ws # "unset"
    BY <1>1, <1>3 DEF StartReturns, Awaited, WsInv
  <2>2. Api!Start
    BY <1>3, <2>1 DEF StartReturns, Api!Start
  <2> QED
    BY <2>2 DEF Api!Next
<1>4. CASE OnAck
  <2>1. CASE P.acks
    <3>1. Len(replies) >= 1
      BY <1>4 DEF OnAck
    <3>2. acked = returned /\ Started
      BY <1>1, <3>1 DEF ConsumedInv, OpenCalls
    <3>3. acked' = acked + 1 /\ UNCHANGED <<ws, main, call, returned>>
      BY <1>4, <2>1 DEF OnAck
    <3>4. Api!Grant
      BY <3>2, <3>3 DEF Api!Grant
    <3> QED
      BY <3>4 DEF Api!Next
  <2>2. CASE ~P.acks
    BY <1>4, <2>2 DEF OnAck
  <2> QED
    BY <2>1, <2>2
<1>5. CASE ResetSubState
  <2>1. returned < acked /\ call = "subscribe"
    BY <1>1, <1>5 DEF ResetSubState, ConsumedInv
  <2>2. Api!Complete
    BY <1>5, <2>1 DEF ResetSubState, Api!Complete
  <2> QED
    BY <2>2 DEF Api!Next
<1>6. CASE StartStream \/ Subscribe \/ CheckFails \/ Park
  BY <1>6 DEF StartStream, Subscribe, CheckFails, Park
<1>7. CASE SubscribeWaited
  BY <1>1, <1>7 DEF SubscribeWaited
<1>8. CASE OnError \/ StoreConnState \/ OnRefusal
  BY <1>8 DEF OnError, StoreConnState, OnRefusal
<1>9. CASE NotifyConnected \/ NotifyAcked
  BY <1>9 DEF NotifyConnected, NotifyAcked, NotifyOne
<1>10. CASE SpuriousWakeup
  BY <1>10 DEF SpuriousWakeup
<1>11. CASE CloseStream
  BY <1>11 DEF CloseStream
<1>12. CASE OnDisconnection
  <2>1. ws # "unset"
    BY <1>12 DEF OnDisconnection, WsInv
  <2> QED
    BY <1>12, <2>1 DEF OnDisconnection
<1>13. CASE Ping \/ HeartbeatWakes \/ VenueAnswers
  BY <1>13 DEF Ping, HeartbeatWakes, VenueAnswers
<1>14. CASE UNCHANGED vars
  BY <1>14 DEF vars
<1> QED
  BY <1>2, <1>3, <1>4, <1>5, <1>6, <1>7, <1>8, <1>9, <1>10, <1>11, <1>12,
     <1>13, <1>14
  DEF Next, MainStep, HubStep, EnvironmentStep

\* A class that initialises its flags and consumes sub_state implements the
\* promise of start_stream and subscribe_*.
THEOREM ImplementsApi == ASSUME AllConsume PROVE Spec => ApiSpec
<1> USE DEF ApiSpec, Api!Spec
<1>1. Spec => [](TypeOK /\ WsInv /\ ConfirmInv)
  BY WsInvInit, WsInvStep, ConfirmInvInit, ConfirmInvStep, TypeCorrect, PTL DEF Spec
<1>2. TypeOK /\ WsInv /\ ConfirmInv /\ [Next]_vars => [Api!Next]_(Api!vars)
  BY ApiStep
<1> QED
  BY <1>1, <1>2, ApiInit, PTL DEF Spec
=============================================================================
