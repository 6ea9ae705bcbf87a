---------------------------- MODULE StreamClient ----------------------------
(***************************************************************************)
(* One exchange object and the threads that share it: the application      *)
(* thread (start_stream, subscribe_*, closestream), the hub thread         *)
(* (threadfunc_stream and its handlers) and the heartbeat thread.          *)
(*                                                                         *)
(* The waits are modelled the way cv.wait(lock, pred) works: evaluate the  *)
(* predicate, then block.  Blocking enters the wait set and releases mu in *)
(* one step, but no handler takes mu, so a handler may store the flag and  *)
(* notify between the evaluation and the blocking.  mu itself is locked by *)
(* the application thread only and so is part of its program counter.      *)
(*                                                                         *)
(* A definition named A_Something is not part of the model: it is A with a *)
(* fault, kept to show that a property notices the fault.                  *)
(***************************************************************************)
EXTENDS StreamVenues, Integers, Sequences

CONSTANTS Venues,    \* the exchange classes instantiated
          MaxCalls   \* bound on the subscribe_* calls of the application

ASSUME VenuesAssumption == Venues \subseteq VenueNames
ASSUME MaxCallsAssumption == MaxCalls \in Nat

VARIABLES
  venue,         \* the class of the object; never changes
  main,          \* application thread
  call,          \* the API call that thread is in or was last in
  hub,           \* hub thread
  hb,            \* heartbeat thread
  wsconn_state, sub_state,
  ws,            \* what the pointer designates: nothing yet, a live socket,
                 \* or a socket uWS has closed and freed
  proc,          \* the process: up, or ended by exit(-1) or by a crash
  requests,      \* subscriptions sent and not yet answered by the venue
  replies,       \* answers on their way to onMessage
  calls, returned, acked \* subscribe_* calls made and completed, positive
                         \* answers handled

vars == <<venue, main, call, hub, hb, wsconn_state, sub_state, ws, proc,
          requests, replies, calls, returned, acked>>

mainVars  == <<main, call, calls, returned>>
netVars   == <<requests, replies>>
P == Profile[venue]

Init ==
  /\ venue \in Venues
  /\ main = "new" /\ call = "start" /\ hub = "none" /\ hb = "none"
  /\ wsconn_state \in IF P.flags THEN {FALSE} ELSE BOOLEAN
  /\ sub_state \in IF P.flags THEN {FALSE} ELSE BOOLEAN
  /\ ws = "unset" /\ proc = "up"
  /\ requests = 0 /\ replies = <<>>
  /\ calls = 0 /\ returned = 0 /\ acked = 0

-----------------------------------------------------------------------------
\* The application thread.

\* A use of ws that is not a live socket is undefined: the process dies or
\* nothing reaches the venue.
ProcAfterUse == IF ws = "live" THEN {"up"} ELSE {"up", "dead"}

Awaited == IF call = "start" THEN wsconn_state ELSE sub_state

\* binance's variant of the same function: the flag is set before the
\* handshake.
StartStream_EarlyFlag ==
  /\ proc = "up" /\ main = "new"
  /\ main' = "check" /\ hub' = "connecting" /\ wsconn_state' = TRUE
  /\ UNCHANGED <<venue, call, hb, sub_state, ws, proc, netVars, calls,
                 returned, acked>>

StartStream ==
  /\ proc = "up" /\ main = "new"
  /\ main' = "check" /\ hub' = "connecting"
  /\ UNCHANGED <<venue, call, hb, wsconn_state, sub_state, ws, proc, netVars,
                 calls, returned, acked>>

Subscribe ==
  /\ proc = "up" /\ main = "ready" /\ calls < MaxCalls
  /\ main' = "check" /\ call' = "subscribe" /\ calls' = calls + 1
  /\ requests' = IF ws = "live" THEN requests + 1 ELSE requests
  /\ proc' \in ProcAfterUse
  /\ UNCHANGED <<venue, hub, hb, wsconn_state, sub_state, ws, replies,
                 returned, acked>>

CheckFails ==
  /\ proc = "up" /\ main = "check" /\ ~Awaited
  /\ main' = "park"
  /\ UNCHANGED <<venue, call, hub, hb, wsconn_state, sub_state, ws, proc,
                 netVars, calls, returned, acked>>

Park ==
  /\ proc = "up" /\ main = "park"
  /\ main' = "wait"
  /\ UNCHANGED <<venue, call, hub, hb, wsconn_state, sub_state, ws, proc,
                 netVars, calls, returned, acked>>

\* The standard allows it; nothing makes it happen.
SpuriousWakeup ==
  /\ proc = "up" /\ main = "wait"
  /\ main' = "check"
  /\ UNCHANGED <<venue, call, hub, hb, wsconn_state, sub_state, ws, proc,
                 netVars, calls, returned, acked>>

StartReturns ==
  /\ proc = "up" /\ main = "check" /\ call = "start" /\ Awaited
  /\ main' = "ready"
  /\ hb' = IF P.heartbeat = "start" THEN "ping" ELSE hb
  /\ UNCHANGED <<venue, call, hub, wsconn_state, sub_state, ws, proc, netVars,
                 calls, returned, acked>>

\* The wait of subscribe_* is over; the flag is reset in a later step, or
\* never.
SubscribeWaited ==
  /\ proc = "up" /\ main = "check" /\ call = "subscribe" /\ Awaited
  /\ main' = IF P.consumed THEN "reset" ELSE "ready"
  /\ returned' = IF P.consumed THEN returned ELSE returned + 1
  /\ UNCHANGED <<venue, call, hub, hb, wsconn_state, sub_state, ws, proc,
                 netVars, calls, acked>>

ResetSubState_Missing ==
  /\ proc = "up" /\ main = "reset"
  /\ main' = "ready" /\ returned' = returned + 1
  /\ UNCHANGED <<venue, call, hub, hb, wsconn_state, sub_state, ws, proc,
                 netVars, calls, acked>>

ResetSubState ==
  /\ proc = "up" /\ main = "reset"
  /\ main' = "ready" /\ sub_state' = FALSE /\ returned' = returned + 1
  /\ UNCHANGED <<venue, call, hub, hb, wsconn_state, ws, proc, netVars, calls,
                 acked>>

\* The pointer is cleared, and nobody checks it.
CloseStream_Nullifies ==
  /\ proc = "up" /\ main = "ready"
  /\ ws' = "null"
  /\ proc' \in ProcAfterUse
  /\ requests' = 0 /\ replies' = <<>>
  /\ UNCHANGED <<venue, mainVars, hub, hb, wsconn_state, sub_state, acked>>

CloseStream ==
  /\ proc = "up" /\ main = "ready"
  /\ ws' = IF ws = "live" THEN "freed" ELSE ws
  /\ proc' \in ProcAfterUse
  /\ requests' = 0 /\ replies' = <<>>
  /\ UNCHANGED <<venue, mainVars, hub, hb, wsconn_state, sub_state, acked>>

-----------------------------------------------------------------------------
\* The hub thread.

NotifyOne_Missing == main' = main

NotifyOne == main' = IF main = "wait" THEN "check" ELSE main

\* h.connect carries user data 9, which onError sends to its default branch.
OnError ==
  /\ proc = "up" /\ hub = "connecting"
  /\ proc' = "dead"
  /\ UNCHANGED <<venue, mainVars, hub, hb, wsconn_state, sub_state, ws,
                 netVars, acked>>

\* onConnection: two stores, then the notification.
StoreWs ==
  /\ proc = "up" /\ hub = "connecting"
  /\ ws' = "live" /\ hub' = "flag"
  /\ UNCHANGED <<venue, mainVars, hb, wsconn_state, sub_state, proc, netVars,
                 acked>>

StoreConnState ==
  /\ proc = "up" /\ hub = "flag"
  /\ wsconn_state' = TRUE /\ hub' = "notify"
  /\ UNCHANGED <<venue, mainVars, hb, sub_state, ws, proc, netVars, acked>>

NotifyConnected ==
  /\ proc = "up" /\ hub = "notify"
  /\ NotifyOne
  /\ hub' = "run"
  /\ hb' = IF P.heartbeat = "open" THEN "ping" ELSE hb
  /\ UNCHANGED <<venue, call, calls, returned, wsconn_state, sub_state, ws,
                 proc, netVars, acked>>

\* onMessage on a positive answer, up to the store; the notification is the
\* next step.
OnAck ==
  /\ proc = "up" /\ hub = "run" /\ replies # <<>> /\ Head(replies) = "ok"
  /\ replies' = Tail(replies)
  /\ IF P.acks
       THEN sub_state' = TRUE /\ acked' = acked + 1 /\ hub' = "acked"
       ELSE UNCHANGED <<sub_state, acked, hub>>
  /\ UNCHANGED <<venue, mainVars, hb, wsconn_state, ws, proc, requests>>

NotifyAcked ==
  /\ proc = "up" /\ hub = "acked"
  /\ NotifyOne
  /\ hub' = "run"
  /\ UNCHANGED <<venue, call, calls, returned, hb, wsconn_state, sub_state,
                 ws, proc, netVars, acked>>

OnRefusal ==
  /\ proc = "up" /\ hub = "run" /\ replies # <<>> /\ Head(replies) = "refused"
  /\ replies' = Tail(replies)
  /\ proc' = IF P.refusal = "fatal" THEN "dead" ELSE proc
  /\ UNCHANGED <<venue, mainVars, hub, hb, wsconn_state, sub_state, ws,
                 requests, acked>>

\* The socket is gone, the flags and the pointer stay as they were, h.run()
\* returns and the thread ends.
OnDisconnection ==
  /\ proc = "up" /\ hub = "run"
  /\ hub' = "gone"
  /\ ws' = "freed" /\ requests' = 0 /\ replies' = <<>>
  /\ UNCHANGED <<venue, mainVars, hb, wsconn_state, sub_state, proc, acked>>

-----------------------------------------------------------------------------
\* The heartbeat thread and the venue.

Ping ==
  /\ proc = "up" /\ hb = "ping"
  /\ hb' = "sleep" /\ proc' \in ProcAfterUse
  /\ UNCHANGED <<venue, mainVars, hub, wsconn_state, sub_state, ws, netVars,
                 acked>>

HeartbeatWakes ==
  /\ proc = "up" /\ hb = "sleep"
  /\ hb' = "ping"
  /\ UNCHANGED <<venue, mainVars, hub, wsconn_state, sub_state, ws, proc,
                 netVars, acked>>

VenueAnswers ==
  /\ proc = "up" /\ requests > 0
  /\ requests' = requests - 1
  /\ \E answer \in {"ok", "refused"} : replies' = Append(replies, answer)
  /\ UNCHANGED <<venue, mainVars, hub, hb, wsconn_state, sub_state, ws, proc,
                 acked>>

-----------------------------------------------------------------------------
MainStep ==
  \/ StartStream \/ Subscribe \/ CheckFails \/ Park
  \/ StartReturns \/ SubscribeWaited \/ ResetSubState
HubStep ==
  \/ OnError \/ StoreWs \/ StoreConnState \/ NotifyConnected
  \/ OnAck \/ NotifyAcked \/ OnRefusal

EnvironmentStep ==
  \/ SpuriousWakeup \/ CloseStream \/ OnDisconnection
  \/ Ping \/ HeartbeatWakes \/ VenueAnswers

Next == MainStep \/ HubStep \/ EnvironmentStep

Spec == Init /\ [][Next]_vars

\* The scheduler runs every thread that can run, connecting ends one way or
\* the other, and the venue answers; nothing is assumed of spurious wakeups,
\* of disconnections, or of the application closing the stream.
FairSpec ==
  /\ Spec
  /\ WF_vars(MainStep)
  /\ WF_vars(HubStep)
  /\ WF_vars(VenueAnswers)

-----------------------------------------------------------------------------
TypeOK ==
  /\ venue \in Venues
  /\ main \in {"new", "check", "park", "wait", "reset", "ready"}
  /\ call \in {"start", "subscribe"}
  /\ hub \in {"none", "connecting", "flag", "notify", "run", "acked", "gone"}
  /\ hb \in {"none", "ping", "sleep"}
  /\ wsconn_state \in BOOLEAN /\ sub_state \in BOOLEAN
  /\ ws \in {"unset", "live", "freed"} /\ proc \in {"up", "dead"}
  /\ requests \in Nat /\ replies \in Seq({"ok", "refused"})
  /\ calls \in Nat /\ returned \in Nat /\ acked \in Nat

Started == main = "ready" \/ call = "subscribe"

\* start_stream hands back a connection, and no heartbeat thread runs before
\* there is one: whoever may call sendmsg finds ws assigned, although ws and
\* wsconn_state are plain members written by another thread.
WsSetBeforeUse == P.flags => (Started \/ hb # "none" => ws # "unset")

\* A subscribe_* call that has returned was confirmed by the venue: where
\* the flag is consumed every call has a confirmation of its own, elsewhere
\* at least one confirmation came before the first return.
ReturnsAreConfirmed ==
  P.flags => IF P.consumed THEN returned <= acked
                           ELSE returned > 0 => acked > 0

\* What the caller of a class that consumes the flag may rely on: the calls
\* of the object are those of StreamApi.
Api == INSTANCE StreamApi WITH
  connected <- ws # "unset", started <- Started,
  granted <- acked, completed <- returned
ApiSpec == Api!Spec

\* An application thread parked before the connection opens is woken once it
\* has opened, and one parked in subscribe_* by a confirmation that is still
\* on its way.
ParkedIsWoken ==
  /\ (main = "wait" /\ call = "start" /\ ~wsconn_state)
       ~> (main # "wait" \/ proc = "dead")
  /\ (/\ main = "wait" /\ call = "subscribe" /\ P.acks
      /\ \E i \in DOMAIN replies : replies[i] = "ok")
       ~> (main # "wait" \/ ws = "freed" \/ proc = "dead")

\* start_stream returns once the connection has opened.
StartStreamReturns ==
  (call = "start" /\ wsconn_state) ~> (Started \/ proc = "dead")
=============================================================================
