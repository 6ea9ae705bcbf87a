---------------------------- MODULE OrderGateway ----------------------------
(***************************************************************************)
(* Orders over HTTPS: buy_sell() starts two threads, each sends one limit  *)
(* order through https_post() and prints what came back, and joins them;   *)
(* get_balance() of huobipro and get_snapshot_depth() of binance, which    *)
(* subscribe_depth() calls, send one request through https_get() in the    *)
(* caller's thread.  main() calls one of them after the other.             *)
(*                                                                         *)
(* Every request is bracketed by curl_global_init() and                    *)
(* curl_global_cleanup(), which count their callers in a plain counter     *)
(* (curl.h: "This function is not thread-safe!"): the first one brings the *)
(* library up and the last one takes it down.                              *)
(*                                                                         *)
(* A definition named A_Something is not part of the model: it is A with a *)
(* fault, kept to show that a property notices the fault.                  *)
(***************************************************************************)
EXTENDS Integers, Sequences, FiniteSets

CONSTANTS Venues,      \* the classes to trade with
          MaxCalls     \* bound on the calls

ASSUME VenuesAssumption == Venues \subseteq {"binance", "huobipro", "okex"}
ASSUME CallsAssumption == MaxCalls \in Nat

Legs == {"buy", "sell"}
Requests == Legs \union {"balance", "snapshot"}

\* What a request is doing.  The last step of a name like init_store is the
\* one it is about to take.
Counting == {"init_store", "bring_up", "cleanup_store", "take_down"}
Places == Counting \union
          {"off", "init", "handle", "transfer", "cleanup", "print", "done"}

Orders == {"none", "buy", "sell", "quoted sell", "query"}

\* empty: nothing was read; part: the connection failed in the middle of an
\* answer; the others are whole answers.
Answers == {"executed", "refused"}
Replies == {"empty", "part"} \union Answers

\* The places of a request that has incremented the counter.
Counted == {"bring_up", "handle", "transfer", "cleanup", "cleanup_store"}

VARIABLES
  calls,     \* how many calls were begun
  pc,        \* where each request is
  order,     \* what it posts
  users,     \* the counter of curl_global_init
  up,        \* the library is initialised
  seen,      \* the value of the counter each thread has loaded
  verdict,   \* what the venue has decided about the order, or none
  reply,     \* retstr of https_post
  alive,     \* the process runs
  \* Not in the program; the properties need them:
  deals,     \* the sides of the orders the venues executed, for each leg
  raced      \* two threads have been inside the counter at once

curlVars == <<users, up, seen>>
netVars  == <<verdict, reply, deals>>
vars == <<calls, pc, order, curlVars, netVars, alive, raced>>

Init ==
  /\ calls = 0 /\ alive = TRUE /\ raced = FALSE
  /\ pc = [r \in Requests |-> "off"]
  /\ order = [r \in Requests |-> "none"]
  /\ users = 0 /\ up = FALSE /\ seen = [r \in Requests |-> 0]
  /\ verdict = [l \in Legs |-> "none"] /\ reply = [l \in Legs |-> "empty"]
  /\ deals = [l \in Legs |-> <<>>]

-----------------------------------------------------------------------------
\* What is posted.  huobipro posts the same sell order whatever it is asked;
\* the one in create_limit_buy_order is in single quotes, which is not JSON.
\* create_limit_buy_order of okex computes its parameters and sends nothing.
\* Only huobipro asks for its balance, only binance for a snapshot.
Order(v, r) ==
  CASE r = "buy" -> [binance |-> "buy", huobipro |-> "quoted sell",
                     okex |-> "none"][v]
    [] r = "sell" -> "sell"
    [] r = "balance" -> IF v = "huobipro" THEN "query" ELSE "none"
    [] r = "snapshot" -> "query"

\* The orders a venue can read, and the side it reads.
Legible == [buy |-> "buy", sell |-> "sell"]

\* Control of r moves from one place to another.
Goes(r, from, to) ==
  /\ alive
  /\ pc[r] = from
  /\ pc' = [pc EXCEPT ![r] = to]
  /\ raced' = (raced \/ \E q \in Requests \ {r} : {to, pc[q]} \subseteq Counting)

-----------------------------------------------------------------------------
\* The application.

Idle == \A r \in Requests : pc[r] = "off"

Start(rs) ==
  /\ alive /\ Idle
  /\ calls < MaxCalls
  /\ calls' = calls + 1
  /\ \E w \in [rs -> Venues] :
       /\ order' = [r \in Requests |->
                      IF r \in rs THEN Order(w[r], r) ELSE order[r]]
       /\ pc' = [r \in Requests |->
                   IF r \notin rs THEN pc[r]
                   ELSE IF Order(w[r], r) = "none" THEN "print" ELSE "init"]
  /\ UNCHANGED <<curlVars, netVars, alive, raced>>

BuySell == Start(Legs)
GetBalance == Start({"balance"})
Snapshot == Start({"snapshot"})

\* join() of the two threads, or the return of https_get: what the finished call
\* leaves behind is forgotten.
Return ==
  /\ alive /\ ~Idle
  /\ \A r \in Requests : pc[r] \in {"off", "done"}
  /\ pc' = [r \in Requests |-> "off"]
  /\ order' = [r \in Requests |-> "none"]
  /\ reply' = [l \in Legs |-> "empty"]
  /\ deals' = [l \in Legs |-> <<>>]
  /\ UNCHANGED <<calls, curlVars, verdict, alive, raced>>

PrintResult(r) ==
  /\ Goes(r, "print", "done")
  /\ UNCHANGED <<calls, order, curlVars, netVars, alive>>

-----------------------------------------------------------------------------
\* curl_global_init: if (initialized++) return; bring the library up.

InitLoad(r) ==
  /\ Goes(r, "init", "init_store")
  /\ seen' = [seen EXCEPT ![r] = users]
  /\ UNCHANGED <<calls, order, users, up, netVars, alive>>

InitStore(r) ==
  /\ Goes(r, "init_store", IF seen[r] = 0 THEN "bring_up" ELSE "handle")
  /\ users' = seen[r] + 1
  /\ seen' = [seen EXCEPT ![r] = 0]
  /\ UNCHANGED <<calls, order, up, netVars, alive>>

BringUp(r) ==
  /\ Goes(r, "bring_up", "handle")
  /\ up' = TRUE
  /\ UNCHANGED <<calls, order, users, seen, netVars, alive>>

\* curl_easy_init calls curl_global_init itself when nobody has, and may fail:
\* the request is then skipped, the cleanup is not.
EasyInit(r) ==
  /\ \/ Goes(r, "handle", "transfer")
     \/ Goes(r, "handle", "cleanup")
  /\ users' = IF users = 0 THEN 1 ELSE users
  /\ up' = (up \/ users = 0)
  /\ UNCHANGED <<calls, order, seen, netVars, alive>>

\* curl_global_cleanup: if (!initialized || --initialized) return; take it down.
CleanupLoad_Unchecked(r) ==
  /\ Goes(r, "cleanup", "cleanup_store")
  /\ seen' = [seen EXCEPT ![r] = users]
  /\ UNCHANGED <<calls, order, users, up, netVars, alive>>
CleanupLoad_Waits(r) ==
  /\ users <= 1
  /\ Goes(r, "cleanup", IF users = 0 THEN "print" ELSE "cleanup_store")
  /\ seen' = [seen EXCEPT ![r] = users]
  /\ UNCHANGED <<calls, order, users, up, netVars, alive>>
CleanupLoad(r) ==
  /\ Goes(r, "cleanup", IF users = 0 THEN "print" ELSE "cleanup_store")
  /\ seen' = [seen EXCEPT ![r] = users]
  /\ UNCHANGED <<calls, order, users, up, netVars, alive>>

CleanupStore_Eager(r) ==
  /\ Goes(r, "cleanup_store", "take_down")
  /\ users' = seen[r] - 1
  /\ seen' = [seen EXCEPT ![r] = 0]
  /\ UNCHANGED <<calls, order, up, netVars, alive>>
CleanupStore(r) ==
  /\ Goes(r, "cleanup_store", IF seen[r] = 1 THEN "take_down" ELSE "print")
  /\ users' = seen[r] - 1
  /\ seen' = [seen EXCEPT ![r] = 0]
  /\ UNCHANGED <<calls, order, up, netVars, alive>>

TakeDown_Forgotten(r) ==
  /\ Goes(r, "take_down", "print")
  /\ UNCHANGED <<calls, order, curlVars, netVars, alive>>
TakeDown(r) ==
  /\ Goes(r, "take_down", "print")
  /\ up' = FALSE
  /\ UNCHANGED <<calls, order, users, seen, netVars, alive>>

-----------------------------------------------------------------------------
\* curl_easy_perform.  It has no timeout.

VenueDecides(l) ==
  /\ alive
  /\ pc[l] = "transfer" /\ verdict[l] = "none"
  /\ \/ /\ order[l] \in DOMAIN Legible
        /\ verdict' = [verdict EXCEPT ![l] = "executed"]
        /\ deals' = [deals EXCEPT ![l] = Append(@, Legible[order[l]])]
     \/ verdict' = [verdict EXCEPT ![l] = "refused"] /\ UNCHANGED deals
  /\ UNCHANGED <<calls, pc, order, curlVars, reply, alive, raced>>

Answered_SharedString(l) ==
  /\ verdict[l] # "none"
  /\ Goes(l, "transfer", "cleanup")
  /\ reply' = [k \in Legs |-> verdict[l]]
  /\ verdict' = [verdict EXCEPT ![l] = "none"]
  /\ UNCHANGED <<calls, order, curlVars, deals, alive>>
Answered(l) ==
  /\ verdict[l] # "none"
  /\ Goes(l, "transfer", "cleanup")
  /\ reply' = [reply EXCEPT ![l] = verdict[l]]
  /\ verdict' = [verdict EXCEPT ![l] = "none"]
  /\ UNCHANGED <<calls, order, curlVars, deals, alive>>

\* The connection is refused, reset, or ends within the answer.  The error is
\* printed and nothing is sent again.
TransferFails_Retries(l) ==
  /\ alive /\ pc[l] = "transfer" /\ Len(deals[l]) < 2
  /\ verdict' = [verdict EXCEPT ![l] = "none"]
  /\ UNCHANGED <<calls, pc, order, curlVars, reply, deals, alive, raced>>
TransferFails(l) ==
  /\ Goes(l, "transfer", "cleanup")
  /\ \E got \in {"empty", "part"} :
       /\ got = "part" => verdict[l] # "none"
       /\ reply' = [reply EXCEPT ![l] = got]
  /\ verdict' = [verdict EXCEPT ![l] = "none"]
  /\ UNCHANGED <<calls, order, curlVars, deals, alive>>

\* A query ends, with or without an answer.
QueryEnds(r) ==
  /\ Goes(r, "transfer", "cleanup")
  /\ UNCHANGED <<calls, order, curlVars, netVars, alive>>

\* What a transfer does in a library that is not initialised is undefined: the
\* transfer may fail or go on, or the process may die.
Dies(r) ==
  /\ alive
  /\ pc[r] = "transfer" /\ ~up
  /\ alive' = FALSE
  /\ UNCHANGED <<calls, pc, order, curlVars, netVars, raced>>

-----------------------------------------------------------------------------
ThreadStep(r) ==
  \/ InitLoad(r) \/ InitStore(r) \/ BringUp(r) \/ EasyInit(r)
  \/ CleanupLoad(r) \/ CleanupStore(r) \/ TakeDown(r) \/ PrintResult(r)

Network(r) ==
  \/ r \in Legs /\ (VenueDecides(r) \/ Answered(r) \/ TransferFails(r))
  \/ r \notin Legs /\ QueryEnds(r)

Next ==
  \/ BuySell \/ GetBalance \/ Snapshot \/ Return
  \/ \E r \in Requests : ThreadStep(r) \/ Network(r) \/ Dies(r)

\* The scheduler runs every thread; the network promises nothing.
Spec ==
  /\ Init /\ [][Next]_vars
  /\ WF_vars(Return)
  /\ \A r \in Requests : WF_vars(ThreadStep(r))

-----------------------------------------------------------------------------
\* Type invariant.  The counter, unsigned in the library, never wraps below
\* zero and never exceeds the number of requests, two for a call at most,
\* however the threads race.
TypeOK ==
  /\ calls \in 0 .. MaxCalls
  /\ pc \in [Requests -> Places]
  /\ order \in [Requests -> Orders]
  /\ users \in 0 .. 2 * MaxCalls
  /\ seen \in [Requests -> 0 .. 2 * MaxCalls]
  /\ {up, alive, raced} \subseteq BOOLEAN
  /\ verdict \in [Legs -> {"none"} \union Answers]
  /\ reply \in [Legs -> Replies]
  /\ \A l \in Legs : deals[l] \in Seq(Legs)

\* The counting of https_post and https_get is right as far as it can be: a
\* transfer finds the library up unless two threads were inside the counter at
\* once, and the process dies only then.
LibraryUpDuringTransfer ==
  /\ (\E r \in Requests : pc[r] = "transfer" /\ ~up) => raced
  /\ ~alive => raced

\* As long as no two threads met inside the counter it is the number of the
\* requests between their initialisation and their cleanup, and the library is
\* down when there are none.  (Once they have met, a call may leave the counter
\* at 1 and the library down, and no later call brings it up again.)
CounterIsUsers ==
  ~raced => /\ users = Cardinality({r \in Requests : pc[r] \in Counted})
            /\ users = 0 => ~up \/ \E r \in Requests : pc[r] = "take_down"

\* A leg comes to one deal at most, and to one of its own side: an order whose
\* answer was lost is given up, and the sell order that huobipro builds for the
\* buying leg is never executed.
OneOrderPerLeg == \A l \in Legs : deals[l] = <<>> \/ deals[l] = <<l>>

\* A whole answer that is printed is the venue's decision about this very leg:
\* the two threads read at once, each into its own string.
AnswersAreTrue ==
  \A l \in Legs : pc[l] = "done" /\ reply[l] \in Answers =>
                    (reply[l] = "executed" <=> deals[l] # <<>>)

\* A call of the application returns, unless a transfer hangs for ever (there
\* is no timeout) or the process has died.
CallReturns ==
  (\A r \in Requests : []<>(pc[r] # "transfer")) => (~Idle ~> (Idle \/ ~alive))
=============================================================================
