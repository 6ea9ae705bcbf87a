----------------------------- MODULE TradeWindow -----------------------------
(***************************************************************************)
(* The trade monitors bitmextrade() and bitfinextrade(): the hub thread    *)
(* adds every trade to four plain doubles, the monitor loop wakes up,      *)
(* reads them, reports them and sets them to zero.  There is no lock: an   *)
(* addition is a load and a store, and so is everything the loop does.     *)
(*                                                                         *)
(* A double is the set of the products it is the sum of.  A product is a   *)
(* pair of factors: the amount of a trade and the price of a trade, both   *)
(* named by the number of the trade, or Unit for the factor 1, or Junk for *)
(* what the memory of an uninitialised member held.                        *)
(*                                                                         *)
(* A definition named A_Something is not part of the model: it is A with a *)
(* fault, kept to show that a property notices the fault.                  *)
(***************************************************************************)
EXTENDS Integers, Sequences

CONSTANTS Classes,       \* the monitors to consider
          MaxTrades,     \* bound on the trades
          MaxTurns,      \* bound on the turns of the loop
          Hwm            \* messages the inproc pipe holds

ASSUME ClassesAssumption == Classes \subseteq {"bitmex", "bitfinex"}
ASSUME BoundsAssumption == MaxTrades \in Nat /\ MaxTurns \in Nat /\ Hwm \in Nat

Junk == 0
Unit == -1
Factors == Nat \union {Unit}
Doubles == SUBSET (Factors \X Factors)
Zero == {}
One == {<<Unit, Unit>>}

Sides == {"ask", "bid"}
Amount == [ask |-> "ask_amount", bid |-> "bid_amount"]
Sum    == [ask |-> "ask_sum", bid |-> "bid_sum"]
Sums == {"ask_sum", "bid_sum"}
Fields == Sums \union {"ask_amount", "bid_amount"}

VARIABLES
  class,
  field,      \* the four members of the exchange object
  hub,        \* the hub thread: idle, or amount, load, sum (its next step)
  side,       \* the sides of the trades taken so far; the last one is in hand
  register,   \* the value the hub thread is about to store
  factor,     \* what the price is multiplied with
  monitor,    \* the loop: sleep, ask_zero, ask_one, bid_zero, bid_one, ratio,
              \* report, send or one of ResetStates
  left,       \* the fields the turn has still to read
  reading,    \* what it has read
  reports,    \* the readings of the turns so far
  \* Not in the program; the properties need them:
  exposed,    \* <<f, n>>: trade n was stored in f after the turn had read f
              \* (or found it zero) and before it overwrote f, or the amount
              \* it is multiplied with was set to zero first
  straddled,  \* <<f, t>>: turn t set f to zero between a load and its store
  overlap     \* the hub thread has worked while the loop was awake

hubVars     == <<hub, side, register, factor>>
monitorVars == <<monitor, left, reading, reports>>
ghostVars   == <<exposed, straddled, overlap>>
vars == <<class, field, hubVars, monitorVars, ghostVars>>

NoReading == [f \in Fields |-> Zero]

\* Neither constructor initialises the four members.
Init ==
  /\ class \in Classes
  /\ \E junk \in {Zero, {<<Junk, Junk>>}} :
       field = [f \in Fields |->
                  IF f \in Sums \/ junk = Zero THEN junk ELSE {<<Junk, Unit>>}]
  /\ hub = "idle" /\ side = <<>> /\ register = Zero /\ factor = Zero
  /\ monitor = "sleep" /\ left = {} /\ reading = NoReading
  /\ reports = <<>>
  /\ exposed = {} /\ straddled = {} /\ overlap = FALSE

\* The four assignments of zero at the end of a turn, one after the other: the
\* field each assigns, and the fields that are still to be assigned.
ResetStates == {"reset_1", "reset_2", "reset_3", "reset_4"}
Assigned_AskSumTwice ==
  [reset_1 |-> "ask_amount", reset_2 |-> "ask_sum",
   reset_3 |-> "bid_amount", reset_4 |-> "ask_sum"]
Assigned ==
  [reset_1 |-> "ask_amount", reset_2 |-> "ask_sum",
   reset_3 |-> "bid_amount", reset_4 |-> "bid_sum"]
AfterReset ==
  [reset_1 |-> "reset_2", reset_2 |-> "reset_3", reset_3 |-> "reset_4",
   reset_4 |-> "sleep"]
Ahead ==
  CASE monitor = "reset_2" -> {"reset_2", "reset_3", "reset_4"}
    [] monitor = "reset_3" -> {"reset_3", "reset_4"}
    [] monitor = "reset_4" -> {"reset_4"}
    [] OTHER -> ResetStates
Due == {Assigned[m] : m \in Ahead}

\* The fields that the turn has read, or found zero, and will overwrite.
Doomed ==
  CASE monitor = "ask_one" -> {"ask_sum"}
    [] monitor = "bid_one" -> {"bid_sum"}
    [] monitor = "report" -> Fields \ left
    [] monitor \in ResetStates \union {"send"} -> Due
    [] OTHER -> {}

-----------------------------------------------------------------------------
\* The hub thread.  x += y of the source is a load and a store.

InHand == Len(side)
AmountInHand == Amount[side[InHand]]
SumInHand_Amount == Amount[side[InHand]]
SumInHand == Sum[side[InHand]]

HubStep == overlap' = (overlap \/ monitor # "sleep")
StoreIn(f) ==
  /\ field' = [field EXCEPT ![f] = register]
  /\ exposed' = IF f \in Doomed THEN exposed \union {<<f, InHand>>} ELSE exposed

\* A trade, and the load of the amount of its side.
TakeTrade ==
  /\ hub = "idle" /\ Len(side) < MaxTrades
  /\ \E s \in Sides :
       /\ side' = Append(side, s)
       /\ register' = field[Amount[s]] \union {<<Len(side) + 1, Unit>>}
  /\ hub' = "amount"
  /\ HubStep
  /\ UNCHANGED <<class, field, factor, monitorVars, exposed, straddled>>

\* bitmex multiplies the amount of the trade by its price, bitfinex the amount
\* of the whole window.
Multiplicand_Total == register
Multiplicand == IF class = "bitfinex" THEN register ELSE {<<InHand, Unit>>}
StoreAmount ==
  /\ hub = "amount"
  /\ StoreIn(AmountInHand)
  /\ factor' = Multiplicand
  /\ hub' = "load" /\ register' = Zero
  /\ HubStep
  /\ UNCHANGED <<class, side, monitorVars, straddled>>

\* The load of the sum; the build may read bitfinex's amount again here.
LoadSum ==
  /\ hub = "load"
  /\ \E x \in {factor} \union (IF class = "bitfinex" THEN {field[AmountInHand]}
                                                    ELSE {}) :
       /\ register' = field[SumInHand] \union {<<p[1], InHand>> : p \in x}
       /\ exposed' = IF <<InHand, Unit>> \in x THEN exposed
                     ELSE exposed \union {<<SumInHand, InHand>>}
  /\ hub' = "sum" /\ factor' = Zero
  /\ HubStep
  /\ UNCHANGED <<class, field, side, monitorVars, straddled>>

StoreSum ==
  /\ hub = "sum"
  /\ StoreIn(SumInHand)
  /\ hub' = "idle" /\ register' = Zero
  /\ HubStep
  /\ UNCHANGED <<class, side, factor, monitorVars, straddled>>

-----------------------------------------------------------------------------
\* The monitor loop.

\* The sleep is over.  bitfinextrade() reads the two sums only, and replaces
\* nothing.
Wake ==
  /\ monitor = "sleep" /\ Len(reports) < MaxTurns
  /\ IF class = "bitmex" THEN monitor' = "ask_zero" /\ left' = Fields
                         ELSE monitor' = "report" /\ left' = Sums
  /\ overlap' = (overlap \/ hub # "idle")
  /\ UNCHANGED <<class, field, hubVars, reading, reports, exposed, straddled>>

\* if (sum == 0), one step; sum = 1, another.
AfterTest_AskOnly ==
  IF monitor = "bid_zero" THEN "ratio"
  ELSE IF field["ask_sum"] = Zero THEN "ask_one" ELSE "bid_zero"
AfterTest_Inverted ==
  IF monitor = "ask_zero"
  THEN IF field["ask_sum"] = Zero THEN "bid_zero" ELSE "ask_one"
  ELSE IF field["bid_sum"] = Zero THEN "ratio" ELSE "bid_one"
AfterTest ==
  IF monitor = "ask_zero"
  THEN IF field["ask_sum"] = Zero THEN "ask_one" ELSE "bid_zero"
  ELSE IF field["bid_sum"] = Zero THEN "bid_one" ELSE "ratio"
TestZero ==
  /\ monitor \in {"ask_zero", "bid_zero"}
  /\ monitor' = AfterTest
  /\ UNCHANGED <<class, field, hubVars, left, reading, reports, ghostVars>>

StoreOne ==
  /\ \/ /\ monitor = "ask_one" /\ monitor' = "bid_zero"
        /\ field' = [field EXCEPT !["ask_sum"] = One]
     \/ /\ monitor = "bid_one" /\ monitor' = "ratio"
        /\ field' = [field EXCEPT !["bid_sum"] = One]
  /\ UNCHANGED <<class, hubVars, left, reading, reports, ghostVars>>

\* askbid and bidask: each sum is divided by the other.
Divide ==
  /\ monitor = "ratio" /\ monitor' = "report"
  /\ UNCHANGED <<class, field, hubVars, left, reading, reports, ghostVars>>

\* The arguments of sprintf, or the operands of the output, are read in an
\* order C++ leaves open.
ReadField ==
  /\ monitor = "report"
  /\ \E f \in left :
       /\ reading' = [reading EXCEPT ![f] = field[f]]
       /\ left' = left \ {f}
       /\ monitor' = IF left = {f} THEN "send" ELSE "report"
  /\ UNCHANGED <<class, field, hubVars, reports, ghostVars>>

\* bitmextrade() sends the reading to inproc:///tmp/tunneltrade, which nobody
\* binds: the pipe fills up and send blocks.  bitfinextrade() prints it.
SendReport ==
  /\ monitor = "send" /\ (class = "bitmex" => Len(reports) < Hwm)
  /\ monitor' = "reset_1"
  /\ reports' = Append(reports, reading) /\ reading' = NoReading
  /\ UNCHANGED <<class, field, hubVars, left, ghostVars>>

\* The hub thread has loaded f and not stored it yet.
Loaded(f) == \/ hub = "amount" /\ f = AmountInHand
             \/ hub = "sum" /\ f = SumInHand
ResetField ==
  /\ monitor \in ResetStates
  /\ LET f == Assigned[monitor]
     IN  /\ field' = [field EXCEPT ![f] = Zero]
         /\ straddled' = IF Loaded(f) THEN straddled \union {<<f, Len(reports)>>}
                                      ELSE straddled
  /\ monitor' = AfterReset[monitor]
  /\ UNCHANGED <<class, hubVars, left, reading, reports, exposed, overlap>>

-----------------------------------------------------------------------------
Next == \/ TakeTrade \/ StoreAmount \/ LoadSum \/ StoreSum
        \/ Wake \/ TestZero \/ StoreOne \/ Divide
        \/ ReadField \/ SendReport \/ ResetField

Spec == Init /\ [][Next]_vars

-----------------------------------------------------------------------------
\* An amount is a sum of amounts: no price has got into it.
Plain(x) == \A p \in x : p[2] = Unit
Readings == [Fields -> Doubles]
TypeOK ==
  /\ class \in Classes
  /\ field \in Readings /\ \A s \in Sides : Plain(field[Amount[s]])
  /\ hub \in {"idle", "amount", "load", "sum"}
  /\ side \in Seq(Sides) /\ (hub # "idle" => side # <<>>)
  /\ register \in Doubles /\ (hub = "amount" => Plain(register))
  /\ factor \in Doubles
  /\ monitor \in ResetStates \union {"sleep", "ask_zero", "ask_one", "bid_zero",
                                     "bid_one", "ratio", "report", "send"}
  /\ left \in SUBSET Fields /\ reading \in Readings
  /\ reports \in Seq(Readings)
  /\ exposed \in SUBSET (Fields \X Nat) /\ straddled \in SUBSET (Fields \X Nat)
  /\ overlap \in BOOLEAN

\* bitmextrade() never divides by a sum that is zero, whatever the hub thread
\* stores between the test, the replacement and the division.
RatioIsDefined == monitor = "ratio" => \A f \in Sums : field[f] # Zero

\* A trade that has been added to a figure the monitor reports is in that
\* figure still, or in this turn's reading, or in a report; unless it was
\* stored between the turn's reading of the figure and its reset, or bitfinex
\* read a total for it that had been reset in the meantime.
Reported == IF class = "bitmex" THEN Fields ELSE Sums
IsIn(n, x) == \E p \in x : p = <<n, Unit>> \/ p[2] = n
Added(n, s) ==
  {f \in {Amount[s], Sum[s]} :
     \/ n < InHand \/ hub = "idle"
     \/ f = Amount[s] /\ hub # "amount"}
Recorded(f, n) ==
  \/ <<f, n>> \in exposed
  \/ IsIn(n, reading[f])
  \/ \E t \in 1 .. Len(reports) : IsIn(n, reports[t][f])
NothingLostOutsideTheGap ==
  \A n \in 1 .. InHand : \A f \in Added(n, side[n]) \intersect Reported :
    Recorded(f, n) \/ IsIn(n, field[f])

\* What is in the reports of two turns was not erased by any reset between
\* them because the hub thread held a copy: without a straddled reset a trade,
\* or the junk of the first window, is reported once.
ReportedOnce ==
  \A f \in Reported : \A t, u \in 1 .. Len(reports) :
    (t < u /\ \E p \in reports[t][f] \intersect reports[u][f] : p \notin One)
      => \A v \in t .. u - 1 : <<f, v>> \in straddled

\* As long as no trade is handled while the loop is awake, a report of bitmex
\* has the amounts of some trades and the sum of exactly their products, or 1
\* for no trade; a report of bitfinex has, for each trade of the window, the
\* price times the amounts of all its trades up to this one.
Products(x) == {<<p[1], p[1]>> : p \in x}
UpTo(x) == LET w == {p[2] : p \in x} IN {q \in w \X w : q[1] <= q[2]}
QuietReportsAgree ==
  ~overlap => \A t \in 1 .. Len(reports), s \in Sides :
    LET amounts == reports[t][Amount[s]]
        sum == reports[t][Sum[s]]
    IN  IF class = "bitfinex" THEN sum = UpTo(sum)
        ELSE sum = IF amounts = Zero THEN One ELSE Products(amounts)
=============================================================================
