-------------------------- MODULE TradeWindowProofs --------------------------
(***************************************************************************)
(* Theorems about TradeWindow, for either monitor and any number of trades *)
(* and turns: the ratio is defined, and a trade can be lost only between   *)
(* the reading of a figure and its reset.                                  *)
(***************************************************************************)
EXTENDS TradeWindow, SequenceTheorems, TLAPS

USE DEF Sides, Sums, Fields, ResetStates

-----------------------------------------------------------------------------
\* The trade in hand has a side, and its two fields are fields.
LEMMA FieldsInHand ==
  ASSUME TypeOK, hub # "idle"
  PROVE  /\ InHand \in Nat \ {0} /\ side[InHand] \in Sides
         /\ AmountInHand \in Fields /\ SumInHand \in Sums
<1>1. side \in Seq(Sides) /\ side # <<>>
  BY DEF TypeOK
<1>2. InHand \in Nat \ {0}
  BY <1>1, EmptySeq, LenProperties DEF InHand
<1>3. side[InHand] \in Sides
  BY <1>1, <1>2, ElementOfSeq DEF InHand
<1> QED
  BY <1>2, <1>3 DEF AmountInHand, SumInHand, Amount, Sum

\* Every step of the hub thread that stores a field stores a double in it.
LEMMA StoreInKeepsTypes ==
  ASSUME TypeOK, NEW f \in Fields, hub # "idle", StoreIn(f)
  PROVE  field' \in Readings /\ exposed' \in SUBSET (Fields \X Nat)
<1>1. field' \in Readings
  BY DEF TypeOK, StoreIn, Readings
<1>2. InHand \in Nat
  BY FieldsInHand
<1> QED
  BY <1>1, <1>2 DEF TypeOK, StoreIn

\* The products of the sets that appear in the loads and stores are products.
LEMMA DoublesAreClosed ==
  /\ Zero \in Doubles /\ One \in Doubles
  /\ \A n \in Nat : {<<n, Unit>>} \in Doubles
  /\ \A x, y \in Doubles : x \union y \in Doubles
  /\ \A x \in Doubles, n \in Nat : {<<p[1], n>> : p \in x} \in Doubles
BY DEF Zero, One, Unit, Factors, Doubles

\* An amount to which that of one more trade is added.
LEMMA OneAmountMore ==
  ASSUME NEW s \in Sides, field \in Readings, Plain(field[Amount[s]]), NEW n \in Nat
  PROVE  LET x == field[Amount[s]] \union {<<n + 1, Unit>>} IN x \in Doubles /\ Plain(x)
<1>1. field[Amount[s]] \in Doubles
  BY DEF Readings, Amount
<1>2. {<<n + 1, Unit>>} \in Doubles /\ Plain({<<n + 1, Unit>>})
  BY DoublesAreClosed, n + 1 \in Nat DEF Plain
<1> QED
  BY <1>1, <1>2, DoublesAreClosed DEF Plain

LEMMA AssignedIsOfFields ==
  /\ \A m \in ResetStates : Assigned[m] \in Fields
  /\ \A f \in Fields : \E m \in ResetStates : f = Assigned[m]
BY DEF Assigned

\* Each of the four assignments is the next one due, and the last one is
\* followed by the sleep.
LEMMA ResetSteps ==
  ASSUME TypeOK, ResetField
  PROVE  \E g \in Fields :
           /\ monitor \in ResetStates /\ g \in Due
           /\ field' = [field EXCEPT ![g] = Zero]
           /\ straddled' = IF Loaded(g) THEN straddled \union {<<g, Len(reports)>>}
                                        ELSE straddled
           /\ UNCHANGED <<class, hubVars, left, reading, reports, exposed, overlap>>
           /\ \/ monitor' = "sleep" /\ Due = {g}
              \/ monitor' \in ResetStates /\ Due = Due' \union {g} /\ g \notin Due'
<1>1. PICK g \in Fields : g = Assigned[monitor]
  BY AssignedIsOfFields DEF ResetField
<1>2. /\ monitor \in ResetStates
      /\ field' = [field EXCEPT ![g] = Zero]
      /\ straddled' = IF Loaded(g) THEN straddled \union {<<g, Len(reports)>>}
                                   ELSE straddled
      /\ monitor' = AfterReset[monitor]
      /\ UNCHANGED <<class, hubVars, left, reading, reports, exposed, overlap>>
  BY <1>1 DEF ResetField
<1>3. CASE monitor = "reset_1"
  <2>1. g = "ask_amount" /\ monitor' = "reset_2"
    BY <1>1, <1>2, <1>3 DEF Assigned, AfterReset
  <2>2. Due = Fields /\ Due' = {"ask_sum", "bid_amount", "bid_sum"}
    BY <1>3, <2>1 DEF Due, Ahead, Assigned
  <2> QED
    BY <1>2, <2>1, <2>2
<1>4. CASE monitor = "reset_2"
  <2>1. g = "ask_sum" /\ monitor' = "reset_3"
    BY <1>1, <1>2, <1>4 DEF Assigned, AfterReset
  <2>2. Due = {"ask_sum", "bid_amount", "bid_sum"} /\ Due' = {"bid_amount", "bid_sum"}
    BY <1>4, <2>1 DEF Due, Ahead, Assigned
  <2> QED
    BY <1>2, <2>1, <2>2
<1>5. CASE monitor = "reset_3"
  <2>1. g = "bid_amount" /\ monitor' = "reset_4"
    BY <1>1, <1>2, <1>5 DEF Assigned, AfterReset
  <2>2. Due = {"bid_amount", "bid_sum"} /\ Due' = {"bid_sum"}
    BY <1>5, <2>1 DEF Due, Ahead, Assigned
  <2> QED
    BY <1>2, <2>1, <2>2
<1>6. CASE monitor = "reset_4"
  <2>1. g = "bid_sum" /\ monitor' = "sleep"
    BY <1>1, <1>2, <1>6 DEF Assigned, AfterReset
  <2>2. Due = {"bid_sum"}
    BY <1>6 DEF Due, Ahead, Assigned
  <2> QED
    BY <1>2, <2>1, <2>2
<1> QED
  BY <1>2, <1>3, <1>4, <1>5, <1>6

LEMMA InitTypeOK == Init => TypeOK
<1> SUFFICES ASSUME Init PROVE TypeOK
  OBVIOUS
<1>1. field \in Readings
  <2>1. PICK junk \in {Zero, {<<Junk, Junk>>}} :
          field = [f \in Fields |->
                     IF f \in Sums \/ junk = Zero THEN junk ELSE {<<Junk, Unit>>}]
    BY DEF Init
  <2>2. junk \in Doubles /\ {<<Junk, Unit>>} \in Doubles
    BY <2>1 DEF Zero, Doubles, Factors, Junk, Unit
  <2> QED
    BY <2>1, <2>2 DEF Readings
<1>2. NoReading \in Readings
  BY DoublesAreClosed DEF NoReading, Readings
<1>3. side \in Seq(Sides) /\ reports \in Seq(Readings)
  BY EmptySeq DEF Init
<1>4. register \in Doubles /\ factor \in Doubles /\ reading \in Readings
  BY <1>2, DoublesAreClosed DEF Init
<1>5. /\ class \in Classes /\ hub \in {"idle", "amount", "load", "sum"}
      /\ (hub # "idle" => side # <<>>)
      /\ monitor = "sleep" /\ left \in SUBSET Fields
      /\ exposed \in SUBSET (Fields \X Nat) /\ straddled \in SUBSET (Fields \X Nat)
  BY DEF Init
<1>6. overlap \in BOOLEAN
  BY Zenon DEF Init
<1>7. (\A s \in Sides : Plain(field[Amount[s]])) /\ (hub = "amount" => Plain(register))
  BY DEF Init, Plain, Amount, Zero
<1> QED
  BY <1>1, <1>3, <1>4, <1>5, <1>6, <1>7 DEF TypeOK

LEMMA NextTypeOK == TypeOK /\ [Next]_vars => TypeOK'
<1> SUFFICES ASSUME TypeOK, [Next]_vars PROVE TypeOK'
  OBVIOUS
<1> USE DEF TypeOK
<1>1. CASE TakeTrade
  <2>1. PICK s \in Sides :
          /\ side' = Append(side, s)
          /\ register' = field[Amount[s]] \union {<<Len(side) + 1, Unit>>}
    BY <1>1 DEF TakeTrade
  <2>2. side' \in Seq(Sides) /\ side' # <<>> /\ Len(side) \in Nat
    <3>1. side' \in Seq(Sides) /\ Len(side') = Len(side) + 1 /\ Len(side) \in Nat
      BY <2>1, AppendProperties, LenProperties
    <3> QED
      BY <3>1, EmptySeq
  <2>3. register' \in Doubles /\ Plain(register')
    BY <2>1, <2>2, OneAmountMore
  <2> QED
    BY <1>1, <2>2, <2>3 DEF TakeTrade, HubStep, monitorVars
<1>2. CASE StoreAmount
  <2>1. InHand \in Nat /\ AmountInHand \in Fields
    BY <1>2, FieldsInHand DEF StoreAmount
  <2>2. field' \in Readings /\ exposed' \in SUBSET (Fields \X Nat)
    BY <1>2, <2>1, StoreInKeepsTypes DEF StoreAmount
  <2>3. factor' \in Doubles /\ register' \in Doubles
    BY <1>2, <2>1, DoublesAreClosed DEF StoreAmount, Multiplicand
  <2>4. \A s \in Sides : Plain(field'[Amount[s]])
    <3>1. field' = [field EXCEPT ![AmountInHand] = register] /\ Plain(register)
      BY <1>2 DEF StoreAmount, StoreIn
    <3> QED
      BY <3>1 DEF Readings, Amount
  <2> QED
    BY <1>2, <2>2, <2>3, <2>4 DEF StoreAmount, HubStep, monitorVars
<1>3. CASE LoadSum
  <2>1. InHand \in Nat /\ AmountInHand \in Fields /\ SumInHand \in Sums
    BY <1>3, FieldsInHand DEF LoadSum
  <2>2. PICK x \in {factor} \union (IF class = "bitfinex" THEN {field[AmountInHand]}
                                                         ELSE {}) :
          /\ register' = field[SumInHand] \union {<<p[1], InHand>> : p \in x}
          /\ exposed' = IF <<InHand, Unit>> \in x THEN exposed
                        ELSE exposed \union {<<SumInHand, InHand>>}
    BY <1>3 DEF LoadSum
  <2>3. x \in Doubles /\ field[SumInHand] \in Doubles
    BY <2>1, <2>2 DEF Readings
  <2>4. register' \in Doubles
    BY <2>1, <2>2, <2>3, DoublesAreClosed
  <2>5. exposed' \in SUBSET (Fields \X Nat)
    BY <2>1, <2>2
  <2> QED
    BY <1>3, <2>4, <2>5, DoublesAreClosed DEF LoadSum, HubStep, monitorVars
<1>4. CASE StoreSum
  <2>1. SumInHand \in Fields
    BY <1>4, FieldsInHand DEF StoreSum
  <2>2. field' \in Readings /\ exposed' \in SUBSET (Fields \X Nat)
    BY <1>4, <2>1, StoreInKeepsTypes DEF StoreSum
  <2>3. \A s \in Sides : field'[Amount[s]] = field[Amount[s]]
    <3>1. field' = [field EXCEPT ![SumInHand] = register] /\ SumInHand \in Sums
      BY <1>4, FieldsInHand DEF StoreSum, StoreIn
    <3> QED
      BY <3>1 DEF Readings, Amount
  <2> QED
    BY <1>4, <2>2, <2>3, DoublesAreClosed DEF StoreSum, HubStep, monitorVars
<1>5. CASE Wake
  BY <1>5 DEF Wake, hubVars
<1>6. CASE TestZero
  BY <1>6 DEF TestZero, AfterTest, hubVars, ghostVars
<1>7. CASE StoreOne
  <2>1. \A s \in Sides : field'[Amount[s]] = field[Amount[s]]
    BY <1>7 DEF StoreOne, Readings, Amount
  <2> QED
    BY <1>7, <2>1, DoublesAreClosed DEF StoreOne, hubVars, ghostVars, Readings
<1>8. CASE Divide
  BY <1>8 DEF Divide, hubVars, ghostVars
<1>9. CASE ReadField
  BY <1>9 DEF ReadField, hubVars, ghostVars, Readings
<1>10. CASE SendReport
  <2>1. reports' \in Seq(Readings)
    BY <1>10, AppendProperties DEF SendReport
  <2>2. reading' \in Readings
    BY <1>10, DoublesAreClosed DEF SendReport, NoReading, Readings
  <2> QED
    BY <1>10, <2>1, <2>2 DEF SendReport, hubVars, ghostVars
<1>11. CASE ResetField
  <2>1. PICK g \in Fields :
          /\ field' = [field EXCEPT ![g] = Zero]
          /\ straddled' = IF Loaded(g) THEN straddled \union {<<g, Len(reports)>>}
                                       ELSE straddled
          /\ UNCHANGED <<class, hubVars, left, reading, reports, exposed, overlap>>
          /\ monitor' = "sleep" \/ monitor' \in ResetStates
    BY <1>11, ResetSteps
  <2>2. field' \in Readings /\ \A s \in Sides : Plain(field'[Amount[s]])
    BY <2>1, DoublesAreClosed DEF Readings, Plain, Zero
  <2>3. straddled' \in SUBSET (Fields \X Nat)
    <3>1. Len(reports) \in Nat
      BY LenProperties
    <3> QED
      BY <2>1, <3>1
  <2> QED
    BY <2>1, <2>2, <2>3 DEF hubVars
<1>12. CASE UNCHANGED vars
  BY <1>12 DEF vars, hubVars, monitorVars, ghostVars
<1> QED
  BY <1>1, <1>2, <1>3, <1>4, <1>5, <1>6, <1>7, <1>8, <1>9, <1>10, <1>11, <1>12 DEF Next

\* Every variable of TradeWindow keeps its type.
THEOREM TypeCorrect == Spec => []TypeOK
BY InitTypeOK, NextTypeOK, PTL DEF Spec

-----------------------------------------------------------------------------
\* The ratio.  That the two sums are not zero when bitmextrade() divides is
\* not inductive: the hub thread overwrites them.  But it only ever stores
\* sums with a product in them, because what it multiplies is not zero.

RatioInv ==
  class = "bitmex" =>
    /\ monitor \in {"bid_zero", "bid_one", "ratio"} => field["ask_sum"] # Zero
    /\ monitor = "ratio" => field["bid_sum"] # Zero
    /\ hub \in {"amount", "sum"} => register # Zero
    /\ hub = "load" => factor # Zero

\* bitfinextrade() never gets to the ratio.
OnlyBitmexDivides ==
  monitor \in {"ask_zero", "ask_one", "bid_zero", "bid_one", "ratio"} =>
    class = "bitmex"

LEMMA InitRatio == Init => RatioInv /\ OnlyBitmexDivides
BY DEF Init, RatioInv, OnlyBitmexDivides

LEMMA NextOnlyBitmexDivides ==
  OnlyBitmexDivides /\ [Next]_vars => OnlyBitmexDivides'
BY DEF OnlyBitmexDivides, Next, TakeTrade, StoreAmount, LoadSum, StoreSum, Wake,
       TestZero, AfterTest, StoreOne, Divide, ReadField, SendReport, ResetField,
       AfterReset, vars, hubVars, monitorVars, ghostVars

LEMMA NextRatio ==
  TypeOK /\ RatioInv /\ [Next]_vars => RatioInv'
<1> SUFFICES ASSUME TypeOK, RatioInv, [Next]_vars, class = "bitmex"
             PROVE  RatioInv'
  BY DEF Next, RatioInv, TakeTrade, StoreAmount, LoadSum, StoreSum, Wake, TestZero,
         StoreOne, Divide, ReadField, SendReport, ResetField, vars
<1> USE DEF RatioInv
<1>1. CASE TakeTrade
  <2>1. register' # Zero
    BY <1>1 DEF TakeTrade, Zero
  <2> QED
    BY <1>1, <2>1 DEF TakeTrade, monitorVars
<1>2. CASE StoreAmount
  <2>1. AmountInHand \in Fields
    BY <1>2, FieldsInHand DEF StoreAmount
  <2>2. AmountInHand \notin Sums
    <3>1. side[InHand] \in Sides
      BY <1>2, FieldsInHand DEF StoreAmount
    <3> QED
      BY <3>1 DEF AmountInHand, Amount
  <2>3. \A f \in Sums : field'[f] = field[f]
    BY <1>2, <2>1, <2>2 DEF StoreAmount, StoreIn, TypeOK, Readings
  <2>4. factor' # Zero
    BY <1>2 DEF StoreAmount, Multiplicand, Zero
  <2> QED
    BY <1>2, <2>3, <2>4 DEF StoreAmount, monitorVars
<1>3. CASE LoadSum
  <2>1. PICK x \in {factor} \union (IF class = "bitfinex" THEN {field[AmountInHand]}
                                                         ELSE {}) :
          register' = field[SumInHand] \union {<<p[1], InHand>> : p \in x}
    BY <1>3 DEF LoadSum
  <2>2. x = factor /\ factor # Zero
    BY <1>3, <2>1 DEF LoadSum
  <2>3. register' # Zero
    BY <2>1, <2>2 DEF Zero
  <2> QED
    BY <1>3, <2>3 DEF LoadSum, monitorVars
<1>4. CASE StoreSum
  <2>1. register # Zero
    BY <1>4 DEF StoreSum
  <2>2. \A f \in Fields : field'[f] \in {field[f], register}
    BY <1>4 DEF StoreSum, StoreIn, TypeOK, Readings
  <2> QED
    BY <1>4, <2>1, <2>2 DEF StoreSum, monitorVars
<1>5. CASE Wake
  BY <1>5 DEF Wake, hubVars
<1>6. CASE TestZero
  BY <1>6 DEF TestZero, AfterTest, hubVars
<1>7. CASE StoreOne
  BY <1>7 DEF StoreOne, hubVars, One, Zero, TypeOK, Readings
<1>8. CASE Divide
  BY <1>8 DEF Divide, hubVars
<1>9. CASE ReadField
  BY <1>9 DEF ReadField, hubVars
<1>10. CASE SendReport
  BY <1>10 DEF SendReport, hubVars
<1>11. CASE ResetField
  <2>1. UNCHANGED hubVars /\ (monitor' = "sleep" \/ monitor' \in ResetStates)
    BY <1>11, ResetSteps
  <2> QED
    BY <2>1 DEF hubVars
<1>12. CASE UNCHANGED vars
  BY <1>12 DEF vars, hubVars, monitorVars
<1> QED
  BY <1>1, <1>2, <1>3, <1>4, <1>5, <1>6, <1>7, <1>8, <1>9, <1>10, <1>11, <1>12 DEF Next

\* bitmextrade() never divides by a sum that is zero.
THEOREM RatioIsAlwaysDefined == Spec => []RatioIsDefined
<1>1. RatioInv /\ OnlyBitmexDivides => RatioIsDefined
  BY DEF RatioInv, OnlyBitmexDivides, RatioIsDefined
<1> QED
  BY InitTypeOK, NextTypeOK, InitRatio, NextRatio, NextOnlyBitmexDivides, <1>1,
     PTL DEF Spec

-----------------------------------------------------------------------------
\* Nothing is lost outside the gap.  The invariant needs three more facts: the
\* figures about to be overwritten are recorded (DoomedIsRecorded), the hub
\* thread's copy of a figure has every trade the figure has and the one in
\* hand (CopyIsComplete), and where the loop is in its turn (LoopInv).

DoomedIsRecorded ==
  \A n \in 1 .. InHand : \A f \in Added(n, side[n]) \intersect Reported :
    f \in Doomed => Recorded(f, n)

CopyIsComplete ==
  \A f \in Fields : Loaded(f) =>
    /\ \A n \in 1 .. InHand : IsIn(n, field[f]) => IsIn(n, register)
    /\ Recorded(f, InHand) \/ IsIn(InHand, register)

LoopInv ==
  /\ monitor \in {"ask_zero", "ask_one", "bid_zero", "bid_one", "ratio"} =>
       left = Fields
  /\ monitor = "send" => left = {}
  /\ \A f \in Fields :
       monitor \notin {"report", "send"} \/ f \in left => reading[f] = Zero

LostInv ==
  NothingLostOutsideTheGap /\ DoomedIsRecorded /\ CopyIsComplete /\ LoopInv

\* Neither zero nor the 1 that replaces it has a trade in it.
LEMMA NoTradeInConstants ==
  \A n \in Nat \ {0} : ~IsIn(n, Zero) /\ ~IsIn(n, One)
BY DEF IsIn, Zero, One, Unit

LEMMA InitLost == Init => LostInv
<1> SUFFICES ASSUME Init PROVE LostInv
  OBVIOUS
<1>1. InHand = 0
  BY EmptySeq DEF Init, InHand
<1>2. NothingLostOutsideTheGap /\ DoomedIsRecorded
  BY <1>1 DEF NothingLostOutsideTheGap, DoomedIsRecorded
<1>3. CopyIsComplete /\ LoopInv
  BY DEF Init, CopyIsComplete, Loaded, LoopInv, NoReading
<1> QED
  BY <1>2, <1>3 DEF LostInv

LEMMA NextLoop == TypeOK /\ LoopInv /\ [Next]_vars => LoopInv'
<1> SUFFICES ASSUME TypeOK, LoopInv, [Next]_vars PROVE LoopInv'
  OBVIOUS
<1> USE DEF LoopInv, TypeOK, Readings
<1>1. CASE TakeTrade \/ StoreAmount \/ LoadSum \/ StoreSum \/ UNCHANGED vars
  BY <1>1 DEF TakeTrade, StoreAmount, LoadSum, StoreSum, vars, monitorVars
<1>2. CASE Wake
  BY <1>2 DEF Wake
<1>3. CASE TestZero \/ StoreOne \/ Divide
  BY <1>3 DEF TestZero, AfterTest, StoreOne, Divide
<1>4. CASE ReadField
  BY <1>4 DEF ReadField
<1>5. CASE SendReport
  BY <1>5 DEF SendReport, NoReading
<1>6. CASE ResetField
  <2>1. /\ monitor \in ResetStates /\ UNCHANGED <<left, reading>>
        /\ monitor' = "sleep" \/ monitor' \in ResetStates
    BY <1>6, ResetSteps
  <2> QED
    BY <2>1
<1> QED
  BY <1>1, <1>2, <1>3, <1>4, <1>5, <1>6 DEF Next

\* What is recorded stays recorded.
LEMMA RecordedStays ==
  ASSUME TypeOK, LoopInv, [Next]_vars, NEW f \in Fields, NEW n \in Nat \ {0},
         Recorded(f, n)
  PROVE  Recorded(f, n)'
<1>1. CASE UNCHANGED <<reading, reports>>
  <2>1. exposed \subseteq exposed'
    BY DEF Next, vars, ghostVars, TakeTrade, StoreAmount, StoreIn, LoadSum, StoreSum,
           Wake, TestZero, StoreOne, Divide, ReadField, SendReport, ResetField
  <2> QED
    BY <1>1, <2>1 DEF Recorded
<1>2. CASE ReadField
  <2>1. reports' = reports /\ exposed' = exposed
    BY <1>2 DEF ReadField, ghostVars
  <2>2. IsIn(n, reading[f]) => reading'[f] = reading[f]
    BY <1>2, NoTradeInConstants DEF ReadField, LoopInv, TypeOK, Readings
  <2> QED
    BY <2>1, <2>2 DEF Recorded
<1>3. CASE SendReport
  <2>1. exposed' = exposed
    BY <1>3 DEF SendReport, ghostVars
  <2>2. /\ Len(reports) \in Nat /\ Len(reports') = Len(reports) + 1
        /\ reports'[Len(reports) + 1] = reading
        /\ \A t \in 1 .. Len(reports) : reports'[t] = reports[t]
    BY <1>3, AppendProperties, LenProperties DEF SendReport, TypeOK
  <2> QED
    BY <2>1, <2>2 DEF Recorded
<1> QED
  BY <1>1, <1>2, <1>3 DEF Next, vars, monitorVars, TakeTrade, StoreAmount, LoadSum,
     StoreSum, Wake, TestZero, StoreOne, Divide, ResetField

\* The hub thread stores a figure: what it overwrites is in its copy.
LEMMA StoreInLosesNothing ==
  ASSUME TypeOK, LostInv, [Next]_vars, NEW f \in Fields, Loaded(f), StoreIn(f),
         InHand \in Nat \ {0}, UNCHANGED <<class, side, monitorVars>>,
         \A n \in 1 .. InHand : \A g \in Added(n, side[n])' :
            g \in Added(n, side[n]) \/ (n = InHand /\ g = f)
  PROVE  NothingLostOutsideTheGap' /\ DoomedIsRecorded'
<1>1. InHand' = InHand /\ Reported' = Reported /\ Doomed' = Doomed
      /\ Reported \subseteq Fields
  BY DEF InHand, Reported, Doomed, Due, monitorVars
<1> SUFFICES ASSUME NEW n \in 1 .. InHand, NEW g \in Added(n, side[n])',
                    g \in Reported
             PROVE  /\ Recorded(g, n)' \/ IsIn(n, field'[g])
                    /\ g \in Doomed => Recorded(g, n)'
  BY <1>1 DEF NothingLostOutsideTheGap, DoomedIsRecorded
<1>2. g \in Fields /\ n \in Nat \ {0} /\ (Recorded(g, n) => Recorded(g, n)')
  BY <1>1, RecordedStays DEF LostInv
<1>3. CASE g = f /\ g \in Doomed /\ n = InHand
  BY <1>3 DEF StoreIn, Recorded
<1>4. CASE g = f /\ n = InHand /\ g \notin Doomed
  <2>1. Recorded(g, n) \/ IsIn(n, register)
    BY <1>2, <1>4 DEF LostInv, CopyIsComplete
  <2>2. field'[g] = register
    BY <1>2, <1>4 DEF StoreIn, TypeOK, Readings
  <2> QED
    BY <1>2, <1>4, <2>1, <2>2
<1>5. CASE g \in Added(n, side[n])
  <2>1. Recorded(g, n) \/ IsIn(n, field[g])
    BY <1>5 DEF LostInv, NothingLostOutsideTheGap
  <2>2. g \in Doomed => Recorded(g, n)
    BY <1>5 DEF LostInv, DoomedIsRecorded
  <2>3. IsIn(n, field[g]) => IsIn(n, field'[g])
    <3>1. g = f => (IsIn(n, field[g]) => IsIn(n, register))
      BY <1>2 DEF LostInv, CopyIsComplete
    <3>2. field'[g] = IF g = f THEN register ELSE field[g]
      BY <1>2 DEF StoreIn, TypeOK, Readings
    <3> QED
      BY <3>1, <3>2
  <2> QED
    BY <1>2, <2>1, <2>2, <2>3
<1> QED
  BY <1>3, <1>4, <1>5

\* A step of the loop: only figures that are recorded are overwritten, and only
\* a figure that is zero or has just been read becomes one of them.
LEMMA LoopLosesNothing ==
  ASSUME TypeOK, LostInv, [Next]_vars, UNCHANGED <<class, hubVars>>,
         \A f \in Fields : \/ field'[f] = field[f]
                           \/ f \in Doomed /\ field'[f] \in {Zero, One},
         \A f \in Reported : f \in Doomed' =>
            f \in Doomed \/ field[f] = Zero \/ reading'[f] = field[f]
  PROVE  NothingLostOutsideTheGap' /\ DoomedIsRecorded' /\ CopyIsComplete'
<1>1. /\ InHand' = InHand /\ Reported' = Reported /\ Reported \subseteq Fields
      /\ \A n, s : Added(n, s)' = Added(n, s)
  BY DEF InHand, Reported, Added, hubVars
<1>2. ASSUME NEW n \in 1 .. InHand, NEW g \in Added(n, side[n]), g \in Reported
      PROVE  /\ Recorded(g, n)' \/ IsIn(n, field'[g])
             /\ g \in Doomed' => Recorded(g, n)'
  <2>1. InHand \in Nat
    BY LenProperties DEF InHand, TypeOK
  <2>2. g \in Fields /\ n \in Nat \ {0} /\ (Recorded(g, n) => Recorded(g, n)')
    <3>1. g \in Fields
      BY <1>1, <1>2, Zenon
    <3>2. n \in Nat \ {0}
      BY <2>1
    <3>3. LoopInv
      BY Zenon DEF LostInv
    <3> QED
      BY <3>1, <3>2, <3>3, RecordedStays, Zenon
  <2>3. Recorded(g, n) \/ IsIn(n, field[g])
    BY <1>2 DEF LostInv, NothingLostOutsideTheGap
  <2>4. g \in Doomed => Recorded(g, n)
    BY <1>2 DEF LostInv, DoomedIsRecorded
  <2>5. field[g] = Zero => Recorded(g, n)
    BY <2>2, <2>3, NoTradeInConstants
  <2>6. reading'[g] = field[g] => Recorded(g, n)'
    BY <2>2, <2>3 DEF Recorded
  <2> QED
    BY <1>1, <1>2, <2>2, <2>3, <2>4, <2>5, <2>6
<1>3. NothingLostOutsideTheGap' /\ DoomedIsRecorded'
  BY <1>1, <1>2 DEF NothingLostOutsideTheGap, DoomedIsRecorded, hubVars
<1>4. ASSUME NEW f \in Fields, Loaded(f)'
      PROVE  /\ \A n \in 1 .. InHand : IsIn(n, field'[f]) => IsIn(n, register)
             /\ Recorded(f, InHand)' \/ IsIn(InHand, register)
  <2>1. Loaded(f) /\ hub # "idle"
    BY <1>4 DEF Loaded, AmountInHand, SumInHand, InHand, hubVars
  <2>2. InHand \in Nat \ {0}
    BY <2>1, FieldsInHand
  <2>3. /\ \A n \in 1 .. InHand : IsIn(n, field[f]) => IsIn(n, register)
        /\ Recorded(f, InHand) \/ IsIn(InHand, register)
    BY <2>1 DEF LostInv, CopyIsComplete
  <2>4. \A n \in 1 .. InHand : IsIn(n, field'[f]) => IsIn(n, field[f])
    BY <2>2, NoTradeInConstants
  <2>5. Recorded(f, InHand) => Recorded(f, InHand)'
    <3>1. LoopInv
      BY DEF LostInv
    <3>2. \A n \in Nat \ {0} : Recorded(f, n) => Recorded(f, n)'
      BY <3>1, RecordedStays, Zenon
    <3> QED
      BY <1>1, <2>2, <3>2 DEF Recorded
  <2> QED
    BY <2>3, <2>4, <2>5
<1>5. CopyIsComplete'
  BY <1>1, <1>4 DEF CopyIsComplete, hubVars
<1> QED
  BY <1>3, <1>5

LEMMA NextLost ==
  TypeOK /\ OnlyBitmexDivides /\ LostInv /\ [Next]_vars => LostInv'
<1> SUFFICES ASSUME TypeOK, OnlyBitmexDivides, LostInv, [Next]_vars
             PROVE  NothingLostOutsideTheGap' /\ DoomedIsRecorded' /\ CopyIsComplete'
  BY NextLoop DEF LostInv
<1>0. InHand \in Nat /\ LoopInv /\ Reported \subseteq Fields
  BY LenProperties DEF InHand, TypeOK, LostInv, Reported
<1>1. CASE TakeTrade
  <2>1. PICK s \in Sides :
          /\ side' = Append(side, s)
          /\ register' = field[Amount[s]] \union {<<InHand + 1, Unit>>}
    BY <1>1 DEF TakeTrade, InHand
  <2>2. InHand' = InHand + 1 /\ side'[InHand + 1] = s
        /\ \A n \in 1 .. InHand : side'[n] = side[n]
    BY <2>1, AppendProperties DEF TypeOK, InHand
  <2>3. hub = "idle" /\ hub' = "amount"
        /\ UNCHANGED <<class, field, monitorVars, exposed>>
    BY <1>1 DEF TakeTrade
  <2>4. Reported' = Reported /\ Doomed' = Doomed
        /\ \A f, n : Recorded(f, n)' = Recorded(f, n)
    BY <2>3 DEF Reported, Doomed, Due, Recorded, monitorVars
  <2>5. \A n \in 1 .. InHand + 1 : \A f \in Added(n, side[n])' :
          n \in 1 .. InHand /\ f \in Added(n, side[n])
    BY <1>0, <2>2, <2>3 DEF Added
  <2>6. NothingLostOutsideTheGap' /\ DoomedIsRecorded'
    BY <2>2, <2>3, <2>4, <2>5
    DEF LostInv, NothingLostOutsideTheGap, DoomedIsRecorded
  <2>7. ASSUME NEW f \in Fields, Loaded(f)'
        PROVE  /\ \A n \in 1 .. InHand' : IsIn(n, field'[f]) => IsIn(n, register')
               /\ IsIn(InHand', register')
    <3>1. f = Amount[s]
      BY <2>2, <2>3, <2>7 DEF Loaded, AmountInHand
    <3> QED
      BY <2>1, <2>2, <2>3, <3>1 DEF IsIn
  <2>8. CopyIsComplete'
    BY <2>7 DEF CopyIsComplete
  <2> QED
    BY <2>6, <2>8
<1>2. CASE StoreAmount
  <2>1. AmountInHand \in Fields /\ Loaded(AmountInHand) /\ InHand \in Nat \ {0}
    BY <1>2, FieldsInHand DEF StoreAmount, Loaded
  <2>2. \A n \in 1 .. InHand : \A g \in Added(n, side[n])' :
          g \in Added(n, side[n]) \/ (n = InHand /\ g = AmountInHand)
    BY <1>2, <2>1 DEF StoreAmount, Added, InHand, AmountInHand
  <2>3. NothingLostOutsideTheGap' /\ DoomedIsRecorded'
    BY <1>2, <2>1, <2>2, StoreInLosesNothing DEF StoreAmount
  <2>4. CopyIsComplete'
    BY <1>2 DEF StoreAmount, CopyIsComplete, Loaded
  <2> QED
    BY <2>3, <2>4
<1>3. CASE LoadSum
  <2>1. InHand \in Nat \ {0} /\ SumInHand \in Fields
    BY <1>3, FieldsInHand DEF LoadSum
  <2>2. PICK x \in {factor} \union (IF class = "bitfinex" THEN {field[AmountInHand]}
                                                         ELSE {}) :
          /\ register' = field[SumInHand] \union {<<p[1], InHand>> : p \in x}
          /\ exposed' = IF <<InHand, Unit>> \in x THEN exposed
                        ELSE exposed \union {<<SumInHand, InHand>>}
    BY <1>3 DEF LoadSum
  <2>3. hub = "load" /\ hub' = "sum" /\ UNCHANGED <<class, field, side, monitorVars>>
    BY <1>3 DEF LoadSum
  <2>4. /\ Reported' = Reported /\ Doomed' = Doomed /\ InHand' = InHand
        /\ SumInHand' = SumInHand
        /\ \A n, s : Added(n, s)' = Added(n, s)
    BY <2>3 DEF Reported, Doomed, Due, InHand, SumInHand, Added, monitorVars
  <2>5. \A n \in 1 .. InHand, f \in Fields : Recorded(f, n) => Recorded(f, n)'
    BY <2>1, RecordedStays DEF LostInv
  <2>6. NothingLostOutsideTheGap' /\ DoomedIsRecorded'
    BY <1>0, <2>3, <2>4, <2>5
    DEF LostInv, NothingLostOutsideTheGap, DoomedIsRecorded
  <2>7. Recorded(SumInHand, InHand)' \/ IsIn(InHand, register')
    <3>1. CASE <<InHand, Unit>> \in x
      <4>1. <<InHand, InHand>> \in register'
        BY <2>2, <3>1
      <4> QED
        BY <4>1 DEF IsIn
    <3>2. CASE <<InHand, Unit>> \notin x
      <4>1. <<SumInHand, InHand>> \in exposed'
        BY <2>2, <3>2
      <4> QED
        BY <2>4, <4>1 DEF Recorded
    <3> QED
      BY <3>1, <3>2
  <2>8. \A n \in 1 .. InHand : IsIn(n, field[SumInHand]) => IsIn(n, register')
    BY <2>2 DEF IsIn
  <2>9. \A f : Loaded(f)' => f = SumInHand
    BY <2>3, <2>4 DEF Loaded
  <2>10. CopyIsComplete'
    BY <2>3, <2>4, <2>7, <2>8, <2>9 DEF CopyIsComplete
  <2> QED
    BY <2>6, <2>10
<1>4. CASE StoreSum
  <2>1. SumInHand \in Fields /\ Loaded(SumInHand) /\ InHand \in Nat \ {0}
    BY <1>4, FieldsInHand DEF StoreSum, Loaded
  <2>2. \A n \in 1 .. InHand : \A g \in Added(n, side[n])' :
          g \in Added(n, side[n]) \/ (n = InHand /\ g = SumInHand)
    BY <1>4, <2>1 DEF StoreSum, Added, InHand, SumInHand
  <2>3. NothingLostOutsideTheGap' /\ DoomedIsRecorded'
    BY <1>4, <2>1, <2>2, StoreInLosesNothing DEF StoreSum
  <2>4. CopyIsComplete'
    BY <1>4 DEF StoreSum, CopyIsComplete, Loaded
  <2> QED
    BY <2>3, <2>4
<1>5. CASE Wake
  BY <1>5, LoopLosesNothing DEF Wake, Doomed, Reported
<1>6. CASE TestZero
  BY <1>6, LoopLosesNothing DEF TestZero, AfterTest, Doomed
<1>7. CASE StoreOne
  BY <1>7, LoopLosesNothing DEF StoreOne, Doomed, TypeOK, Readings
<1>8. CASE Divide
  BY <1>8, <1>0, LoopLosesNothing DEF Divide, Doomed, LoopInv
<1>9. CASE ReadField
  <2>1. \A f \in Fields : f \in Doomed' => f \in Doomed \/ reading'[f] = field[f]
    BY <1>9 DEF ReadField, Doomed, TypeOK, Readings
  <2> QED
    BY <1>9, <1>0, <2>1, LoopLosesNothing DEF ReadField
<1>10. CASE SendReport
  BY <1>10, LoopLosesNothing DEF SendReport, Doomed, Due, Ahead
<1>11. CASE ResetField
  <2>1. PICK g \in Fields :
          /\ monitor \in ResetStates /\ g \in Due
          /\ field' = [field EXCEPT ![g] = Zero]
          /\ UNCHANGED <<class, hubVars, left, reading, reports, exposed, overlap>>
          /\ \/ monitor' = "sleep"
             \/ monitor' \in ResetStates /\ Due' \subseteq Due
    BY <1>11, ResetSteps
  <2>2. Doomed = Due /\ (Doomed' = {} \/ Doomed' = Due')
    BY <2>1 DEF Doomed
  <2>3. Doomed' \subseteq Doomed
    BY <2>1, <2>2 DEF Doomed
  <2>4. \A f \in Fields : \/ field'[f] = field[f]
                          \/ f \in Doomed /\ field'[f] = Zero
    BY <2>1, <2>2 DEF TypeOK, Readings
  <2> QED
    BY <1>0, <2>1, <2>3, <2>4, LoopLosesNothing
<1>12. CASE UNCHANGED vars
  <2>1. UNCHANGED <<class, hubVars>> /\ field' = field /\ Doomed' = Doomed
    BY <1>12 DEF vars, monitorVars, Doomed, Due, Ahead
  <2> QED
    BY <2>1, LoopLosesNothing
<1> QED
  BY <1>1, <1>2, <1>3, <1>4, <1>5, <1>6, <1>7, <1>8, <1>9, <1>10, <1>11, <1>12 DEF Next

\* A trade added to a reported figure is in the figure, in the turn's reading or
\* in a report, unless it was stored in the gap between a reading and its reset.
THEOREM NothingIsLostOutsideTheGap == Spec => []NothingLostOutsideTheGap
<1>1. LostInv => NothingLostOutsideTheGap
  BY DEF LostInv
<1> QED
  BY InitTypeOK, NextTypeOK, InitRatio, NextOnlyBitmexDivides, InitLost, NextLost, <1>1,
     PTL DEF Spec

-----------------------------------------------------------------------------
\* What is reported once.  A product is new when it is added: KnownInv bounds the
\* trades a figure can know of.  And a product that is in a report is in the
\* figure, in the turn's reading or in the hub thread's copy only if every reset
\* since that report was straddled (CopiesAreStraddled).

\* The factor that tells the trades of a figure apart, and the last trade a
\* figure can have.
Mark(f) == IF f \in Sums THEN 2 ELSE 1
LastTrade(f) == IF f \in Sums /\ hub # "idle" THEN InHand - 1 ELSE InHand
Within(f, x, n) == \A p \in x : p[Mark(f)] <= n

KnownInv ==
  /\ \A f \in Fields : /\ Within(f, field[f], LastTrade(f))
                       /\ Within(f, reading[f], LastTrade(f))
                       /\ \A t \in 1 .. Len(reports) : Within(f, reports[t][f], LastTrade(f))
  /\ \A f \in Fields : Loaded(f) => Within(f, register, InHand)

\* The turns that have set f to zero.
ResetsOf(f) ==
  IF monitor \in ResetStates /\ f \in Due THEN Len(reports) - 1 ELSE Len(reports)
Straddled(f, t, n) == \A v \in t .. n : <<f, v>> \in straddled

CopiesAreStraddled ==
  \A f \in Reported : \A t \in 1 .. Len(reports) : \A p \in reports[t][f] :
    p \notin One =>
      /\ p \in field[f] => Straddled(f, t, ResetsOf(f))
      /\ Loaded(f) /\ p \in register => Straddled(f, t, ResetsOf(f))
      /\ p \in reading[f] => Straddled(f, t, Len(reports))

OnceInv == ReportedOnce /\ CopiesAreStraddled

LEMMA ClassStays == [Next]_vars => class' = class /\ Reported' = Reported
BY DEF Reported, Next, vars, TakeTrade, StoreAmount, LoadSum, StoreSum, Wake, TestZero, StoreOne,
       Divide, ReadField, SendReport, ResetField

LEMMA InitOnce == Init => KnownInv /\ OnceInv
<1> SUFFICES ASSUME Init PROVE KnownInv /\ OnceInv
  OBVIOUS
<1>1. /\ hub = "idle" /\ Len(reports) = 0 /\ InHand = 0
      /\ \A f \in Fields : reading[f] = Zero
  BY DEF Init, InHand, NoReading
<1>2. \A f \in Fields : ~Loaded(f)
  BY <1>1 DEF Loaded
<1>3. \A f \in Fields : Within(f, field[f], 0)
  BY DEF Init, Within, Mark, Junk, Unit, Zero
<1>4. KnownInv
  BY <1>1, <1>2, <1>3 DEF KnownInv, LastTrade, Within, Zero
<1> QED
  BY <1>1, <1>4 DEF OnceInv, ReportedOnce, CopiesAreStraddled

\* The trades do not become fewer, nor the last one of a figure.
LEMMA TradesGrow ==
  ASSUME TypeOK, [Next]_vars
  PROVE  /\ InHand \in Nat /\ InHand' \in Nat /\ InHand <= InHand'
         /\ \A f \in Fields : LastTrade(f) <= LastTrade(f)' /\ LastTrade(f) \in Int
                              /\ LastTrade(f)' \in Int /\ LastTrade(f)' >= 0
                              /\ LastTrade(f)' <= InHand'
<1>1. InHand \in Nat /\ (hub # "idle" => InHand # 0)
  BY LenProperties, FieldsInHand DEF TypeOK, InHand
<1>2. CASE TakeTrade
  <2>1. InHand' = InHand + 1
    <3>1. PICK s \in Sides : side' = Append(side, s)
      BY <1>2 DEF TakeTrade
    <3> QED
      BY <3>1, AppendProperties DEF TypeOK, InHand
  <2>2. hub = "idle" /\ hub' = "amount"
    BY <1>2 DEF TakeTrade
  <2> QED
    BY <1>1, <2>1, <2>2 DEF LastTrade
<1>3. CASE side' = side
  <2>1. InHand' = InHand
    BY <1>3 DEF InHand
  <2>2. hub = "idle" => hub' = "idle"
    <3>1. ~TakeTrade
      <4>1. TakeTrade => side' # side
        <5> SUFFICES ASSUME TakeTrade PROVE side' # side
          OBVIOUS
        <5>1. PICK s \in Sides : side' = Append(side, s)
          BY DEF TakeTrade
        <5>2. Len(side') = Len(side) + 1 /\ Len(side) \in Nat
          BY <5>1, AppendProperties, LenProperties DEF TypeOK
        <5> QED
          BY <5>2
      <4> QED
        BY <1>3, <4>1
    <3> QED
      BY <3>1 DEF Next, vars, hubVars, StoreAmount, LoadSum, StoreSum, Wake, TestZero,
         StoreOne, Divide, ReadField, SendReport, ResetField
  <2> QED
    BY <1>1, <2>1, <2>2 DEF LastTrade
<1> QED
  BY <1>2, <1>3 DEF Next, vars, hubVars, StoreAmount, LoadSum, StoreSum, Wake, TestZero,
     StoreOne, Divide, ReadField, SendReport, ResetField

\* What a step makes of a figure, of the reading and of the reports.
LEMMA FigureMoves ==
  ASSUME TypeOK, [Next]_vars, NEW f \in Fields
  PROVE  /\ \/ field'[f] = field[f] \/ field'[f] = Zero \/ field'[f] = One
            \/ /\ StoreAmount \/ StoreSum
               /\ Loaded(f) /\ field'[f] = register
         /\ \/ reading'[f] = reading[f] \/ reading'[f] = Zero
            \/ reading'[f] = field[f]
         /\ \/ reports' = reports
            \/ reports' = Append(reports, reading)
<1> USE DEF TypeOK, Readings
<1>1. CASE TakeTrade \/ LoadSum \/ Wake \/ TestZero \/ Divide \/ UNCHANGED vars
  BY <1>1 DEF TakeTrade, LoadSum, Wake, TestZero, Divide, vars, monitorVars
<1>2. CASE StoreAmount
  BY <1>2 DEF StoreAmount, StoreIn, Loaded, monitorVars
<1>3. CASE StoreSum
  BY <1>3 DEF StoreSum, StoreIn, Loaded, monitorVars
<1>4. CASE StoreOne
  BY <1>4 DEF StoreOne
<1>5. CASE ReadField
  BY <1>5 DEF ReadField
<1>6. CASE SendReport
  BY <1>6 DEF SendReport, NoReading
<1>7. CASE ResetField
  BY <1>7 DEF ResetField
<1> QED
  BY <1>1, <1>2, <1>3, <1>4, <1>5, <1>6, <1>7 DEF Next

LEMMA FactorsAreNumbers ==
  ASSUME NEW x \in Doubles, NEW p \in x
  PROVE  p[1] \in Int /\ p[2] \in Int /\ \A f : p[Mark(f)] \in Int
BY DEF Doubles, Factors, Unit, Mark

\* The hub thread loads a figure and adds the trade in hand.
LEMMA LoadsAreKnown ==
  ASSUME TypeOK, KnownInv, [Next]_vars, NEW f \in Fields, Loaded(f)'
  PROVE  /\ Within(f, register', InHand')
         /\ \/ Loaded(f) /\ register' = register
            \/ \A p \in register' : p \in field[f] \/ p[Mark(f)] > LastTrade(f)
<1>1. \A g \in Fields : field[g] \in Doubles
  BY DEF TypeOK, Readings
<1>2. InHand \in Nat
  BY TradesGrow
<1>3. CASE TakeTrade
  <2>1. PICK s \in Sides :
          /\ side' = Append(side, s)
          /\ register' = field[Amount[s]] \union {<<InHand + 1, Unit>>}
    BY <1>3 DEF TakeTrade, InHand
  <2>2. InHand' = InHand + 1 /\ side'[InHand + 1] = s /\ hub = "idle" /\ hub' = "amount"
    BY <1>3, <2>1, AppendProperties DEF TypeOK, InHand, TakeTrade
  <2>3. f = Amount[s] /\ f \notin Sums
    BY <2>2 DEF Loaded, AmountInHand, Amount
  <2>4. Mark(f) = 1 /\ LastTrade(f) = InHand
    BY <2>3 DEF Mark, LastTrade
  <2>5. \A p \in field[f] : p[1] <= InHand /\ p[1] \in Int
    BY <1>1, <2>4, FactorsAreNumbers DEF KnownInv, Within
  <2>6. <<InHand + 1, Unit>>[1] = InHand + 1
    OBVIOUS
  <2>7. ASSUME NEW p \in register'
        PROVE  p[1] <= InHand' /\ (p \in field[f] \/ p[1] > InHand)
    <3>1. p \in field[f] \/ p = <<InHand + 1, Unit>>
      BY <2>1, <2>3
    <3> QED
      BY <1>2, <2>2, <2>5, <2>6, <3>1
  <2> QED
    BY <2>4, <2>7 DEF Within
<1>4. CASE LoadSum
  <2>1. PICK x : register' = field[SumInHand] \union {<<p[1], InHand>> : p \in x}
    BY <1>4 DEF LoadSum
  <2>2. hub = "load" /\ hub' = "sum" /\ side' = side
    BY <1>4 DEF LoadSum
  <2>3. f = SumInHand /\ f \in Sums /\ InHand' = InHand
    BY <2>2, FieldsInHand DEF Loaded, SumInHand, InHand
  <2>4. Mark(f) = 2 /\ LastTrade(f) = InHand - 1
    BY <2>2, <2>3 DEF Mark, LastTrade
  <2>5. \A p \in field[f] : p[2] <= InHand - 1 /\ p[2] \in Int
    BY <1>1, <2>4, FactorsAreNumbers DEF KnownInv, Within
  <2>6. ASSUME NEW p \in register'
        PROVE  p[2] <= InHand' /\ (p \in field[f] \/ p[2] > InHand - 1)
    <3>1. p \in field[f] \/ p[2] = InHand
      BY <2>1, <2>3
    <3> QED
      BY <1>2, <2>3, <2>5, <3>1
  <2> QED
    BY <2>4, <2>6 DEF Within
<1>5. CASE StoreAmount \/ StoreSum
  BY <1>5 DEF StoreAmount, StoreSum, Loaded
<1>6. CASE UNCHANGED hubVars
  <2>1. Loaded(f) /\ InHand' = InHand /\ register' = register
    BY <1>6 DEF hubVars, Loaded, AmountInHand, SumInHand, InHand
  <2> QED
    BY <2>1 DEF KnownInv
<1> QED
  BY <1>3, <1>4, <1>5, <1>6 DEF Next, vars, Wake, TestZero, StoreOne, Divide, ReadField,
     SendReport, ResetField

LEMMA NextKnown == TypeOK /\ KnownInv /\ [Next]_vars => KnownInv'
<1> SUFFICES ASSUME TypeOK, KnownInv, [Next]_vars PROVE KnownInv'
  OBVIOUS
<1>1. ASSUME NEW f \in Fields, NEW x \in Doubles, Within(f, x, LastTrade(f))
      PROVE  Within(f, x, LastTrade(f)')
  <2> SUFFICES ASSUME NEW p \in x PROVE p[Mark(f)] <= LastTrade(f)'
    BY DEF Within
  <2>1. p[Mark(f)] <= LastTrade(f) /\ p[Mark(f)] \in Int
    BY <1>1, FactorsAreNumbers DEF Within
  <2>2. LastTrade(f) <= LastTrade(f)' /\ LastTrade(f) \in Int /\ LastTrade(f)' \in Int
    BY TradesGrow
  <2> QED
    BY <2>1, <2>2
<1>2. \A f \in Fields : Within(f, Zero, LastTrade(f)') /\ Within(f, One, LastTrade(f)')
  <2> SUFFICES ASSUME NEW f \in Fields PROVE Within(f, One, LastTrade(f)')
    BY DEF Within, Zero
  <2>1. LastTrade(f)' \in Int /\ LastTrade(f)' >= 0
    BY TradesGrow
  <2>2. \A p \in One : p[Mark(f)] = -1
    BY DEF One, Unit, Mark
  <2> QED
    BY <2>1, <2>2 DEF Within
<1>3. ASSUME NEW f \in Fields, StoreAmount \/ StoreSum, Loaded(f)
      PROVE  Within(f, register, LastTrade(f)')
  <2>1. Within(f, register, InHand)
    BY <1>3 DEF KnownInv
  <2>2. LastTrade(f)' = InHand
    <3>1. CASE StoreAmount
      <4>1. f = AmountInHand /\ hub = "amount" /\ side' = side
        BY <1>3, <3>1 DEF StoreAmount, Loaded
      <4>2. f \notin Sums
        BY <4>1, FieldsInHand DEF AmountInHand, Amount
      <4> QED
        BY <4>1, <4>2 DEF LastTrade, InHand
    <3>2. CASE StoreSum
      BY <3>2 DEF StoreSum, LastTrade, InHand
    <3> QED
      BY <1>3, <3>1, <3>2
  <2> QED
    BY <2>1, <2>2
<1>4. ASSUME NEW f \in Fields
      PROVE  /\ Within(f, field'[f], LastTrade(f)')
             /\ Within(f, reading'[f], LastTrade(f)')
             /\ \A t \in 1 .. Len(reports') : Within(f, reports'[t][f], LastTrade(f)')
  <2>1. /\ field[f] \in Doubles /\ reading[f] \in Doubles /\ reports \in Seq(Readings)
        /\ \A t \in 1 .. Len(reports) : reports[t][f] \in Doubles
    BY ElementOfSeq DEF TypeOK, Readings
  <2>2. /\ Within(f, field[f], LastTrade(f)') /\ Within(f, reading[f], LastTrade(f)')
        /\ \A t \in 1 .. Len(reports) : Within(f, reports[t][f], LastTrade(f)')
    BY <1>1, <2>1 DEF KnownInv
  <2>3. Within(f, field'[f], LastTrade(f)')
    BY <1>2, <1>3, <2>2, FigureMoves
  <2>4. Within(f, reading'[f], LastTrade(f)')
    BY <1>2, <2>2, FigureMoves
  <2>5. ASSUME NEW t \in 1 .. Len(reports') PROVE Within(f, reports'[t][f], LastTrade(f)')
    <3>1. CASE reports' = reports
      BY <2>2, <3>1
    <3>2. CASE reports' = Append(reports, reading)
      <4>1. /\ Len(reports) \in Nat /\ Len(reports') = Len(reports) + 1
            /\ reports'[Len(reports) + 1] = reading
            /\ \A v \in 1 .. Len(reports) : reports'[v] = reports[v]
        BY <3>2, AppendProperties, LenProperties DEF TypeOK
      <4>2. t \in 1 .. Len(reports) \/ t = Len(reports) + 1
        BY <4>1
      <4> QED
        BY <2>2, <4>1, <4>2
    <3> QED
      BY <3>1, <3>2, FigureMoves
  <2> QED
    BY <2>3, <2>4, <2>5
<1>5. \A f \in Fields : Loaded(f)' => Within(f, register', InHand')
  BY LoadsAreKnown
<1>6. \A f \in Fields : Within(f, field[f], LastTrade(f))' = Within(f, field'[f], LastTrade(f)')
  BY DEF Within
<1> QED
  BY <1>4, <1>5 DEF KnownInv, Within

\* Resets straddle, or zero the figure; the products come from where they are.
LEMMA NextCopies ==
  TypeOK /\ LoopInv /\ KnownInv /\ CopiesAreStraddled /\ [Next]_vars
    => CopiesAreStraddled'
<1> SUFFICES ASSUME TypeOK, LoopInv, KnownInv, CopiesAreStraddled, [Next]_vars,
                    NEW f \in Reported, NEW t \in 1 .. Len(reports'),
                    NEW p \in reports'[t][f], p \notin One
             PROVE  /\ p \in field'[f] => Straddled(f, t, ResetsOf(f))'
                    /\ Loaded(f)' /\ p \in register' => Straddled(f, t, ResetsOf(f))'
                    /\ p \in reading'[f] => Straddled(f, t, Len(reports))'
  BY ClassStays DEF CopiesAreStraddled
<1>1. f \in Fields
  BY DEF Reported
<1>2. Len(reports) \in Nat
  BY LenProperties DEF TypeOK
<1>3. CASE SendReport
  <2>1. /\ Len(reports') = Len(reports) + 1 /\ reports'[Len(reports) + 1] = reading
        /\ \A v \in 1 .. Len(reports) : reports'[v] = reports[v]
    BY <1>3, AppendProperties DEF SendReport, TypeOK
  <2>2. /\ monitor = "send" /\ monitor' = "reset_1" /\ reading'[f] = Zero
        /\ UNCHANGED <<field, hubVars, straddled>>
    BY <1>1, <1>3 DEF SendReport, LoopInv, NoReading, ghostVars
  <2>3. f \in Due'
    BY <1>1, <2>2, AssignedIsOfFields DEF Due, Ahead
  <2>4. ResetsOf(f)' = Len(reports) /\ ResetsOf(f) = Len(reports)
    BY <1>2, <2>1, <2>2, <2>3 DEF ResetsOf
  <2>5. CASE t = Len(reports) + 1
    <3>1. Straddled(f, t, ResetsOf(f))'
      BY <1>2, <2>4, <2>5 DEF Straddled
    <3> QED
      BY <2>2, <3>1 DEF Zero
  <2>6. CASE t \in 1 .. Len(reports)
    <3>1. p \in reports[t][f]
      BY <2>1, <2>6
    <3>2. /\ p \in field[f] => Straddled(f, t, ResetsOf(f))
          /\ Loaded(f) /\ p \in register => Straddled(f, t, ResetsOf(f))
      BY <2>6, <3>1 DEF CopiesAreStraddled
    <3>3. Loaded(f)' = Loaded(f) /\ register' = register
      BY <2>2 DEF Loaded, AmountInHand, SumInHand, InHand, hubVars
    <3>4. Straddled(f, t, ResetsOf(f)) => Straddled(f, t, ResetsOf(f))'
      BY <2>2, <2>4 DEF Straddled
    <3> QED
      BY <2>2, <3>2, <3>3, <3>4 DEF Zero
  <2> QED
    BY <1>2, <2>1, <2>5, <2>6
<1>4. CASE reports' = reports
  <2>1. /\ p \in reports[t][f] /\ t \in 1 .. Len(reports)
        /\ p \in field[f] => Straddled(f, t, ResetsOf(f))
        /\ Loaded(f) /\ p \in register => Straddled(f, t, ResetsOf(f))
        /\ p \in reading[f] => Straddled(f, t, Len(reports))
    BY <1>4 DEF CopiesAreStraddled
  <2>2. Loaded(f)' /\ p \in register' =>
          p \in field[f] \/ (Loaded(f) /\ p \in register)
    <3> SUFFICES ASSUME Loaded(f)', p \in register', p \notin field[f]
                 PROVE  Loaded(f) /\ p \in register
      OBVIOUS
    <3>1. p[Mark(f)] <= LastTrade(f) /\ p[Mark(f)] \in Int
      <4>1. reports[t][f] \in Doubles
        BY <1>1, <2>1, ElementOfSeq DEF TypeOK, Readings
      <4>2. Within(f, reports[t][f], LastTrade(f))
        BY <1>1, <2>1 DEF KnownInv
      <4> QED
        BY <2>1, <4>1, <4>2, FactorsAreNumbers DEF Within
    <3>2. LastTrade(f) \in Int
      BY <1>1, TradesGrow
    <3>3. ~(p[Mark(f)] > LastTrade(f))
      BY <3>1, <3>2
    <3> QED
      BY <1>1, <3>3, LoadsAreKnown
  <2>3. CASE ResetField
    <3>1. PICK g \in Fields :
            /\ monitor \in ResetStates /\ g \in Due
            /\ field' = [field EXCEPT ![g] = Zero]
            /\ straddled' = IF Loaded(g) THEN straddled \union {<<g, Len(reports)>>}
                                         ELSE straddled
            /\ UNCHANGED <<hubVars, reading, reports>>
            /\ \/ monitor' = "sleep" /\ Due = {g}
               \/ monitor' \in ResetStates /\ Due = Due' \union {g} /\ g \notin Due'
      BY <2>3, ResetSteps
    <3>2. /\ field' = [field EXCEPT ![g] = Zero] /\ UNCHANGED <<hubVars, reading>>
          /\ straddled' = IF Loaded(g) THEN straddled \union {<<g, Len(reports)>>}
                                       ELSE straddled
      BY <3>1
    <3>3. reading[f] = Zero
      BY <1>1, <3>1 DEF LoopInv
    <3>4. ResetsOf(f)' = IF f = g THEN Len(reports) ELSE ResetsOf(f)
      BY <1>4, <3>1 DEF ResetsOf
    <3>5. Loaded(f)' = Loaded(f) /\ register' = register
      BY <3>2 DEF Loaded, AmountInHand, SumInHand, InHand, hubVars
    <3>6. CASE f = g
      <4>1. p \notin field'[f]
        BY <1>1, <3>2, <3>6 DEF TypeOK, Readings, Zero
      <4>2. ResetsOf(f) = Len(reports) - 1
        BY <3>1, <3>6 DEF ResetsOf
      <4>3. ASSUME Loaded(f), p \in register PROVE Straddled(f, t, Len(reports))'
        <5>1. Straddled(f, t, Len(reports) - 1)
          BY <2>1, <4>2, <4>3
        <5>2. straddled' = straddled \union {<<f, Len(reports)>>}
          BY <3>2, <3>6, <4>3
        <5>3. ASSUME NEW v \in t .. Len(reports) PROVE <<f, v>> \in straddled'
          <6>1. CASE v = Len(reports)
            BY <5>2, <6>1
          <6>2. CASE v # Len(reports)
            <7>1. v \in t .. Len(reports) - 1
              BY <1>2, <5>3, <6>2
            <7> QED
              BY <5>1, <5>2, <7>1 DEF Straddled
          <6> QED
            BY <6>1, <6>2
        <5> QED
          BY <1>4, <5>3 DEF Straddled
      <4>4. p \notin reading'[f]
        BY <3>2, <3>3 DEF Zero
      <4> QED
        BY <1>4, <3>4, <3>5, <3>6, <4>1, <4>3, <4>4 DEF Straddled
    <3>7. CASE f # g
      <4>1. field'[f] = field[f] /\ reading'[f] = Zero
        BY <1>1, <3>2, <3>3, <3>7 DEF TypeOK, Readings
      <4>2. Straddled(f, t, ResetsOf(f)) => Straddled(f, t, ResetsOf(f))'
        BY <3>2, <3>4, <3>7 DEF Straddled
      <4> QED
        BY <2>1, <3>5, <4>1, <4>2 DEF Zero
    <3> QED
      BY <3>6, <3>7
  <2>4. CASE ~ResetField
    <3>1. ResetsOf(f)' = ResetsOf(f) /\ straddled' = straddled
      <4>1. UNCHANGED straddled /\ (UNCHANGED monitor \/
                 (monitor \notin ResetStates /\ monitor' \notin ResetStates))
        <5>1. ~SendReport
          <6>1. SendReport => Len(reports') = Len(reports) + 1
            BY AppendProperties DEF SendReport, TypeOK
          <6> QED
            BY <1>2, <1>4, <6>1
        <5> QED
          BY <2>4, <5>1 DEF Next, vars, monitorVars, ghostVars, TakeTrade, StoreAmount,
             LoadSum, StoreSum, Wake, TestZero, AfterTest, StoreOne, Divide, ReadField
      <4> QED
        BY <1>4, <4>1 DEF ResetsOf, Due, Ahead
    <3>2. /\ Straddled(f, t, ResetsOf(f))' = Straddled(f, t, ResetsOf(f))
          /\ Straddled(f, t, Len(reports))' = Straddled(f, t, Len(reports))
      BY <1>4, <3>1 DEF Straddled
    <3>3. p \in field'[f] => p \in field[f] \/ (Loaded(f) /\ p \in register)
      BY <1>1, FigureMoves DEF Zero
    <3>4. p \in reading'[f] =>
            p \in reading[f] \/ (p \in field[f] /\ ResetsOf(f) = Len(reports))
      <4>1. CASE ReadField
        <5>1. ResetsOf(f) = Len(reports)
          BY <4>1 DEF ReadField, ResetsOf
        <5> QED
          BY <1>1, <5>1, FigureMoves DEF Zero
      <4>2. CASE ~ReadField
        <5>1. reading' = reading
          <6>1. ~SendReport
            <7>1. SendReport => Len(reports') = Len(reports) + 1
              BY AppendProperties DEF SendReport, TypeOK
            <7> QED
              BY <1>2, <1>4, <7>1
          <6> QED
            BY <2>4, <4>2, <6>1 DEF Next, vars, monitorVars, TakeTrade, StoreAmount,
               LoadSum, StoreSum, Wake, TestZero, StoreOne, Divide
        <5> QED
          BY <5>1
      <4> QED
        BY <4>1, <4>2
    <3> QED
      BY <2>1, <2>2, <3>2, <3>3, <3>4
  <2> QED
    BY <2>3, <2>4
<1> QED
  BY <1>3, <1>4, FigureMoves DEF Next, vars, monitorVars, TakeTrade, StoreAmount, LoadSum,
     StoreSum, Wake, TestZero, StoreOne, Divide, ReadField, ResetField

\* A report is compared with the earlier ones when it is sent.
LEMMA NextOnce ==
  TypeOK /\ LoopInv /\ OnceInv /\ [Next]_vars => ReportedOnce'
<1> SUFFICES ASSUME TypeOK, LoopInv, OnceInv, [Next]_vars,
                    NEW f \in Reported, NEW t \in 1 .. Len(reports'),
                    NEW u \in 1 .. Len(reports'), t < u,
                    NEW p \in reports'[t][f] \intersect reports'[u][f], p \notin One,
                    NEW v \in t .. u - 1
             PROVE  <<f, v>> \in straddled'
  BY ClassStays DEF ReportedOnce
<1>1. f \in Fields /\ Len(reports) \in Nat
  BY LenProperties DEF Reported, TypeOK
<1>2. straddled \subseteq straddled'
  BY DEF Next, vars, ghostVars, TakeTrade, StoreAmount, LoadSum, StoreSum, Wake,
     TestZero, StoreOne, Divide, ReadField, SendReport, ResetField
<1>3. CASE reports' = reports
  BY <1>2, <1>3 DEF OnceInv, ReportedOnce
<1>4. CASE reports' = Append(reports, reading)
  <2>1. /\ Len(reports') = Len(reports) + 1 /\ reports'[Len(reports) + 1] = reading
        /\ \A w \in 1 .. Len(reports) : reports'[w] = reports[w]
    BY <1>4, AppendProperties DEF TypeOK
  <2>2. t \in 1 .. Len(reports) /\ p \in reports[t][f]
    BY <1>1, <2>1
  <2>3. CASE u \in 1 .. Len(reports)
    BY <1>2, <2>1, <2>2, <2>3 DEF OnceInv, ReportedOnce
  <2>4. CASE u = Len(reports) + 1
    <3>1. p \in reading[f]
      BY <2>1, <2>4
    <3>2. Straddled(f, t, Len(reports))
      BY <2>2, <3>1 DEF OnceInv, CopiesAreStraddled
    <3>3. v \in t .. Len(reports)
      BY <1>1, <2>4
    <3> QED
      BY <1>2, <3>2, <3>3 DEF Straddled
  <2> QED
    BY <1>1, <2>1, <2>3, <2>4, SMTT(40)
<1> QED
  BY <1>1, <1>3, <1>4, FigureMoves

\* What is in the reports of two turns was kept over every reset between them by
\* the hub thread's copy: without a straddled reset a trade is reported once
\* (bitmextrade, bitfinextrade), for any number of trades and turns.
THEOREM OnlyStraddledResetsRepeat == Spec => []ReportedOnce
<1>1. OnceInv => ReportedOnce
  BY DEF OnceInv
<1>2. TypeOK /\ LoopInv /\ KnownInv /\ OnceInv /\ [Next]_vars => OnceInv'
  BY NextCopies, NextOnce DEF OnceInv
<1>3. Init => LoopInv
  BY InitLost DEF LostInv
<1> QED
  BY InitTypeOK, NextTypeOK, NextLoop, InitOnce, NextKnown, <1>1, <1>2, <1>3, PTL DEF Spec

-----------------------------------------------------------------------------
\* What agrees in quiet windows.  As long as the hub thread works only while the
\* loop sleeps, the trades w of a side and of a window say what its two figures
\* are, what the hub thread is about to store, and what the loop has read.

InTrades(w) == {<<k, Unit>> : k \in w}
ProductsOf(c, w) ==
  IF c = "bitfinex" THEN {q \in w \X w : q[1] <= q[2]} ELSE {<<k, k>> : k \in w}

\* The sum after the loop has replaced a zero by one.
AsTested(c, w) == IF c = "bitmex" /\ w = {} THEN One ELSE ProductsOf(c, w)
Tested(s) ==
  \/ monitor \in {"ratio", "report", "send"}
  \/ s = "ask" /\ monitor \in {"bid_zero", "bid_one"}

Handles(s) == hub # "idle" /\ side[InHand] = s
OldTrades == 0 .. (IF hub = "idle" THEN InHand ELSE InHand - 1)
Holds(s, w) ==
  /\ w \subseteq OldTrades
  /\ field[Amount[s]] = IF Handles(s) /\ hub # "amount" THEN InTrades(w \union {InHand})
                                                        ELSE InTrades(w)
  /\ field[Sum[s]] = IF Tested(s) THEN AsTested(class, w) ELSE ProductsOf(class, w)
  /\ Handles(s) =>
       /\ hub = "amount" => register = InTrades(w \union {InHand})
       /\ hub = "load" => factor = InTrades(IF class = "bitfinex" THEN w \union {InHand}
                                                                  ELSE {InHand})
       /\ hub = "sum" => register = ProductsOf(class, w \union {InHand})

\* The figures of a report agree with one another.
Agrees(c, r) ==
  \A s \in Sides : IF c = "bitfinex" THEN r[Sum[s]] = UpTo(r[Sum[s]])
                   ELSE r[Sum[s]] = IF r[Amount[s]] = Zero THEN One
                                    ELSE Products(r[Amount[s]])

QuietInv ==
  ~overlap =>
    /\ \A t \in 1 .. Len(reports) : Agrees(class, reports[t])
    /\ monitor # "sleep" => hub = "idle"
    /\ monitor \notin ResetStates => \A s \in Sides : \E w : Holds(s, w)
    /\ monitor \in {"report", "send"} =>
         \A f \in Reported \ left : reading[f] = field[f]
    /\ monitor \in ResetStates => \A f \in Fields \ Due : field[f] = Zero
    /\ monitor = "ask_one" => field["ask_sum"] = Zero
    /\ monitor = "bid_one" => field["bid_sum"] = Zero

\* What the products of a set of trades are.
LEMMA ProductsOfTrades ==
  ASSUME NEW c, NEW w, w \subseteq Nat
  PROVE  /\ ProductsOf(c, w) = Zero <=> w = {}
         /\ InTrades(w) = Zero <=> w = {}
         /\ c = "bitfinex" => ProductsOf(c, w) = UpTo(ProductsOf(c, w))
         /\ c # "bitfinex" => ProductsOf(c, w) = Products(InTrades(w))
<1>1. CASE c = "bitfinex"
  <2>1. PICK x : x = ProductsOf(c, w)
    OBVIOUS
  <2>2. x = {q \in w \X w : q[1] <= q[2]}
    BY <1>1, <2>1 DEF ProductsOf
  <2>3. \A k \in w : <<k, k>> \in x
    BY <2>2
  <2>4. x = Zero <=> w = {}
    BY <2>2, <2>3 DEF Zero
  <2>5. PICK v : v = {p[2] : p \in x}
    OBVIOUS
  <2>6. v = w
    <3>1. \A k \in w : k \in v
      <4> TAKE k \in w
      <4>1. <<k, k>> \in x /\ <<k, k>>[2] = k
        BY <2>3
      <4> QED
        BY <2>5, <4>1
    <3>2. \A k \in v : k \in w
      BY <2>2, <2>5
    <3> QED
      BY <3>1, <3>2
  <2>7. x = UpTo(x)
    BY <2>2, <2>5, <2>6 DEF UpTo
  <2>8. InTrades(w) = Zero <=> w = {}
    BY DEF InTrades, Zero
  <2> QED
    BY <1>1, <2>1, <2>4, <2>7, <2>8
<1>2. CASE c # "bitfinex"
  <2>1. ProductsOf(c, w) = {<<k, k>> : k \in w}
    BY <1>2 DEF ProductsOf
  <2>2. PICK a : a = InTrades(w)
    OBVIOUS
  <2>3. a = {<<k, Unit>> : k \in w}
    BY <2>2 DEF InTrades
  <2>4. {<<p[1], p[1]>> : p \in a} = {<<k, k>> : k \in w}
    <3>1. \A k \in w : <<k, Unit>> \in a /\ <<k, Unit>>[1] = k
      BY <2>3
    <3>2. \A p \in a : \E k \in w : p[1] = k
      BY <2>3
    <3> QED
      BY <3>1, <3>2
  <2> QED
    BY <1>2, <2>1, <2>2, <2>3, <2>4 DEF Products, Zero
<1> QED
  BY <1>1, <1>2

\* One more trade, the last one.
LEMMA OneMoreTrade ==
  ASSUME NEW n \in Nat, NEW w, w \subseteq 0 .. n - 1
  PROVE  /\ InTrades(w \union {n}) = InTrades(w) \union {<<n, Unit>>}
         /\ {<<p[1], n>> : p \in InTrades(w \union {n})} = {<<k, n>> : k \in w \union {n}}
         /\ ProductsOf("bitfinex", w \union {n})
              = ProductsOf("bitfinex", w) \union {<<k, n>> : k \in w \union {n}}
<1>1. PICK v : v = w \union {n}
  OBVIOUS
<1>2. \A k \in w : k \in Nat /\ k < n
  OBVIOUS
<1>3. InTrades(v) = InTrades(w) \union {<<n, Unit>>}
  BY <1>1 DEF InTrades
<1>4. {<<p[1], n>> : p \in InTrades(v)} = {<<k, n>> : k \in v}
  <2>1. PICK a : a = InTrades(v)
    OBVIOUS
  <2>2. a = {<<k, Unit>> : k \in v}
    BY <2>1 DEF InTrades
  <2>3. \A k \in v : <<k, Unit>> \in a /\ <<k, Unit>>[1] = k
    BY <2>2
  <2>4. \A p \in a : \E k \in v : p[1] = k
    BY <2>2
  <2> QED
    BY <2>1, <2>3, <2>4
<1>5. {q \in v \X v : q[1] <= q[2]} = {q \in w \X w : q[1] <= q[2]} \union {<<k, n>> : k \in v}
  <2>1. PICK x : x = {q \in v \X v : q[1] <= q[2]}
    OBVIOUS
  <2>2. PICK y : y = {q \in w \X w : q[1] <= q[2]}
    OBVIOUS
  <2>3. PICK z : z = {<<k, n>> : k \in v}
    OBVIOUS
  <2>4. ASSUME NEW q \in x PROVE q \in y \/ q \in z
    <3>1. PICK i \in v, j \in v : q = <<i, j>> /\ i <= j
      BY <2>1
    <3>2. CASE j = n
      BY <2>3, <3>1, <3>2
    <3>3. CASE j # n
      <4>1. j \in w /\ i \in w
        BY <1>1, <1>2, <3>1, <3>3
      <4> QED
        BY <2>2, <3>1, <4>1
    <3> QED
      BY <3>2, <3>3
  <2>5. \A q \in y : q \in x
    BY <1>1, <2>1, <2>2
  <2>6. ASSUME NEW q \in z PROVE q \in x
    <3>1. PICK k \in v : q = <<k, n>>
      BY <2>3
    <3>2. k <= n /\ n \in v
      BY <1>1, <1>2, <3>1
    <3> QED
      BY <2>1, <3>1, <3>2
  <2> QED
    BY <2>1, <2>2, <2>3, <2>4, <2>5, <2>6
<1> QED
  BY <1>1, <1>3, <1>4, <1>5 DEF ProductsOf

LEMMA InitQuiet == Init => QuietInv
<1> SUFFICES ASSUME Init PROVE QuietInv
  OBVIOUS
<1>1. /\ reports = <<>> /\ Len(reports) = 0 /\ monitor = "sleep" /\ hub = "idle"
      /\ InHand = 0
  BY DEF Init, InHand
<1>2. PICK junk \in {Zero, {<<Junk, Junk>>}} :
        field = [f \in Fields |->
                  IF f \in Sums \/ junk = Zero THEN junk ELSE {<<Junk, Unit>>}]
  BY DEF Init
<1>3. class \in {"bitmex", "bitfinex"}
  BY ClassesAssumption DEF Init
<1>4. ASSUME NEW s \in Sides PROVE \E w : Holds(s, w)
  <2>1. Amount[s] \in Fields \ Sums /\ Sum[s] \in Sums
    BY DEF Amount, Sum
  <2>2. ~Handles(s) /\ ~Tested(s) /\ OldTrades = 0 .. 0
    BY <1>1 DEF Handles, Tested, OldTrades
  <2>3. CASE junk = Zero
    <3>1. field[Amount[s]] = InTrades({}) /\ field[Sum[s]] = Zero
      BY <1>2, <2>1, <2>3 DEF InTrades, Zero
    <3>2. ProductsOf(class, {}) = Zero
      BY ProductsOfTrades
    <3> QED
      BY <2>2, <3>1, <3>2 DEF Holds
  <2>4. CASE junk = {<<Junk, Junk>>}
    <3>1. field[Amount[s]] = {<<Junk, Unit>>} /\ field[Sum[s]] = {<<Junk, Junk>>}
      BY <1>2, <2>1, <2>4 DEF Zero
    <3>2. InTrades({0}) = {<<0, Unit>>}
      BY DEF InTrades
    <3>3. ProductsOf(class, {0}) = {<<0, 0>>}
      BY DEF ProductsOf
    <3> QED
      BY <2>2, <3>1, <3>2, <3>3 DEF Holds, Junk
  <2> QED
    BY <2>3, <2>4
<1> QED
  BY <1>1, <1>4 DEF QuietInv

\* The steps of the hub thread, with the loop asleep.
LEMMA HubStepQuiet ==
  ASSUME TypeOK, QuietInv, ~overlap',
         TakeTrade \/ StoreAmount \/ LoadSum \/ StoreSum,
         \A s \in Sides : \A w : Holds(s, w) => \E v : Holds(s, v)'
  PROVE  QuietInv'
<1>1. /\ ~overlap /\ monitor = "sleep" /\ UNCHANGED <<class, monitorVars>>
  BY DEF TakeTrade, StoreAmount, LoadSum, StoreSum, HubStep
<1>2. /\ monitor' = "sleep" /\ reports' = reports
  BY <1>1 DEF monitorVars
<1>3. \A s \in Sides : \E v : Holds(s, v)'
  BY <1>1 DEF QuietInv
<1>4. \A t \in 1 .. Len(reports) : Agrees(class, reports[t])
  BY <1>1 DEF QuietInv
<1> QED
  BY <1>1, <1>2, <1>3, <1>4 DEF QuietInv

LEMMA TakeTradeQuiet ==
  ASSUME TypeOK, QuietInv, ~overlap', TakeTrade
  PROVE  QuietInv'
<1>1. PICK z \in Sides :
        /\ side' = Append(side, z)
        /\ register' = field[Amount[z]] \union {<<InHand + 1, Unit>>}
  BY DEF TakeTrade, InHand
<1>2. /\ InHand \in Nat /\ InHand' = InHand + 1 /\ side'[InHand + 1] = z
      /\ hub = "idle" /\ hub' = "amount" /\ UNCHANGED <<class, field, monitor>>
      /\ monitor = "sleep"
  <2>1. side \in Seq(Sides) /\ side' = Append(side, z) /\ z \in Sides
    BY <1>1 DEF TypeOK
  <2>2. Len(side) \in Nat /\ Len(side') = Len(side) + 1 /\ side'[Len(side) + 1] = z
    BY <2>1, AppendProperties, LenProperties
  <2>3. /\ hub = "idle" /\ hub' = "amount" /\ UNCHANGED <<class, field, monitorVars>>
        /\ monitor = "sleep"
    BY DEF TakeTrade, HubStep
  <2> QED
    BY <2>2, <2>3 DEF InHand, monitorVars
<1>3. ASSUME NEW s \in Sides, NEW w, Holds(s, w) PROVE Holds(s, w)'
  <2>1. /\ w \subseteq 0 .. InHand /\ field[Amount[s]] = InTrades(w)
        /\ field[Sum[s]] = ProductsOf(class, w) /\ ~Tested(s)
    BY <1>2, <1>3 DEF Holds, Handles, OldTrades, Tested
  <2>2. OldTrades' = 0 .. InHand /\ (Handles(s)' <=> s = z) /\ ~Tested(s)'
    BY <1>2 DEF OldTrades, Handles, Tested
  <2>3. ASSUME s = z PROVE register' = InTrades(w \union {InHand + 1})
    <3>1. PICK n : n = InHand + 1
      OBVIOUS
    <3>2. n \in Nat /\ w \subseteq 0 .. n - 1
      BY <1>2, <2>1, <3>1
    <3>3. InTrades(w \union {n}) = InTrades(w) \union {<<n, Unit>>}
      BY <3>2, OneMoreTrade
    <3> QED
      BY <1>1, <2>1, <2>3, <3>1, <3>3
  <2> QED
    BY <1>2, <2>1, <2>2, <2>3 DEF Holds
<1> QED
  BY <1>3, HubStepQuiet

\* The trade in hand is of side z.
LEMMA InHandIs ==
  ASSUME TypeOK, hub # "idle"
  PROVE  \E z \in Sides : /\ z = side[InHand] /\ AmountInHand = Amount[z]
                          /\ SumInHand = Sum[z] /\ InHand \in Nat \ {0}
                          /\ \A s \in Sides : Handles(s) <=> s = z
BY FieldsInHand DEF AmountInHand, SumInHand, Handles

LEMMA StoreAmountQuiet ==
  ASSUME TypeOK, QuietInv, ~overlap', StoreAmount
  PROVE  QuietInv'
<1>1. PICK z \in Sides : /\ z = side[InHand] /\ AmountInHand = Amount[z]
                         /\ SumInHand = Sum[z] /\ InHand \in Nat \ {0}
                         /\ \A s \in Sides : Handles(s) <=> s = z
  BY InHandIs DEF StoreAmount
<1>2. /\ hub = "amount" /\ hub' = "load" /\ UNCHANGED <<class, side, monitor>>
      /\ monitor = "sleep" /\ field' = [field EXCEPT ![Amount[z]] = register]
      /\ factor' = IF class = "bitfinex" THEN register ELSE {<<InHand, Unit>>}
  BY <1>1 DEF StoreAmount, StoreIn, HubStep, Multiplicand, monitorVars
<1>3. /\ InHand' = InHand /\ OldTrades' = OldTrades /\ OldTrades = 0 .. InHand - 1
      /\ \A s \in Sides : Handles(s)' <=> s = z
  BY <1>1, <1>2 DEF InHand, OldTrades, Handles
<1>4. ASSUME NEW s \in Sides, NEW w, Holds(s, w) PROVE Holds(s, w)'
  <2>1. /\ w \subseteq 0 .. InHand - 1 /\ field[Amount[s]] = InTrades(w)
        /\ field[Sum[s]] = ProductsOf(class, w) /\ ~Tested(s) /\ ~Tested(s)'
        /\ s = z => register = InTrades(w \union {InHand})
    BY <1>1, <1>2, <1>3, <1>4 DEF Holds, Tested
  <2>2. /\ field'[Sum[s]] = field[Sum[s]]
        /\ field'[Amount[s]] = IF s = z THEN register ELSE field[Amount[s]]
    BY <1>2 DEF TypeOK, Readings, Amount, Sum
  <2>3. InTrades({InHand}) = {<<InHand, Unit>>}
    BY DEF InTrades
  <2> QED
    BY <1>2, <1>3, <2>1, <2>2, <2>3 DEF Holds
<1> QED
  BY <1>4, HubStepQuiet

LEMMA LoadSumQuiet ==
  ASSUME TypeOK, QuietInv, ~overlap', LoadSum
  PROVE  QuietInv'
<1>1. PICK z \in Sides : /\ z = side[InHand] /\ AmountInHand = Amount[z]
                         /\ SumInHand = Sum[z] /\ InHand \in Nat \ {0}
                         /\ \A s \in Sides : Handles(s) <=> s = z
  BY InHandIs DEF LoadSum
<1>2. PICK x \in {factor} \union (IF class = "bitfinex" THEN {field[Amount[z]]} ELSE {}) :
        register' = field[Sum[z]] \union {<<p[1], InHand>> : p \in x}
  BY <1>1 DEF LoadSum
<1>3. /\ hub = "load" /\ hub' = "sum" /\ UNCHANGED <<class, side, field, monitor>>
      /\ monitor = "sleep"
  BY DEF LoadSum, HubStep, monitorVars
<1>4. /\ InHand' = InHand /\ OldTrades' = OldTrades /\ OldTrades = 0 .. InHand - 1
      /\ \A s \in Sides : Handles(s)' <=> s = z
  BY <1>1, <1>3 DEF InHand, OldTrades, Handles
<1>5. ASSUME NEW s \in Sides, NEW w, Holds(s, w) PROVE Holds(s, w)'
  <2>1. /\ w \subseteq 0 .. InHand - 1
        /\ field[Amount[s]] = IF s = z THEN InTrades(w \union {InHand}) ELSE InTrades(w)
        /\ field[Sum[s]] = ProductsOf(class, w) /\ ~Tested(s) /\ ~Tested(s)'
        /\ s = z => factor = InTrades(IF class = "bitfinex" THEN w \union {InHand}
                                                            ELSE {InHand})
    BY <1>1, <1>3, <1>4, <1>5 DEF Holds, Tested
  <2>2. ASSUME s = z PROVE register' = ProductsOf(class, w \union {InHand})
    <3>1. CASE class = "bitfinex"
      <4>1. x = InTrades(w \union {InHand})
        BY <1>2, <2>1, <2>2, <3>1
      <4>2. {<<p[1], InHand>> : p \in x} = {<<k, InHand>> : k \in w \union {InHand}}
        BY <1>1, <2>1, <4>1, OneMoreTrade
      <4> QED
        BY <1>1, <1>2, <2>1, <2>2, <3>1, <4>2, OneMoreTrade
    <3>2. CASE class # "bitfinex"
      <4>1. x = {<<InHand, Unit>>}
        BY <1>2, <2>1, <2>2, <3>2 DEF InTrades
      <4>2. {<<p[1], InHand>> : p \in x} = {<<InHand, InHand>>}
        BY <4>1
      <4>3. ProductsOf(class, w \union {InHand})
              = ProductsOf(class, w) \union {<<InHand, InHand>>}
        <5>1. PICK n : n = InHand
          OBVIOUS
        <5>2. {<<k, k>> : k \in w \union {n}} = {<<k, k>> : k \in w} \union {<<n, n>>}
          OBVIOUS
        <5> QED
          BY <3>2, <5>1, <5>2 DEF ProductsOf
      <4> QED
        BY <1>2, <2>1, <2>2, <4>2, <4>3
    <3> QED
      BY <3>1, <3>2
  <2> QED
    BY <1>3, <1>4, <2>1, <2>2 DEF Holds
<1> QED
  BY <1>5, HubStepQuiet

LEMMA StoreSumQuiet ==
  ASSUME TypeOK, QuietInv, ~overlap', StoreSum
  PROVE  QuietInv'
<1>1. PICK z \in Sides : /\ z = side[InHand] /\ AmountInHand = Amount[z]
                         /\ SumInHand = Sum[z] /\ InHand \in Nat \ {0}
                         /\ \A s \in Sides : Handles(s) <=> s = z
  BY InHandIs DEF StoreSum
<1>2. /\ hub = "sum" /\ hub' = "idle" /\ UNCHANGED <<class, side, monitor>>
      /\ monitor = "sleep" /\ field' = [field EXCEPT ![Sum[z]] = register]
  BY <1>1 DEF StoreSum, StoreIn, HubStep, monitorVars
<1>3. /\ InHand' = InHand /\ OldTrades' = 0 .. InHand /\ OldTrades = 0 .. InHand - 1
      /\ \A s \in Sides : ~Handles(s)'
  BY <1>1, <1>2 DEF InHand, OldTrades, Handles
<1>4. ASSUME NEW s \in Sides, NEW w, Holds(s, w) PROVE \E v : Holds(s, v)'
  <2>1. /\ w \subseteq 0 .. InHand - 1
        /\ field[Amount[s]] = IF s = z THEN InTrades(w \union {InHand}) ELSE InTrades(w)
        /\ field[Sum[s]] = ProductsOf(class, w) /\ ~Tested(s) /\ ~Tested(s)'
        /\ s = z => register = ProductsOf(class, w \union {InHand})
    BY <1>1, <1>2, <1>3, <1>4 DEF Holds, Tested
  <2>2. /\ field'[Amount[s]] = field[Amount[s]]
        /\ field'[Sum[s]] = IF s = z THEN register ELSE field[Sum[s]]
    BY <1>2 DEF TypeOK, Readings, Amount, Sum
  <2>3. PICK v : v = IF s = z THEN w \union {InHand} ELSE w
    OBVIOUS
  <2>4. v \subseteq 0 .. InHand
    BY <1>1, <2>1, <2>3
  <2>5. Holds(s, v)'
    BY <1>2, <1>3, <2>1, <2>2, <2>3, <2>4 DEF Holds
  <2> QED
    BY <2>5
<1> QED
  BY <1>4, HubStepQuiet

\* The steps of the loop, with the hub thread idle.
LEMMA IdleHolds ==
  ASSUME TypeOK, hub = "idle", NEW s \in Sides, NEW w, Holds(s, w)
  PROVE  /\ w \subseteq Nat /\ w \subseteq 0 .. InHand
         /\ field[Amount[s]] = InTrades(w)
         /\ field[Sum[s]] = IF Tested(s) THEN AsTested(class, w) ELSE ProductsOf(class, w)
BY DEF Holds, Handles, OldTrades

LEMMA LoopStepQuiet ==
  ASSUME TypeOK, LoopInv, OnlyBitmexDivides, QuietInv, ~overlap',
         Wake \/ TestZero \/ StoreOne \/ Divide \/ ReadField
  PROVE  QuietInv'
<1>1. ~overlap /\ hub = "idle" /\ UNCHANGED <<class, hubVars, reports>>
  <2>1. CASE Wake
    BY <2>1 DEF Wake
  <2>2. CASE TestZero \/ StoreOne \/ Divide \/ ReadField
    <3>1. monitor # "sleep" /\ ~overlap /\ UNCHANGED <<class, hubVars, reports>>
      BY <2>2 DEF TestZero, StoreOne, Divide, ReadField, ghostVars
    <3> QED
      BY <3>1 DEF QuietInv
  <2> QED
    BY <2>1, <2>2
<1>2. /\ hub' = "idle" /\ InHand' = InHand /\ OldTrades' = 0 .. InHand
      /\ \A s : ~Handles(s)'
  BY <1>1 DEF hubVars, InHand, OldTrades, Handles
<1>3. \A t \in 1 .. Len(reports') : Agrees(class', reports'[t])
  BY <1>1 DEF QuietInv
<1>4. monitor \notin ResetStates /\ monitor' \notin ResetStates /\ monitor' # "sleep"
  BY DEF Wake, TestZero, AfterTest, StoreOne, Divide, ReadField
<1>5. ASSUME NEW s \in Sides PROVE \E w : Holds(s, w)'
  <2>1. PICK w : Holds(s, w)
    BY <1>1, <1>4 DEF QuietInv
  <2>2. /\ w \subseteq Nat /\ w \subseteq 0 .. InHand
        /\ field[Amount[s]] = InTrades(w)
        /\ field[Sum[s]] = IF Tested(s) THEN AsTested(class, w) ELSE ProductsOf(class, w)
    BY <1>1, <2>1, IdleHolds
  <2>3. field'[Amount[s]] = field[Amount[s]]
    BY DEF Wake, TestZero, StoreOne, Divide, ReadField, TypeOK, Readings, Amount
  <2>4. field'[Sum[s]] = IF Tested(s)' THEN AsTested(class, w) ELSE ProductsOf(class, w)
    <3>1. CASE Wake
      BY <2>2, <3>1 DEF Wake, Tested, AsTested
    <3>2. CASE TestZero
      <4>1. class = "bitmex" /\ field' = field
        BY <3>2 DEF TestZero, OnlyBitmexDivides
      <4>2. Tested(s)' => Tested(s) \/ field[Sum[s]] # Zero
        BY <3>2 DEF TestZero, AfterTest, Tested, Sum
      <4>3. Tested(s) => Tested(s)'
        BY <3>2 DEF TestZero, AfterTest, Tested
      <4>4. ~Tested(s) /\ w # {} => AsTested(class, w) = ProductsOf(class, w)
        BY DEF AsTested
      <4>5. ~Tested(s) /\ w = {} => field[Sum[s]] = Zero
        BY <2>2, ProductsOfTrades
      <4> QED
        BY <2>2, <4>1, <4>2, <4>3, <4>4, <4>5
    <3>3. CASE StoreOne
      <4>1. PICK z \in Sides :
              /\ field' = [field EXCEPT ![Sum[z]] = One] /\ ~Tested(z) /\ Tested(z)'
              /\ field[Sum[z]] = Zero
              /\ \A y \in Sides : y # z => Tested(y)' = Tested(y)
        BY <1>1, <3>3 DEF StoreOne, QuietInv, Tested, Sum
      <4>2. class = "bitmex"
        BY <3>3 DEF StoreOne, OnlyBitmexDivides
      <4>3. field'[Sum[s]] = IF s = z THEN One ELSE field[Sum[s]]
        BY <4>1 DEF TypeOK, Readings, Sum
      <4>4. CASE s = z
        <5>1. w = {}
          BY <2>2, <4>1, <4>4, ProductsOfTrades
        <5> QED
          BY <4>1, <4>2, <4>3, <4>4, <5>1 DEF AsTested
      <4>5. CASE s # z
        BY <2>2, <4>1, <4>3, <4>5
      <4> QED
        BY <4>4, <4>5
    <3>4. CASE Divide
      BY <2>2, <3>4 DEF Divide, Tested
    <3>5. CASE ReadField
      BY <2>2, <3>5 DEF ReadField, Tested
    <3> QED
      BY <3>1, <3>2, <3>3, <3>4, <3>5
  <2>5. Holds(s, w)'
    BY <1>1, <1>2, <2>2, <2>3, <2>4 DEF Holds
  <2> QED
    BY <2>5
<1>6. monitor' \in {"report", "send"} =>
        \A f \in Reported' \ left' : reading'[f] = field'[f]
  <2>1. Reported' = Reported /\ Reported \subseteq Fields
    BY <1>1 DEF Reported
  <2>2. CASE Wake
    BY <2>2, <2>1 DEF Wake, Reported
  <2>3. CASE TestZero \/ StoreOne
    BY <2>3 DEF TestZero, AfterTest, StoreOne
  <2>4. CASE Divide
    BY <2>1, <2>4 DEF Divide, LoopInv
  <2>5. CASE ReadField
    BY <1>1, <2>1, <2>5, ZenonT(40) DEF ReadField, QuietInv, TypeOK, Readings
  <2> QED
    BY <2>2, <2>3, <2>4, <2>5
<1>7. /\ monitor' = "ask_one" => field'["ask_sum"] = Zero
      /\ monitor' = "bid_one" => field'["bid_sum"] = Zero
  BY DEF Wake, TestZero, AfterTest, StoreOne, Divide, ReadField
<1> QED
  BY <1>1, <1>2, <1>3, <1>4, <1>5, <1>6, <1>7 DEF QuietInv

\* The report is made of what the figures are.
LEMMA SendReportQuiet ==
  ASSUME TypeOK, LoopInv, QuietInv, ~overlap', SendReport
  PROVE  QuietInv'
<1>1. /\ ~overlap /\ hub = "idle" /\ monitor = "send" /\ monitor' = "reset_1" /\ left = {}
      /\ reports' = Append(reports, reading)
      /\ UNCHANGED <<class, hub, field>>
  BY DEF SendReport, QuietInv, LoopInv, ghostVars, hubVars
<1>2. \A f \in Reported : reading[f] = field[f]
  BY <1>1 DEF QuietInv
<1>3. Agrees(class, reading)
  <2> SUFFICES ASSUME NEW s \in Sides
               PROVE  IF class = "bitfinex" THEN reading[Sum[s]] = UpTo(reading[Sum[s]])
                      ELSE reading[Sum[s]] = IF reading[Amount[s]] = Zero THEN One
                                             ELSE Products(reading[Amount[s]])
    BY DEF Agrees
  <2>1. PICK w : Holds(s, w)
    BY <1>1 DEF QuietInv
  <2>2. /\ w \subseteq Nat /\ field[Amount[s]] = InTrades(w)
        /\ field[Sum[s]] = AsTested(class, w)
    BY <1>1, <2>1, IdleHolds DEF Tested
  <2>3. class \in {"bitmex", "bitfinex"}
    BY ClassesAssumption DEF TypeOK
  <2>4. Sum[s] \in Sums /\ Amount[s] \in Fields
    BY DEF Sum, Amount
  <2>5. CASE class = "bitfinex"
    <3>1. reading[Sum[s]] = ProductsOf(class, w)
      BY <1>2, <2>2, <2>4, <2>5 DEF Reported, AsTested
    <3> QED
      BY <2>2, <2>5, <3>1, ProductsOfTrades, ZenonT(40)
  <2>6. CASE class = "bitmex"
    <3>1. reading[Sum[s]] = AsTested(class, w) /\ reading[Amount[s]] = InTrades(w)
      BY <1>2, <2>2, <2>4, <2>6 DEF Reported
    <3> QED
      BY <2>2, <2>6, <3>1, ProductsOfTrades DEF AsTested
  <2> QED
    BY <2>3, <2>5, <2>6
<1>4. ASSUME NEW t \in 1 .. Len(reports') PROVE Agrees(class, reports'[t])
  <2>1. /\ Len(reports) \in Nat /\ Len(reports') = Len(reports) + 1
        /\ reports'[Len(reports) + 1] = reading
        /\ \A v \in 1 .. Len(reports) : reports'[v] = reports[v]
    BY <1>1, AppendProperties, LenProperties DEF TypeOK
  <2>2. CASE t \in 1 .. Len(reports)
    BY <1>1, <2>1, <2>2 DEF QuietInv
  <2>3. CASE t = Len(reports) + 1
    BY <1>3, <2>1, <2>3
  <2> QED
    BY <2>1, <2>2, <2>3
<1>5. \A f \in Fields : f \in Due'
  BY <1>1, AssignedIsOfFields DEF Due, Ahead
<1> QED
  BY <1>1, <1>4, <1>5 DEF QuietInv

LEMMA ResetFieldQuiet ==
  ASSUME TypeOK, QuietInv, ~overlap', ResetField
  PROVE  QuietInv'
<1>1. PICK g \in Fields :
        /\ monitor \in ResetStates /\ g \in Due
        /\ field' = [field EXCEPT ![g] = Zero]
        /\ UNCHANGED <<class, hubVars, reports, overlap>>
        /\ \/ monitor' = "sleep" /\ Due = {g}
           \/ monitor' \in ResetStates /\ Due = Due' \union {g}
  BY ResetSteps
<1>2. /\ ~overlap /\ hub = "idle" /\ hub' = "idle" /\ monitor # "sleep"
      /\ UNCHANGED <<class, hubVars, reports>>
  BY <1>1 DEF QuietInv, hubVars
<1>3. \A f \in Fields \ Due : field[f] = Zero
  BY <1>1, <1>2 DEF QuietInv
<1>4. \A t \in 1 .. Len(reports') : Agrees(class', reports'[t])
  BY <1>2 DEF QuietInv
<1>5. \A f \in Fields : field'[f] = IF f = g THEN Zero ELSE field[f]
  BY <1>1 DEF TypeOK, Readings
<1>6. CASE monitor' = "sleep" /\ Due = {g}
  <2>1. \A f \in Fields : field'[f] = Zero
    BY <1>3, <1>5, <1>6
  <2>2. ASSUME NEW s \in Sides PROVE Holds(s, {})'
    <3>1. ~Handles(s)' /\ ~Tested(s)'
      BY <1>2, <1>6 DEF Handles, Tested
    <3>2. field'[Amount[s]] = Zero /\ field'[Sum[s]] = Zero
      BY <2>1 DEF Amount, Sum
    <3>3. InTrades({}) = Zero /\ ProductsOf(class', {}) = Zero
      BY ProductsOfTrades
    <3> QED
      BY <3>1, <3>2, <3>3 DEF Holds
  <2> QED
    BY <1>2, <1>4, <1>6, <2>2 DEF QuietInv
<1>7. CASE monitor' \in ResetStates /\ Due = Due' \union {g}
  <2>1. \A f \in Fields \ Due' : field'[f] = Zero
    BY <1>3, <1>5, <1>7
  <2> QED
    BY <1>2, <1>4, <1>7, <2>1 DEF QuietInv
<1> QED
  BY <1>1, <1>6, <1>7

LEMMA NextQuiet ==
  TypeOK /\ LoopInv /\ OnlyBitmexDivides /\ QuietInv /\ [Next]_vars => QuietInv'
<1> SUFFICES ASSUME TypeOK, LoopInv, OnlyBitmexDivides, QuietInv, [Next]_vars, ~overlap'
             PROVE  QuietInv'
  BY DEF QuietInv
<1>1. CASE UNCHANGED vars
  <2>1. UNCHANGED <<class, field, hub, side, register, factor, monitor, left, reading,
                    reports, overlap>>
    BY <1>1 DEF vars, hubVars, monitorVars, ghostVars
  <2>2. \A s, w : Holds(s, w)' = Holds(s, w)
    BY <2>1 DEF Holds, Handles, OldTrades, Tested, InHand
  <2>3. Due' = Due /\ Reported' = Reported
    BY <2>1 DEF Due, Ahead, Reported
  <2> QED
    BY <2>1, <2>2, <2>3 DEF QuietInv
<1> QED
  BY <1>1, TakeTradeQuiet, StoreAmountQuiet, LoadSumQuiet, StoreSumQuiet, LoopStepQuiet,
     SendReportQuiet, ResetFieldQuiet DEF Next

\* As long as no trade is handled while the loop is awake, the figures of every
\* report belong together (bitmextrade, bitfinextrade), for any number of trades
\* and turns.
THEOREM QuietReportsAlwaysAgree == Spec => []QuietReportsAgree
<1>1. QuietInv => QuietReportsAgree
  BY DEF QuietInv, QuietReportsAgree, Agrees
<1>2. Init => LoopInv
  BY InitLost DEF LostInv
<1> QED
  BY InitTypeOK, NextTypeOK, InitRatio, NextOnlyBitmexDivides, NextLoop, InitQuiet, NextQuiet,
     <1>1, <1>2, PTL DEF Spec
=============================================================================
