------------------------------ MODULE Agent_proofs ------------------------------
(***************************************************************************)
(* Proofs about what an agent keeps over its turns and sessions: the       *)
(* charges of Pay, the approvals and permissions of a run, and the         *)
(* files of LongRunning; and about all the parts of an agent together,     *)
(* from the theorems of each.                                              *)
(***************************************************************************)
EXTENDS MCAgentParts, Middleware_proofs, Attached_proofs, Services_proofs

-----------------------------------------------------------------------------
(* Pay.  A charge that is still on its way must fit in what the session has *)
(* counted, so the invariant keeps room for each: a turn has one charge at  *)
(* most, and the rooms of the turns add up.                                 *)

(* A call that takes money once it is carried out.                          *)
IsCharge(c) == c.phase \in {"commit", "debit"}

(* The turn whose cost is being settled; its cost is not counted yet.       *)
Settling == hook \in {"commit", "debit"} \/ (hook = "release" /\ ~ending)
Owed     == IF Settling THEN cost ELSE 0

(* reach[t] - reach[t - 1] is room for what is still to be charged for t.   *)
Covers(reach, cs) ==
  /\ reach \in [0..MaxTurns -> Nat]
  /\ \A i, j \in 0..MaxTurns : i <= j => reach[i] <= reach[j]
  /\ \A c \in cs : IsCharge(c) => reach[c.turn - 1] + c.amount <= reach[c.turn]

(* A turn has at most one charge on its way.                                *)
OneChargePerTurn ==
  /\ \A c, d \in calls : IsCharge(c) /\ IsCharge(d) /\ c.turn = d.turn => c = d
  /\ \A c \in calls : IsCharge(c) => c.turn <= turnCount
  /\ hook \in {"reserve", "turn"} => \A c \in calls : IsCharge(c) => c.turn < turnCount

(* What was charged and what is still to be charged is within the cost of   *)
(* the session and of the turn that is being settled.                       *)
ChargesAreCovered ==
  \E reach : /\ Covers(reach, calls)
             /\ charged + reach[MaxTurns] <= sessionCost + Owed

(* Where the hook stands tells what the session has done.                   *)
Sequenced ==
  /\ ending => hook \in {"release", "over"}
  /\ hook \in {"reserve", "turn"} \/ Settling => turnCount # 0
  /\ Settling => cost \in Costs
  /\ hardLimit /\ (hook \in {"reserve", "turn"} \/ Settling) => sessionCost < DailyBudget
  /\ hardLimit => \E most \in Costs : /\ \A c \in Costs : c <= most
                                     /\ sessionCost < DailyBudget + most

(* The inductive invariant.                                                 *)
PayInv == PayTypeOK /\ OneChargePerTurn /\ ChargesAreCovered /\ Sequenced

-----------------------------------------------------------------------------
(* Amounts are numbers.                                                     *)
LEMMA EstimateType ==
  ASSUME PayTypeOK, NEW turn \in Nat \ {0}
  PROVE  Estimate(turn) \in Nat
<1>1. sessionCost \in Nat /\ DefaultEstimate \in Nat
  BY PayAssumption DEF PayTypeOK
<1>2. CASE turn = 1
  BY <1>1, <1>2 DEF Estimate
<1>3. CASE turn # 1
  <2>1. turn - 1 \in Nat \ {0} /\ sessionCost + turn - 2 \in Nat
    BY <1>1, <1>3
  <2>2. ASSUME NEW a \in Nat, NEW b \in Nat \ {0} PROVE a \div b \in Nat
    OBVIOUS
  <2> QED BY <1>1, <1>3, <2>1, <2>2 DEF Estimate
<1> QED BY <1>2, <1>3

(* A new charge of a turn without one makes room for itself.                *)
LEMMA RoomForCharge ==
  ASSUME NEW cs, NEW reach, Covers(reach, cs), MaxTurns \in Nat,
         \A c \in cs : c.turn \in Turns /\ c.amount \in Nat,
         NEW t \in Turns, NEW amount \in Nat, NEW new, new.turn = t, new.amount = amount,
         \A c \in cs : IsCharge(c) => c.turn < t
  PROVE  \E wider : /\ Covers(wider, cs \union {new})
                    /\ wider[MaxTurns] = reach[MaxTurns] + amount
<1> DEFINE wider == [i \in 0..MaxTurns |-> IF i < t THEN reach[i] ELSE reach[i] + amount]
<1>0. /\ t \in 0..MaxTurns /\ t - 1 \in 0..MaxTurns /\ MaxTurns \in 0..MaxTurns
      /\ \A i \in 0..MaxTurns : reach[i] \in Nat
  BY DEF Turns, Covers
<1>1. wider \in [0..MaxTurns -> Nat]
  BY <1>0
<1>w. \A i \in 0..MaxTurns : wider[i] = IF i < t THEN reach[i] ELSE reach[i] + amount
  OBVIOUS
<1> HIDE DEF wider
<1>2. \A i, j \in 0..MaxTurns : i <= j => wider[i] <= wider[j]
  BY <1>0, <1>w DEF Covers
<1>3. wider[MaxTurns] = reach[MaxTurns] + amount
  BY <1>0, <1>w
<1>4. ASSUME NEW c \in cs \union {new}, IsCharge(c)
      PROVE  wider[c.turn - 1] + c.amount <= wider[c.turn]
  <2>1. CASE c \in cs
    <3>1. c.turn \in 0..MaxTurns /\ c.turn - 1 \in 0..MaxTurns /\ c.turn < t
      BY <2>1, <1>4 DEF Turns
    <3>2. reach[c.turn - 1] + c.amount <= reach[c.turn] /\ c.amount \in Nat
      BY <2>1, <1>4 DEF Covers
    <3> QED BY <1>0, <1>w, <3>1, <3>2
  <2>2. CASE c = new
    <3>1. c.turn = t /\ c.amount = amount
      BY <2>2
    <3>2. reach[t - 1] <= reach[t] /\ t \in 0..MaxTurns /\ t - 1 \in 0..MaxTurns
      BY DEF Covers, Turns
    <3> QED BY <1>0, <1>w, <3>1, <3>2
  <2> QED BY <2>1, <2>2
<1> QED BY <1>1, <1>2, <1>3, <1>4 DEF Covers

(* A charge that is made or given up leaves its room.                       *)
LEMMA RoomOfCharge ==
  ASSUME NEW cs, NEW reach, Covers(reach, cs), MaxTurns \in Nat,
         \A c \in cs : c.turn \in Turns /\ c.amount \in Nat,
         NEW d \in cs, IsCharge(d),
         \A c \in cs : IsCharge(c) /\ c.turn = d.turn => c = d
  PROVE  \E narrower : /\ Covers(narrower, cs \ {d})
                       /\ narrower[MaxTurns] = reach[MaxTurns] - d.amount
<1> DEFINE narrower == [i \in 0..MaxTurns |-> IF i < d.turn THEN reach[i]
                                              ELSE reach[i] - d.amount]
<1>0. /\ d.turn \in 0..MaxTurns /\ d.turn - 1 \in 0..MaxTurns /\ d.amount \in Nat
      /\ MaxTurns \in 0..MaxTurns /\ d.turn <= MaxTurns
      /\ \A i \in 0..MaxTurns : reach[i] \in Nat
  BY DEF Turns, Covers
<1>1. reach[d.turn - 1] + d.amount <= reach[d.turn]
  BY DEF Covers
<1>2. \A i \in 0..MaxTurns : i >= d.turn => reach[i] >= reach[d.turn - 1] + d.amount
  BY <1>0, <1>1 DEF Covers
<1>3. narrower \in [0..MaxTurns -> Nat]
  BY <1>0, <1>2
<1>n. \A i \in 0..MaxTurns :
        narrower[i] = IF i < d.turn THEN reach[i] ELSE reach[i] - d.amount
  OBVIOUS
<1> HIDE DEF narrower
<1>4. \A i, j \in 0..MaxTurns : i <= j => narrower[i] <= narrower[j]
  <2> SUFFICES ASSUME NEW i \in 0..MaxTurns, NEW j \in 0..MaxTurns, i <= j
               PROVE  narrower[i] <= narrower[j]
    OBVIOUS
  <2>1. reach[i] <= reach[j] /\ reach[i] \in Nat /\ reach[j] \in Nat
    BY DEF Covers
  <2>2. i < d.turn => reach[i] <= reach[d.turn - 1]
    BY <1>0 DEF Covers
  <2>3. CASE i < d.turn
    BY <1>0, <1>2, <1>n, <2>1, <2>2, <2>3
  <2>4. CASE ~(i < d.turn)
    BY <1>0, <1>n, <2>1, <2>4
  <2> QED BY <2>3, <2>4
<1>5. narrower[MaxTurns] = reach[MaxTurns] - d.amount
  BY <1>0, <1>n
<1>6. ASSUME NEW c \in cs \ {d}, IsCharge(c)
      PROVE  narrower[c.turn - 1] + c.amount <= narrower[c.turn]
  <2>1. c.turn \in 0..MaxTurns /\ c.turn - 1 \in 0..MaxTurns /\ c.turn # d.turn
    BY <1>6 DEF Turns
  <2>2. reach[c.turn - 1] + c.amount <= reach[c.turn] /\ c.amount \in Nat
    BY <1>6 DEF Covers
  <2> QED BY <1>0, <1>n, <2>1, <2>2
<1> QED BY <1>3, <1>4, <1>5, <1>6 DEF Covers

(* The ledger keeps its types and charges what it is asked to.              *)
LEMMA LedgerStep ==
  ASSUME PayTypeOK, NEW c \in calls, Performed(c)
  PROVE  /\ credits' \in Nat /\ charged' \in Nat /\ held' \in [Turns -> Nat]
         /\ charged' = charged + (IF IsCharge(c) THEN c.amount ELSE 0)
<1>1. c.turn \in Turns /\ c.amount \in Nat /\ held[c.turn] \in Nat
  BY DEF PayTypeOK
<1>2. credits \in Nat /\ charged \in Nat
  BY DEF PayTypeOK
<1>3. CASE c.phase = "reserve"
  BY <1>1, <1>2, <1>3 DEF Performed, IsCharge, PayTypeOK
<1>4. CASE c.phase = "commit"
  BY <1>1, <1>2, <1>4 DEF Performed, IsCharge, PayTypeOK
<1>5. CASE c.phase = "release"
  BY <1>1, <1>2, <1>5 DEF Performed, IsCharge, PayTypeOK
<1>6. CASE c.phase = "debit"
  BY <1>1, <1>2, <1>6 DEF Performed, IsCharge, PayTypeOK
<1> QED BY <1>3, <1>4, <1>5, <1>6 DEF Performed

(* A call that is carried out moves its amount from what is to be charged   *)
(* to what is.                                                              *)
LEMMA LandingIsCovered ==
  ASSUME PayTypeOK, OneChargePerTurn, NEW c \in calls, Performed(c), calls' = calls \ {c},
         NEW due \in Nat,
         \E reach : Covers(reach, calls) /\ charged + reach[MaxTurns] <= due
  PROVE  \E reach : Covers(reach, calls') /\ charged' + reach[MaxTurns] <= due
<1>1. PICK reach : Covers(reach, calls) /\ charged + reach[MaxTurns] <= due
  OBVIOUS
<1>2. /\ \A d \in calls : d.turn \in Turns /\ d.amount \in Nat
      /\ MaxTurns \in Nat /\ charged \in Nat
  BY PayAssumption DEF PayTypeOK
<1>3. charged' = charged + (IF IsCharge(c) THEN c.amount ELSE 0)
  BY LedgerStep
<1>4. reach[MaxTurns] \in Nat
  BY <1>1, <1>2 DEF Covers
<1>5. CASE IsCharge(c)
  <2>1. \A d \in calls : IsCharge(d) /\ d.turn = c.turn => d = c
    BY <1>5 DEF OneChargePerTurn
  <2>2. PICK narrower : /\ Covers(narrower, calls \ {c})
                        /\ narrower[MaxTurns] = reach[MaxTurns] - c.amount
    BY <1>1, <1>2, <1>5, <2>1, RoomOfCharge
  <2>3. charged' + narrower[MaxTurns] <= due
    BY <1>1, <1>2, <1>3, <1>4, <1>5, <2>2
  <2> QED BY <2>2, <2>3
<1>6. CASE ~IsCharge(c)
  <2>1. Covers(reach, calls')
    BY <1>1 DEF Covers
  <2>2. charged' + reach[MaxTurns] <= due
    BY <1>1, <1>2, <1>3, <1>6
  <2> QED BY <2>1, <2>2
<1> QED BY <1>5, <1>6

-----------------------------------------------------------------------------
LEMMA PayInitially == PayInit => PayInv
<1> SUFFICES ASSUME PayInit PROVE PayInv
  OBVIOUS
<1>1. PayTypeOK
  <2>1. hardLimit \in BOOLEAN /\ twoPhase \in BOOLEAN /\ ending \in BOOLEAN /\ hook \in Hooks
    BY DEF PayInit, Hooks
  <2>2. /\ UNION {{balance, sessionCost, credits, charged, cost}} \subseteq Nat
        /\ turnCount \in 0..MaxTurns /\ activeTransferId \in 0..turnCount
    BY PayAssumption DEF PayInit, NoTransfer
  <2>3. held \in [Turns -> Nat] /\ calls = {}
    BY DEF PayInit
  <2> QED BY <2>1, <2>2, <2>3 DEF PayTypeOK
<1>2. OneChargePerTurn
  BY DEF PayInit, OneChargePerTurn
<1>3. ChargesAreCovered
  <2> DEFINE reach == [i \in 0..MaxTurns |-> 0]
  <2>1. Covers(reach, calls)
    BY DEF PayInit, Covers
  <2>2. reach[MaxTurns] = 0
    BY PayAssumption
  <2>3. charged + reach[MaxTurns] <= sessionCost + Owed
    BY <2>2 DEF PayInit, Owed, Settling
  <2> HIDE DEF reach
  <2> QED BY <2>1, <2>3 DEF ChargesAreCovered
<1>4. Sequenced
  <2>1. PICK most \in Costs \ {0} : \A c \in Costs : c <= most
    BY PayAssumption
  <2>2. 0 < DailyBudget + most /\ most \in Costs
    BY <2>1, PayAssumption
  <2> QED BY <2>1, <2>2 DEF PayInit, Sequenced, Settling
<1> QED BY <1>1, <1>2, <1>3, <1>4 DEF PayInv

(* A step that leaves the calls, the ledger and the cost alone, and that    *)
(* neither ends nor begins to settle a turn.                                *)
LEMMA QuietStep ==
  ASSUME PayInv, PayTypeOK',
         UNCHANGED <<hardLimit, calls, charged, sessionCost, cost>>,
         ~Settling, ~Settling', turnCount' >= turnCount,
         turnCount' > turnCount \/ hook' \notin {"reserve", "turn"} \/ hook \in {"reserve", "turn"},
         ending' => hook' \in {"release", "over"},
         hook' \in {"reserve", "turn"} =>
           turnCount' # 0 /\ (hardLimit => sessionCost < DailyBudget)
  PROVE  PayInv'
<1>1. OneChargePerTurn'
  <2>1. \A c \in calls : c.turn \in Nat
    BY DEF PayInv, PayTypeOK, Turns
  <2>2. turnCount \in Nat /\ turnCount' \in Nat
    BY PayAssumption DEF PayInv, PayTypeOK
  <2> QED BY <2>1, <2>2 DEF PayInv, OneChargePerTurn, IsCharge
<1>2. ChargesAreCovered'
  BY DEF PayInv, ChargesAreCovered, Covers, Owed, IsCharge
<1>3. Sequenced'
  BY DEF PayInv, Sequenced
<1> QED BY <1>1, <1>2, <1>3 DEF PayInv

(* The steps that ask for nothing and settle nothing,                       *)
LEMMA SessionStartStep == ASSUME PayInv, SessionStart PROVE PayInv'
<1>1. PayTypeOK'
  BY PayAssumption DEF PayInv, PayTypeOK, SessionStart, config, ledger, session, Hooks
<1> QED
  BY <1>1, QuietStep, PayAssumption
     DEF PayInv, PayTypeOK, SessionStart, config, ledger, session, Settling, Sequenced

LEMMA RefuseStep == ASSUME PayInv, Refuse PROVE PayInv'
<1>1. PayTypeOK'
  BY PayAssumption DEF PayInv, PayTypeOK, Refuse, config, ledger
<1> QED
  BY <1>1, QuietStep, PayAssumption
     DEF PayInv, PayTypeOK, Refuse, config, ledger, Settling, Sequenced

LEMMA TurnFailsStep == ASSUME PayInv, TurnFails PROVE PayInv'
<1>1. PayTypeOK'
  BY PayAssumption DEF PayInv, PayTypeOK, TurnFails, config, ledger, session, Hooks
<1> QED
  BY <1>1, QuietStep, PayAssumption
     DEF PayInv, PayTypeOK, TurnFails, config, ledger, session, Settling, Sequenced

LEMMA ReserveFailedStep == ASSUME PayInv, ReserveFailed PROVE PayInv'
<1>1. PayTypeOK'
  BY PayAssumption DEF PayInv, PayTypeOK, ReserveFailed, config, ledger, Hooks, NoTransfer
<1> QED
  BY <1>1, QuietStep, PayAssumption
     DEF PayInv, PayTypeOK, ReserveFailed, config, ledger, Settling, Sequenced

(* and those that ask for a reservation, ...                                *)
LEMMA BeforeTurnStep == ASSUME PayInv, BeforeTurn PROVE PayInv'
<1> DEFINE call == Call("reserve", turnCount', Estimate(turnCount'))
<1>1. /\ turnCount \in Nat /\ turnCount' = turnCount + 1 /\ turnCount' \in Turns
      /\ hook' \in {"reserve", "turn"} /\ hook = "open" /\ ~Settling
      /\ ~ending /\ ending' = ending /\ ~Settling'
      /\ balance \in Nat /\ credits \in Nat
  BY PayAssumption DEF PayInv, PayTypeOK, Sequenced, BeforeTurn, Settling, Turns
<1>2. call.turn = turnCount' /\ call.phase = "reserve" /\ call.amount \in Nat
  BY <1>1, EstimateType DEF PayInv, Call
<1>3. calls' \subseteq calls \union {call} /\ balance' \in {balance, credits}
  BY DEF BeforeTurn
<1>4. hardLimit => sessionCost < DailyBudget
  BY PayAssumption DEF PayInv, PayTypeOK, BeforeTurn, isBudgetExhausted
<1>5. PayTypeOK'
  <2>1. \A c \in calls' : c.phase \in Hooks /\ c.turn \in Turns /\ c.amount \in Nat
    BY <1>1, <1>2, <1>3 DEF PayInv, PayTypeOK, Hooks
  <2>2. turnCount' \in 0..MaxTurns /\ activeTransferId' \in 0..turnCount'
    BY <1>1, PayAssumption DEF PayInv, PayTypeOK, BeforeTurn, Turns
  <2>3. UNION {{balance, sessionCost, credits, charged, cost}}' \subseteq Nat
    BY <1>1, <1>3 DEF PayInv, PayTypeOK, BeforeTurn, ledger
  <2>4. /\ (hardLimit \in BOOLEAN /\ twoPhase \in BOOLEAN /\ ending \in BOOLEAN)'
        /\ hook' \in Hooks /\ held' \in [Turns -> Nat]
    BY <1>1 DEF PayInv, PayTypeOK, BeforeTurn, config, ledger, Hooks
  <2> QED BY <2>1, <2>2, <2>3, <2>4 DEF PayTypeOK
<1>6. \A c \in calls' : IsCharge(c) => c \in calls
  BY <1>2, <1>3 DEF IsCharge
<1>7. OneChargePerTurn'
  <2>1. \A c \in calls : IsCharge(c) => c.turn < turnCount' /\ c.turn \in Nat
    BY <1>1 DEF PayInv, PayTypeOK, OneChargePerTurn, Turns
  <2> QED BY <1>1, <1>6, <2>1 DEF PayInv, OneChargePerTurn, IsCharge
<1>8. ChargesAreCovered'
  BY <1>1, <1>6 DEF PayInv, ChargesAreCovered, Covers, Owed, BeforeTurn, ledger, IsCharge
<1>9. Sequenced'
  BY <1>1, <1>4 DEF PayInv, Sequenced, BeforeTurn, config, Turns
<1> QED BY <1>5, <1>7, <1>8, <1>9 DEF PayInv

(* A call lands while its hook stays or goes on to the turn.                *)
LEMMA LandsStep == ASSUME PayInv, NEW c \in calls, Lands(c) PROVE PayInv'
<1>1. Performed(c) /\ calls' = calls \ {c}
  BY DEF Lands
<1>2. UNCHANGED <<hardLimit, twoPhase, hook, ending, turnCount, balance, sessionCost,
                  activeTransferId, cost>>
  BY DEF Lands, config, session
<1>3. PayTypeOK'
  BY <1>1, <1>2, LedgerStep DEF PayInv, PayTypeOK
<1>4. OneChargePerTurn'
  BY <1>1, <1>2 DEF PayInv, OneChargePerTurn, IsCharge
<1>5. ChargesAreCovered'
  <2>1. sessionCost + Owed \in Nat
    BY DEF PayInv, PayTypeOK, Owed
  <2>2. \E reach : Covers(reach, calls') /\ charged' + reach[MaxTurns] <= sessionCost + Owed
    BY <1>1, <2>1, LandingIsCovered DEF PayInv, ChargesAreCovered
  <2>3. Owed' = Owed /\ sessionCost' = sessionCost
    BY <1>2 DEF Owed, Settling
  <2> QED BY <2>2, <2>3 DEF ChargesAreCovered, Covers, IsCharge
<1>6. Sequenced'
  BY <1>2 DEF PayInv, Sequenced, Settling
<1> QED BY <1>3, <1>4, <1>5, <1>6 DEF PayInv

LEMMA ReservedStep == ASSUME PayInv, NEW c \in calls, Reserved(c) PROVE PayInv'
<1>1. /\ Performed(c) /\ calls' = calls \ {c} /\ hook = "reserve" /\ hook' = "turn"
      /\ turnCount \in Turns
  BY PayAssumption DEF Reserved, Awaited, PayInv, PayTypeOK, Sequenced, Turns
<1>2. UNCHANGED <<hardLimit, twoPhase, ending, turnCount, sessionCost, cost>>
  BY DEF Reserved, config
<1>3. activeTransferId' = turnCount /\ balance' = credits'
  BY DEF Reserved
<1>4. PayTypeOK'
  BY <1>1, <1>2, <1>3, LedgerStep DEF PayInv, PayTypeOK, Hooks, Turns
<1>5. OneChargePerTurn'
  BY <1>1, <1>2 DEF PayInv, OneChargePerTurn, IsCharge
<1>6. ChargesAreCovered'
  <2>1. sessionCost + Owed \in Nat
    BY DEF PayInv, PayTypeOK, Owed
  <2>2. \E reach : Covers(reach, calls') /\ charged' + reach[MaxTurns] <= sessionCost + Owed
    BY <1>1, <2>1, LandingIsCovered DEF PayInv, ChargesAreCovered
  <2>3. Owed' = Owed /\ sessionCost' = sessionCost
    BY <1>1, <1>2 DEF Owed, Settling
  <2> QED BY <2>2, <2>3 DEF ChargesAreCovered, Covers, IsCharge
<1>7. Sequenced'
  BY <1>1, <1>2 DEF PayInv, Sequenced, Settling
<1> QED BY <1>4, <1>5, <1>6, <1>7 DEF PayInv

LEMMA MinusType == ASSUME NEW a \in Nat, NEW b \in Nat PROVE Minus(a, b) \in Nat
BY DEF Minus

(* The cost of the turn becomes the session's when the turn is settled.     *)
LEMMA SettleStep ==
  ASSUME PayInv, NEW known \in Nat, Settling, Settle(cost, known),
         UNCHANGED <<hardLimit, twoPhase, ending, turnCount, activeTransferId, cost>>,
         calls' \subseteq calls,
         (UNION {{credits, charged}} \subseteq Nat /\ held \in [Turns -> Nat])',
         \E reach : Covers(reach, calls') /\ charged' + reach[MaxTurns] <= sessionCost + Owed
  PROVE  PayInv'
<1>1. /\ hook' = "open" /\ ~ending /\ ~Settling' /\ cost \in Nat /\ sessionCost \in Nat
      /\ sessionCost' = sessionCost + cost /\ balance' \in Nat
  BY MinusType DEF PayInv, PayTypeOK, Sequenced, Settling, Settle
<1>2. PayTypeOK'
  <2>1. (hardLimit \in BOOLEAN /\ twoPhase \in BOOLEAN /\ ending \in BOOLEAN)' /\ hook' \in Hooks
    BY <1>1 DEF PayInv, PayTypeOK, Hooks
  <2> QED BY <1>1, <2>1 DEF PayInv, PayTypeOK
<1>3. OneChargePerTurn'
  BY <1>1 DEF PayInv, OneChargePerTurn, IsCharge
<1>4. ChargesAreCovered'
  <2>1. Owed = cost /\ Owed' = 0
    BY <1>1 DEF Owed
  <2>2. PICK reach : Covers(reach, calls') /\ charged' + reach[MaxTurns] <= sessionCost + Owed
    OBVIOUS
  <2>3. charged' + reach[MaxTurns] <= sessionCost' + Owed'
    BY <1>1, <2>1, <2>2
  <2> QED BY <2>2, <2>3 DEF ChargesAreCovered, Covers, IsCharge
<1>5. Sequenced'
  <2>1. hardLimit => \E most \in Costs : /\ \A c \in Costs : c <= most
                                         /\ sessionCost' < DailyBudget + most
    <3> SUFFICES ASSUME hardLimit
                 PROVE  \E most \in Costs : /\ \A c \in Costs : c <= most
                                            /\ sessionCost' < DailyBudget + most
      OBVIOUS
    <3>1. PICK most \in Costs : \A c \in Costs : c <= most
      BY DEF PayInv, Sequenced
    <3>2. cost <= most /\ sessionCost < DailyBudget /\ most \in Nat /\ DailyBudget \in Nat
      BY <3>1, PayAssumption DEF PayInv, Sequenced
    <3>3. sessionCost' < DailyBudget + most
      BY <1>1, <3>2
    <3> QED BY <3>1, <3>3
  <2> QED BY <1>1, <2>1 DEF Sequenced
<1> QED BY <1>2, <1>3, <1>4, <1>5 DEF PayInv

(* The turn is settled by the answer, by a failure, or ...                  *)
LEMMA PaidStep == ASSUME PayInv, NEW c \in calls, Paid(c) PROVE PayInv'
<1>1. /\ Performed(c) /\ calls' = calls \ {c} /\ Settling /\ Settle(cost, credits')
  BY DEF Paid, Awaited, Settling
<1>2. UNCHANGED <<hardLimit, twoPhase, ending, turnCount, activeTransferId, cost>>
  BY DEF Paid, config
<1>3. sessionCost + Owed \in Nat
  BY DEF PayInv, PayTypeOK, Owed
<1>4. \E reach : Covers(reach, calls') /\ charged' + reach[MaxTurns] <= sessionCost + Owed
  BY <1>1, <1>3, LandingIsCovered DEF PayInv, ChargesAreCovered
<1>5. (UNION {{credits, charged}} \subseteq Nat /\ held \in [Turns -> Nat])' /\ credits' \in Nat
  BY <1>1, LedgerStep DEF PayInv
<1> QED BY <1>1, <1>2, <1>4, <1>5, SettleStep

LEMMA DebitFailedStep == ASSUME PayInv, DebitFailed PROVE PayInv'
<1>1. Settling /\ Settle(cost, balance) /\ balance \in Nat
  BY DEF DebitFailed, Settling, PayInv, PayTypeOK
<1>2. UNCHANGED <<hardLimit, twoPhase, ending, turnCount, activeTransferId, cost, calls,
                  credits, held, charged>>
  BY DEF DebitFailed, config, ledger
<1>3. \E reach : Covers(reach, calls') /\ charged' + reach[MaxTurns] <= sessionCost + Owed
  BY <1>2 DEF PayInv, ChargesAreCovered
<1>4. (UNION {{credits, charged}} \subseteq Nat /\ held \in [Turns -> Nat])'
  BY <1>2 DEF PayInv, PayTypeOK
<1> QED BY <1>1, <1>2, <1>3, <1>4, SettleStep

(* ... in the hook itself; a commit or a debit is asked for once for a      *)
(* turn.                                                                    *)
LEMMA AfterTurnStep == ASSUME PayInv, AfterTurn PROVE PayInv'
<1>0. PICK actual \in Costs :
       /\ cost' = actual
       /\ \/ /\ activeTransferId # NoTransfer
             /\ hook' = "commit"
             /\ calls' = calls \union {Call("commit", turnCount, actual)}
             /\ UNCHANGED <<balance, sessionCost>>
          \/ /\ activeTransferId = NoTransfer /\ actual > 0
             /\ hook' = "debit"
             /\ calls' = calls \union {Call("debit", turnCount, actual)}
             /\ UNCHANGED <<balance, sessionCost>>
          \/ /\ activeTransferId = NoTransfer /\ actual = 0
             /\ Settle(0, balance)
             /\ UNCHANGED calls
  BY DEF AfterTurn
<1>1. /\ hook = "turn" /\ turnCount \in Turns /\ actual \in Nat /\ ~ending /\ ~Settling
      /\ UNCHANGED <<hardLimit, twoPhase, ending, turnCount, credits, held, charged>>
      /\ activeTransferId' = NoTransfer
  BY PayAssumption
     DEF AfterTurn, PayInv, PayTypeOK, Sequenced, Settling, Turns, config, ledger
<1>2. CASE UNCHANGED calls /\ Settle(0, balance)
  <2>1. hook' = "open" /\ sessionCost' = sessionCost /\ balance' \in Nat
    <3>1. balance \in Nat /\ sessionCost \in Nat
      BY DEF PayInv, PayTypeOK
    <3>2. Minus(balance, 0) \in Nat /\ sessionCost + 0 = sessionCost
      BY <3>1, MinusType
    <3> QED BY <1>2, <3>2 DEF Settle
  <2>2. PayTypeOK'
    <3>1. (hardLimit \in BOOLEAN /\ twoPhase \in BOOLEAN /\ ending \in BOOLEAN)' /\ hook' \in Hooks
      BY <1>1, <2>1 DEF PayInv, PayTypeOK, Hooks
    <3> QED BY <1>0, <1>1, <1>2, <2>1, <3>1 DEF PayInv, PayTypeOK, NoTransfer
  <2>3. OneChargePerTurn'
    BY <1>1, <1>2, <2>1 DEF PayInv, OneChargePerTurn, IsCharge
  <2>4. ChargesAreCovered'
    BY <1>1, <1>2, <2>1 DEF PayInv, ChargesAreCovered, Covers, Owed, Settling, IsCharge
  <2>5. Sequenced'
    BY <1>1, <2>1 DEF PayInv, Sequenced, Settling
  <2> QED BY <2>2, <2>3, <2>4, <2>5 DEF PayInv
<1>3. ASSUME NEW charge \in {"commit", "debit"}, hook' = charge,
             calls' = calls \union {Call(charge, turnCount, actual)},
             UNCHANGED <<balance, sessionCost>>
      PROVE  PayInv'
  <2> DEFINE call == Call(charge, turnCount, actual)
  <2>1. /\ call.turn = turnCount /\ call.amount = actual /\ call.phase = charge
        /\ IsCharge(call) /\ Settling' /\ Owed' = actual /\ Owed = 0
    BY <1>0, <1>1, <1>3 DEF Call, IsCharge, Settling, Owed
  <2>2. PayTypeOK'
    <3>1. (hardLimit \in BOOLEAN /\ twoPhase \in BOOLEAN /\ ending \in BOOLEAN)' /\ hook' \in Hooks
      BY <1>1, <1>3 DEF PayInv, PayTypeOK, Hooks
    <3>2. \A c \in calls' : c.phase \in Hooks /\ c.turn \in Turns /\ c.amount \in Nat
      BY <1>1, <1>3, <2>1 DEF PayInv, PayTypeOK, Hooks
    <3> QED BY <1>0, <1>1, <1>3, <3>1, <3>2 DEF PayInv, PayTypeOK, NoTransfer
  <2>3. \A c \in calls : IsCharge(c) => c.turn < turnCount /\ c.turn \in Nat
    BY <1>1 DEF PayInv, OneChargePerTurn, PayTypeOK, Turns
  <2>4. OneChargePerTurn'
    <3>1. \A c \in calls' : IsCharge(c) => c.turn <= turnCount
      BY <1>1, <1>3, <2>1, <2>3 DEF Turns
    <3>2. \A c, d \in calls' : IsCharge(c) /\ IsCharge(d) /\ c.turn = d.turn => c = d
      BY <1>1, <1>3, <2>1, <2>3 DEF Turns, PayInv, OneChargePerTurn
    <3> QED BY <1>1, <1>3, <3>1, <3>2 DEF OneChargePerTurn, IsCharge
  <2>5. ChargesAreCovered'
    <3>1. PICK reach : Covers(reach, calls) /\ charged + reach[MaxTurns] <= sessionCost + Owed
      BY DEF PayInv, ChargesAreCovered
    <3>2. MaxTurns \in Nat /\ \A c \in calls : c.turn \in Turns /\ c.amount \in Nat
      BY PayAssumption DEF PayInv, PayTypeOK
    <3>3. PICK wider : /\ Covers(wider, calls \union {call})
                       /\ wider[MaxTurns] = reach[MaxTurns] + actual
      <4>1. \A c \in calls : IsCharge(c) => c.turn < turnCount
        BY <2>3
      <4>2. Covers(reach, calls) /\ turnCount \in Turns /\ actual \in Nat
        BY <1>1, <3>1
      <4>3. call.turn = turnCount /\ call.amount = actual
        BY <2>1
      <4> HIDE DEF call
      <4> QED BY <3>2, <4>1, <4>2, <4>3, RoomForCharge
    <3>4. reach[MaxTurns] \in Nat /\ charged \in Nat /\ sessionCost \in Nat
      BY <3>1, <3>2 DEF Covers, PayInv, PayTypeOK
    <3>5. charged' + wider[MaxTurns] <= sessionCost' + Owed'
      BY <1>1, <1>3, <2>1, <3>1, <3>3, <3>4
    <3>6. Covers(wider, calls')
      BY <1>3, <3>3
    <3> QED BY <3>5, <3>6 DEF ChargesAreCovered, Covers, IsCharge
  <2>6. Sequenced'
    BY <1>0, <1>1, <1>3, <2>1 DEF PayInv, Sequenced, Settling, Turns
  <2> QED BY <2>2, <2>4, <2>5, <2>6 DEF PayInv
<1> QED BY <1>0, <1>2, <1>3

(* The release that follows a failed commit settles its turn later.         *)
LEMMA CommitFailedStep == ASSUME PayInv, CommitFailed PROVE PayInv'
<1> DEFINE call == Call("release", turnCount, 0)
<1>1. /\ hook = "commit" /\ hook' = "release" /\ turnCount \in Turns /\ ~ending
      /\ Settling /\ Settling'
      /\ UNCHANGED <<hardLimit, twoPhase, ending, turnCount, balance, sessionCost,
                     activeTransferId, cost, credits, held, charged>>
  BY PayAssumption
     DEF CommitFailed, PayInv, PayTypeOK, Sequenced, Settling, Turns, config, ledger, session
<1>2. call.turn = turnCount /\ call.amount = 0 /\ call.phase = "release" /\ ~IsCharge(call)
  BY DEF Call, IsCharge
<1>3. calls' = calls \union {call}
  BY DEF CommitFailed
<1>4. PayTypeOK'
  <2>1. (hardLimit \in BOOLEAN /\ twoPhase \in BOOLEAN /\ ending \in BOOLEAN)' /\ hook' \in Hooks
    BY <1>1 DEF PayInv, PayTypeOK, Hooks
  <2>2. \A c \in calls' : c.phase \in Hooks /\ c.turn \in Turns /\ c.amount \in Nat
    BY <1>1, <1>2, <1>3 DEF PayInv, PayTypeOK, Hooks
  <2> QED BY <1>1, <2>1, <2>2 DEF PayInv, PayTypeOK
<1>5. OneChargePerTurn'
  BY <1>1, <1>2, <1>3 DEF PayInv, OneChargePerTurn, IsCharge
<1>6. ChargesAreCovered'
  BY <1>1, <1>2, <1>3 DEF PayInv, ChargesAreCovered, Covers, Owed, IsCharge
<1>7. Sequenced'
  BY <1>1 DEF PayInv, Sequenced, Settling
<1> QED BY <1>4, <1>5, <1>6, <1>7 DEF PayInv

(* The end of a session, and of the hooks that wait for a release.          *)
LEMMA ReleasedStep == ASSUME PayInv, Released PROVE PayInv'
<1>1. UNCHANGED <<hardLimit, twoPhase, ending, turnCount, activeTransferId, cost, calls,
                  credits, held, charged>> /\ hook = "release"
  BY DEF Released, config, ledger
<1>2. CASE ~ending
  <2>1. Settling /\ Settle(cost, balance) /\ balance \in Nat
    BY <1>2 DEF Released, Settling, PayInv, PayTypeOK
  <2>2. \E reach : Covers(reach, calls') /\ charged' + reach[MaxTurns] <= sessionCost + Owed
    BY <1>1 DEF PayInv, ChargesAreCovered
  <2>3. (UNION {{credits, charged}} \subseteq Nat /\ held \in [Turns -> Nat])'
    BY <1>1 DEF PayInv, PayTypeOK
  <2> QED BY <1>1, <2>1, <2>2, <2>3, SettleStep
<1>3. CASE ending
  <2>1. /\ hook' = "over" /\ balance' \in {balance, credits} /\ sessionCost' = sessionCost
        /\ ~Settling /\ ~Settling'
    BY <1>1, <1>3 DEF Released, Settling, PayInv, PayTypeOK
  <2>2. PayTypeOK'
    BY <1>1, <2>1 DEF PayInv, PayTypeOK, Hooks
  <2> QED BY <1>1, <2>1, <2>2, QuietStep, PayAssumption DEF PayInv, PayTypeOK, Sequenced
<1> QED BY <1>2, <1>3 DEF PayInv, PayTypeOK

LEMMA SessionEndStep == ASSUME PayInv, SessionEnd PROVE PayInv'
<1> DEFINE call == Call("release", activeTransferId, 0)
<1>1. /\ hook = "open" /\ hook' \in {"release", "over"} /\ ending' = TRUE
      /\ ~Settling /\ ~Settling' /\ activeTransferId' = NoTransfer
      /\ UNCHANGED <<hardLimit, twoPhase, turnCount, sessionCost, cost, credits, held, charged>>
      /\ balance' \in {balance, credits}
  BY DEF SessionEnd, Settling, config, ledger
<1>2. call.turn = activeTransferId /\ call.amount = 0 /\ call.phase = "release"
      /\ ~IsCharge(call)
  BY DEF Call, IsCharge
<1>3. calls' = calls \/ (calls' = calls \union {call} /\ activeTransferId \in Turns)
  BY PayAssumption DEF SessionEnd, PayInv, PayTypeOK, NoTransfer, Turns
<1>4. PayTypeOK'
  <2>1. (hardLimit \in BOOLEAN /\ twoPhase \in BOOLEAN /\ ending \in BOOLEAN)' /\ hook' \in Hooks
    BY <1>1 DEF PayInv, PayTypeOK, Hooks
  <2>2. \A c \in calls' : c.phase \in Hooks /\ c.turn \in Turns /\ c.amount \in Nat
    BY <1>1, <1>2, <1>3 DEF PayInv, PayTypeOK, Hooks
  <2> QED BY <1>1, <2>1, <2>2 DEF PayInv, PayTypeOK, NoTransfer
<1>5. OneChargePerTurn'
  BY <1>1, <1>2, <1>3 DEF PayInv, OneChargePerTurn, IsCharge
<1>6. ChargesAreCovered'
  BY <1>1, <1>2, <1>3 DEF PayInv, ChargesAreCovered, Covers, Owed, IsCharge
<1>7. Sequenced'
  BY <1>1 DEF PayInv, Sequenced
<1> QED BY <1>4, <1>5, <1>6, <1>7 DEF PayInv

LEMMA PayStep == PayInv /\ [PayNext]_payVars => PayInv'
<1> SUFFICES ASSUME PayInv, [PayNext]_payVars PROVE PayInv'
  OBVIOUS
<1>1. CASE PayNext
  BY <1>1, SessionStartStep, RefuseStep, BeforeTurnStep, ReserveFailedStep, TurnFailsStep,
     AfterTurnStep, CommitFailedStep, DebitFailedStep, ReleasedStep, SessionEndStep,
     LandsStep, ReservedStep, PaidStep DEF PayNext
<1>2. CASE UNCHANGED payVars
  BY <1>2 DEF PayInv, PayTypeOK, OneChargePerTurn, ChargesAreCovered, Sequenced, Covers,
     Owed, Settling, IsCharge, payVars, config, session, ledger
<1> QED BY <1>1, <1>2

(* The variables of the pay middleware keep their types, for any budget,    *)
(* costs and number of turns.                                               *)
THEOREM PayTypeCorrect == PaySpec => []PayTypeOK
<1>1. PayInv => PayTypeOK
  BY DEF PayInv
<1> QED BY <1>1, PayInitially, PayStep, PTL DEF PaySpec

(* No more is charged than the session has counted, whichever calls are     *)
(* answered late, failed after they were carried out, or retried by a       *)
(* release: for any budget, reservation, costs and number of turns.         *)
THEOREM ChargesStayAccounted == PaySpec => []ChargesAreAccounted
<1>1. PayInv => ChargesAreAccounted
  <2> SUFFICES ASSUME PayInv PROVE ChargesAreAccounted
    OBVIOUS
  <2>1. PICK reach : Covers(reach, calls) /\ charged + reach[MaxTurns] <= sessionCost + Owed
    BY DEF PayInv, ChargesAreCovered
  <2>2. reach[MaxTurns] \in Nat /\ {charged, sessionCost, cost} \subseteq Nat
    BY <2>1, PayAssumption DEF Covers, PayInv, PayTypeOK
  <2>3. charged <= sessionCost + Owed
    BY <2>1, <2>2 DEF Owed
  <2>4. Owed <= IF hook \in {"commit", "debit", "release"} THEN cost ELSE 0
    BY <2>2 DEF Owed, Settling
  <2> QED BY <2>2, <2>3, <2>4 DEF PayInv, Sequenced, ChargesAreAccounted, Owed
<1> QED BY <1>1, PayInitially, PayStep, PTL DEF PaySpec

-----------------------------------------------------------------------------
(* ExecApprovals.  A flush may be done when nothing is dirty any more or a   *)
(* new session has begun: the invariant says what each flush still carries. *)

Flushes == TimerFlushes \union {AtEnd}
ApprovalEntries == [count : 0..approvals, at : 0..approvals]

(* Counts and times are those of approvals that were given.                 *)
ApprovalsTyped ==
  /\ execSession \in {"off", "loading", "on", "ending", "lazy"}
  /\ approvals \in 0..MaxApprovals
  /\ allowlist \in [Patterns -> ApprovalEntries] /\ nexusAllowlist \in [Patterns -> ApprovalEntries]
  /\ flushes \in [Flushes -> [sent : [Patterns -> ApprovalEntries], landed : BOOLEAN]]
  /\ granted \in [Patterns -> Nat]
  /\ dirtyPatterns \subseteq Patterns /\ undecided \subseteq Patterns
  /\ excused \subseteq Patterns
  /\ execSession = "ending" => flushes[AtEnd] # NoFlush

(* Until the list is there, it is empty and nothing is dirty.               *)
LoadingIsEmpty ==
  execSession = "loading" =>
    dirtyPatterns = {} /\ \A p \in Patterns : allowlist[p] = NotListed

(* What a flush sends of a pattern is all there is, whenever it arrives,    *)
(* and while it is under way it carries every entry that is dirty.          *)
FlushesAreCurrent(p) ==
  \A f \in Flushes :
    /\ flushes[f].sent[p] # NotListed =>
         /\ flushes[f].sent[p].count = granted[p]
         /\ flushes[f].landed => nexusAllowlist[p].count = granted[p]
    /\ flushes[f] # NoFlush /\ p \in dirtyPatterns => flushes[f].sent[p] # NotListed

ListsAreCurrent(p) ==
  /\ execSession \in {"on", "ending", "lazy"} => allowlist[p].count = granted[p]
  /\ execSession \in {"off", "loading"} \/ p \notin dirtyPatterns =>
       nexusAllowlist[p].count = granted[p]
  /\ p \in dirtyPatterns => allowlist[p] # NotListed

ApprovalsInv ==
  /\ ApprovalsTyped /\ LoadingIsEmpty
  /\ \A p \in Patterns \ excused : FlushesAreCurrent(p) /\ ListsAreCurrent(p)

LEMMA ApprovalsStart == ExecInit => ApprovalsInv
<1> SUFFICES ASSUME ExecInit PROVE ApprovalsInv
  OBVIOUS
<1> USE ApprovalsAssumption
<1>1. ApprovalsTyped
  BY DEF ExecInit, ApprovalsTyped, ApprovalEntries, Flushes, NoFlush, NotListed
<1>2. QED
  BY <1>1 DEF ExecInit, ApprovalsInv, LoadingIsEmpty, FlushesAreCurrent, ListsAreCurrent,
              Flushes, NoFlush, NotListed

LEMMA SessionKeepsApprovals ==
  ASSUME ApprovalsInv, StartSession \/ ListLoaded \/ LoadFails
  PROVE  ApprovalsInv'
<1> USE DEF ApprovalsInv
<1>1. NotListed \in ApprovalEntries
  BY ApprovalsAssumption DEF ApprovalsTyped, ApprovalEntries, NotListed
<1>2. /\ UNCHANGED <<nexusAllowlist, flushes, approvals, granted>>
      /\ excused \subseteq excused' /\ dirtyPatterns' = {}
      /\ allowlist' = [p \in Patterns |-> NotListed] \/ allowlist' = nexusAllowlist
                       \/ UNCHANGED allowlist
  BY DEF StartSession, ListLoaded, LoadFails, LoadingIsEmpty
<1>3. ApprovalsTyped' /\ LoadingIsEmpty'
  <2>1. allowlist' \in [Patterns -> ApprovalEntries]
    BY <1>1, <1>2 DEF ApprovalsTyped
  <2>2. ApprovalEntries' = ApprovalEntries
    BY <1>2 DEF ApprovalEntries
  <2>3. excused' \subseteq Patterns /\ undecided' \subseteq Patterns
    BY DEF StartSession, ListLoaded, LoadFails, ApprovalsTyped
  <2>4. execSession' \in {"loading", "on"}
    BY DEF StartSession, ListLoaded, LoadFails
  <2>5. LoadingIsEmpty'
    BY DEF StartSession, ListLoaded, LoadFails, LoadingIsEmpty
  <2>6. QED
    BY <1>2, <2>1, <2>2, <2>3, <2>4, <2>5 DEF ApprovalsTyped
<1>4. ASSUME NEW p \in Patterns \ excused'
      PROVE  FlushesAreCurrent(p)' /\ ListsAreCurrent(p)'
  <2>1. FlushesAreCurrent(p) /\ ListsAreCurrent(p) /\ nexusAllowlist[p].count = granted[p]
    BY <1>2, <1>4 DEF StartSession, ListLoaded, LoadFails, ListsAreCurrent
  <2>2. FlushesAreCurrent(p)'
    BY <1>2, <2>1 DEF FlushesAreCurrent
  <2>3. execSession' = "on" => allowlist'[p].count = granted[p]
    <3>1. CASE LoadFails
      <4>1. granted[p] = 0
        BY <1>4, <3>1 DEF LoadFails, ApprovalsTyped
      <4>2. allowlist'[p] = NotListed
        BY <3>1, <1>4 DEF LoadFails, LoadingIsEmpty
      <4>3. QED
        BY <4>1, <4>2 DEF NotListed
    <3>2. QED
      BY <2>1, <3>1 DEF StartSession, ListLoaded
  <2>4. execSession' \in {"loading", "on"}
    BY DEF StartSession, ListLoaded, LoadFails
  <2>5. QED
    BY <1>2, <2>1, <2>2, <2>3, <2>4 DEF ListsAreCurrent
<1>5. QED
  BY <1>3, <1>4

LEMMA AnswersKeepApprovals ==
  ASSUME ApprovalsInv,
         \/ UNCHANGED execVars
         \/ \E p \in Patterns : Deny(p)
  PROVE  ApprovalsInv'
<1>1. /\ UNCHANGED <<execSession, allowlist, dirtyPatterns, nexusAllowlist, flushes, approvals,
                     granted, excused>>
      /\ ApprovalsTyped => undecided' \subseteq Patterns
  BY DEF execVars, Deny, ApprovalsTyped
<1>2. QED
  BY <1>1 DEF ApprovalsInv, ApprovalsTyped, ApprovalEntries, LoadingIsEmpty, FlushesAreCurrent,
              ListsAreCurrent

(* A call outside a session: its list knows of no approval, and Nexus has   *)
(* counted all those that are not excused.                                  *)
LEMMA CallsKeepApprovals ==
  ASSUME ApprovalsInv, CallUnasked \/ \E p \in Patterns : AskApproval(p)
  PROVE  ApprovalsInv'
<1> USE DEF ApprovalsInv
<1>1. /\ ListForCall /\ UNCHANGED <<nexusAllowlist, flushes, approvals, granted>>
      /\ undecided' \subseteq Patterns
  BY DEF CallUnasked, AskApproval, ApprovalsTyped
<1>2. CASE UNCHANGED <<execSession, allowlist, dirtyPatterns, excused>>
  BY <1>1, <1>2 DEF ApprovalsTyped, ApprovalEntries, LoadingIsEmpty, FlushesAreCurrent,
                    ListsAreCurrent
<1>3. CASE /\ execSession = "off" /\ execSession' = "lazy"
           /\ allowlist' = [p \in Patterns |-> NotListed] /\ dirtyPatterns' = {}
           /\ excused' = excused \union {p \in Patterns : granted[p] > 0}
  <2>1. NotListed \in ApprovalEntries /\ NotListed.count = 0
    BY ApprovalsAssumption DEF ApprovalsTyped, ApprovalEntries, NotListed
  <2>2. ApprovalEntries' = ApprovalEntries
    BY <1>1 DEF ApprovalEntries
  <2>3. allowlist' \in [Patterns -> ApprovalEntries] /\ excused' \subseteq Patterns
    BY <1>3, <2>1 DEF ApprovalsTyped
  <2>4. ApprovalsTyped' /\ LoadingIsEmpty'
    BY <1>1, <1>3, <2>2, <2>3 DEF ApprovalsTyped, LoadingIsEmpty
  <2>5. ASSUME NEW p \in Patterns \ excused'
        PROVE  FlushesAreCurrent(p)' /\ ListsAreCurrent(p)'
    <3>1. FlushesAreCurrent(p) /\ ListsAreCurrent(p) /\ granted[p] = 0
      BY <1>3, <2>5 DEF ApprovalsTyped
    <3>2. FlushesAreCurrent(p)'
      BY <1>1, <1>3, <3>1 DEF FlushesAreCurrent
    <3>3. allowlist'[p].count = granted'[p] /\ nexusAllowlist'[p].count = granted'[p]
      BY <1>1, <1>3, <2>1, <3>1 DEF ListsAreCurrent
    <3>4. QED
      BY <1>3, <3>2, <3>3 DEF ListsAreCurrent
  <2>6. QED
    BY <2>4, <2>5
<1>4. QED
  BY <1>1, <1>2, <1>3 DEF ListForCall

(* What is evicted was listed.                                              *)
LEMMA EvictedAreListed ==
  ASSUME NEW p \in Patterns
  PROVE  EvictedFor(p) \subseteq Patterns /\ p \notin EvictedFor(p)
BY DEF EvictedFor, Oldest, Listed

LEMMA ApproveKeeps ==
  ASSUME ApprovalsInv, NEW p \in Patterns, Approve(p)
  PROVE  ApprovalsInv'
<1> USE DEF ApprovalsInv
<1>1. approvals' = approvals + 1 /\ approvals' \in 0..MaxApprovals /\ approvals \in Nat
  BY ApprovalsAssumption DEF Approve, ApprovalsTyped
<1>2. ApprovalEntries \subseteq ApprovalEntries' /\ NotListed \in ApprovalEntries'
  BY <1>1 DEF ApprovalEntries, NotListed
<1>3. UNCHANGED <<execSession, nexusAllowlist, flushes>>
  BY DEF Approve
<1>4. EvictedFor(p) \subseteq Patterns /\ p \notin EvictedFor(p)
  BY EvictedAreListed
<1>5. /\ granted' \in [Patterns -> Nat]
      /\ granted'[p] = granted[p] + 1
      /\ \A q \in Patterns \ {p} : granted'[q] = granted[q]
  BY DEF Approve, ApprovalsTyped
<1>6. allowlist[p].count \in 0..approvals /\ allowlist[p].count + 1 \in 0..approvals'
  BY <1>1 DEF ApprovalsTyped, ApprovalEntries
<1>7. ApprovalsTyped'
  <2>1. allowlist' \in [Patterns -> ApprovalEntries']
    <3>1. CASE RecordApproval(p)
      <4>1. [count |-> allowlist[p].count + 1, at |-> approvals + 1] \in ApprovalEntries'
        BY <1>1, <1>6 DEF ApprovalEntries
      <4>2. \A q \in Patterns : allowlist[q] \in ApprovalEntries'
        BY <1>2 DEF ApprovalsTyped
      <4>3. QED
        BY <1>2, <3>1, <4>1, <4>2 DEF RecordApproval
    <3>2. CASE UNCHANGED allowlist
      BY <1>2, <3>2 DEF ApprovalsTyped
    <3>3. QED
      BY <3>1, <3>2 DEF Approve
  <2>2. nexusAllowlist \in [Patterns -> ApprovalEntries']
    BY <1>2 DEF ApprovalsTyped
  <2>3. flushes \in [Flushes -> [sent : [Patterns -> ApprovalEntries'], landed : BOOLEAN]]
    <3>1. \A f \in Flushes : flushes[f] \in [sent : [Patterns -> ApprovalEntries'], landed : BOOLEAN]
      <4>1. [Patterns -> ApprovalEntries] \subseteq [Patterns -> ApprovalEntries']
        BY <1>2
      <4>2. QED
        BY <4>1 DEF ApprovalsTyped
    <3>2. QED
      BY <3>1 DEF ApprovalsTyped
  <2>4. /\ dirtyPatterns' \subseteq Patterns /\ undecided' \subseteq Patterns
        /\ excused' \subseteq Patterns
    BY <1>4 DEF Approve, RecordApproval, ApprovalsTyped
  <2>5. QED
    BY <1>1, <1>3, <1>5, <2>1, <2>2, <2>3, <2>4 DEF ApprovalsTyped
<1>8. LoadingIsEmpty'
  BY <1>3 DEF Approve, LoadingIsEmpty
<1>9. ASSUME NEW q \in Patterns \ excused'
      PROVE  FlushesAreCurrent(q)' /\ ListsAreCurrent(q)'
  <2>1. q \in Patterns \ excused /\ FlushesAreCurrent(q) /\ ListsAreCurrent(q)
    BY <1>9 DEF Approve
  <2>2. CASE q = p
    <3>1. /\ execSession \in {"on", "ending", "lazy"} /\ UnderWay = {}
          /\ RecordApproval(p)
      BY <1>9, <2>2 DEF Approve
    <3>2. \A f \in Flushes : flushes[f] = NoFlush
      BY <3>1 DEF UnderWay, ApprovalsTyped
    <3>3. FlushesAreCurrent(q)'
      <4>1. \A f \in Flushes : flushes[f].sent[q] = NotListed
        BY <3>2 DEF NoFlush
      <4>2. QED
        BY <1>3, <3>2, <4>1 DEF FlushesAreCurrent
    <3>4. allowlist'[p].count = allowlist[p].count + 1 /\ p \in dirtyPatterns'
      BY <3>1 DEF RecordApproval
    <3>5. allowlist'[p].count # 0
      BY <1>1, <1>6, <3>4
    <3>6. QED
      BY <1>3, <1>5, <2>1, <2>2, <3>1, <3>3, <3>4, <3>5 DEF ListsAreCurrent, NotListed
  <2>3. CASE q # p
    <3>1. granted'[q] = granted[q]
      BY <1>5, <2>3
    <3>2. allowlist'[q] = allowlist[q] /\ (q \in dirtyPatterns' <=> q \in dirtyPatterns)
      BY <1>9, <2>3 DEF Approve, RecordApproval
    <3>3. QED
      BY <1>3, <2>1, <3>1, <3>2 DEF FlushesAreCurrent, ListsAreCurrent
  <2>4. QED
    BY <2>2, <2>3
<1>10. QED
  BY <1>7, <1>8, <1>9

(* A flush that starts takes what is dirty, and all there is of it.         *)
LEMMA SendingKeepsApprovals ==
  ASSUME ApprovalsInv, EndSession \/ \E f \in TimerFlushes : SyncTimer(f)
  PROVE  ApprovalsInv'
<1> USE DEF ApprovalsInv
<1>1. /\ execSession \in {"on", "lazy"}
      /\ UNCHANGED <<allowlist, dirtyPatterns, nexusAllowlist, undecided, approvals, granted,
                     excused>>
  BY DEF EndSession, SyncTimer
<1>2. ApprovalEntries' = ApprovalEntries
  BY <1>1 DEF ApprovalEntries
<1>3. CASE \E f \in Flushes :
                             /\ Sent(f) /\ Sends
                             /\ execSession' \in {"on", "ending"}
                             /\ execSession' = "ending" => f = AtEnd
  <2>1. PICK f \in Flushes : /\ Sent(f) /\ Sends
                             /\ execSession' \in {"on", "ending"}
                             /\ execSession' = "ending" => f = AtEnd
    BY <1>3
  <2>2. /\ ToSend \in [Patterns -> ApprovalEntries]
        /\ \A p \in Patterns : ToSend[p] = IF p \in dirtyPatterns THEN allowlist[p] ELSE NotListed
    BY DEF ToSend, ApprovalsTyped, ApprovalEntries, NotListed
  <2>3. /\ flushes' \in [Flushes -> [sent : [Patterns -> ApprovalEntries], landed : BOOLEAN]]
        /\ flushes'[f] = [sent |-> ToSend, landed |-> FALSE]
        /\ \A g \in Flushes : g # f => flushes'[g] = flushes[g]
    BY <2>1, <2>2 DEF Sent, ApprovalsTyped
  <2>4. flushes'[f] # NoFlush
    <3>1. PICK p \in dirtyPatterns : allowlist[p] # NotListed /\ p \in Patterns
      BY <2>1 DEF Sends, Listed
    <3>2. flushes'[f].sent[p] # NoFlush.sent[p]
      BY <2>2, <2>3, <3>1 DEF NoFlush
    <3>3. QED
      BY <3>2
  <2>5. ApprovalsTyped' /\ LoadingIsEmpty'
    BY <1>1, <1>2, <2>1, <2>3, <2>4 DEF ApprovalsTyped, LoadingIsEmpty
  <2>6. ASSUME NEW p \in Patterns \ excused'
        PROVE  FlushesAreCurrent(p)' /\ ListsAreCurrent(p)'
    <3>1. FlushesAreCurrent(p) /\ ListsAreCurrent(p)
      BY <1>1, <2>6
    <3>2. ToSend[p] # NotListed => ToSend[p].count = granted[p]
      BY <1>1, <2>2, <3>1 DEF ListsAreCurrent
    <3>3. p \in dirtyPatterns => ToSend[p] # NotListed
      BY <2>2, <3>1 DEF ListsAreCurrent
    <3>4. FlushesAreCurrent(p)'
      BY <1>1, <2>3, <3>1, <3>2, <3>3 DEF FlushesAreCurrent
    <3>5. ListsAreCurrent(p)'
      BY <1>1, <2>1, <3>1 DEF ListsAreCurrent
    <3>6. QED
      BY <3>4, <3>5
  <2>7. QED
    BY <2>5, <2>6
<1>4. CASE ~Sends /\ execSession' = "off" /\ UNCHANGED flushes
  <2>1. ApprovalsTyped' /\ LoadingIsEmpty'
    BY <1>1, <1>2, <1>4 DEF ApprovalsTyped, LoadingIsEmpty
  <2>2. ASSUME NEW p \in Patterns \ excused'
        PROVE  FlushesAreCurrent(p)' /\ ListsAreCurrent(p)'
    <3>1. FlushesAreCurrent(p) /\ ListsAreCurrent(p)
      BY <1>1, <2>2
    <3>2. p \notin dirtyPatterns
      BY <1>4, <3>1 DEF Sends, Listed, ListsAreCurrent
    <3>3. QED
      BY <1>1, <1>4, <3>1, <3>2 DEF FlushesAreCurrent, ListsAreCurrent
  <2>3. QED
    BY <2>1, <2>2
<1>5. CASE EndSession
  BY <1>3, <1>4, <1>5 DEF EndSession, Flushes
<1>6. CASE \E f \in TimerFlushes : SyncTimer(f)
  <2>1. PICK f \in TimerFlushes : SyncTimer(f)
    BY <1>6
  <2>2. f \in Flushes /\ Sent(f) /\ Sends /\ execSession' = "on"
    BY <2>1 DEF SyncTimer, Flushes
  <2>3. QED
    BY <1>3, <2>2
<1>7. QED
  BY <1>5, <1>6

LEMMA UpsertKeeps ==
  ASSUME ApprovalsInv, NEW f \in Flushes, Upsert(f)
  PROVE  ApprovalsInv'
<1> USE DEF ApprovalsInv
<1>1. UNCHANGED <<execSession, allowlist, dirtyPatterns, undecided, approvals, granted, excused>>
  BY DEF Upsert
<1>2. ApprovalEntries' = ApprovalEntries
  BY <1>1 DEF ApprovalEntries
<1>3. /\ flushes' \in [Flushes -> [sent : [Patterns -> ApprovalEntries], landed : BOOLEAN]]
      /\ flushes'[f].sent = flushes[f].sent /\ flushes'[f].landed
      /\ \A g \in Flushes : g # f => flushes'[g] = flushes[g]
  BY DEF Upsert, ApprovalsTyped
<1>4. flushes'[f] # NoFlush
  BY <1>3 DEF NoFlush
<1>5. \A p \in Patterns : nexusAllowlist'[p] =
        IF flushes[f].sent[p] # NotListed THEN flushes[f].sent[p] ELSE nexusAllowlist[p]
  BY DEF Upsert
<1>6. nexusAllowlist' \in [Patterns -> ApprovalEntries]
  BY DEF Upsert, ApprovalsTyped
<1>7. ApprovalsTyped' /\ LoadingIsEmpty'
  <2>1. AtEnd \in Flushes
    BY DEF Flushes
  <2>2. execSession' = "ending" => flushes'[AtEnd] # NoFlush
    BY <1>1, <1>3, <1>4, <2>1 DEF ApprovalsTyped
  <2>3. QED
    BY <1>1, <1>2, <1>3, <1>6, <2>2 DEF ApprovalsTyped, LoadingIsEmpty
<1>8. ASSUME NEW p \in Patterns \ excused'
      PROVE  FlushesAreCurrent(p)' /\ ListsAreCurrent(p)'
  <2>1. FlushesAreCurrent(p) /\ ListsAreCurrent(p)
    BY <1>1, <1>8
  <2>2. flushes[f].sent[p] # NotListed => nexusAllowlist'[p].count = granted[p]
    BY <1>5, <1>8, <2>1 DEF FlushesAreCurrent
  <2>3. flushes[f].sent[p] = NotListed => nexusAllowlist'[p] = nexusAllowlist[p]
    BY <1>5, <1>8
  <2>4. flushes[f] # NoFlush
    BY DEF Upsert
  <2>5. FlushesAreCurrent(p)'
    BY <1>1, <1>3, <2>1, <2>2, <2>3, <2>4 DEF FlushesAreCurrent
  <2>6. ListsAreCurrent(p)'
    BY <1>1, <2>1, <2>2, <2>3 DEF ListsAreCurrent
  <2>7. QED
    BY <2>5, <2>6
<1>9. QED
  BY <1>7, <1>8

(* Marking everything clean is right only because a flush that landed       *)
(* carried all that was dirty.                                              *)
LEMMA EndOfFlushKeeps ==
  ASSUME ApprovalsInv, NEW f \in Flushes, FlushDone(f) \/ FlushFails(f)
  PROVE  ApprovalsInv'
<1> USE DEF ApprovalsInv
<1>1. /\ UNCHANGED <<allowlist, nexusAllowlist, undecided, approvals, granted>>
      /\ execSession' = IF f = AtEnd THEN "off" ELSE execSession
      /\ excused \subseteq excused' /\ dirtyPatterns' \subseteq dirtyPatterns
      /\ excused' \subseteq excused \union dirtyPatterns
  BY DEF FlushDone, FlushFails, FlushEnded
<1>2. ApprovalEntries' = ApprovalEntries
  BY <1>1 DEF ApprovalEntries
<1>3. NoFlush \in [sent : [Patterns -> ApprovalEntries], landed : BOOLEAN]
  BY DEF NoFlush, ApprovalsTyped, ApprovalEntries, NotListed
<1>4. /\ flushes' \in [Flushes -> [sent : [Patterns -> ApprovalEntries], landed : BOOLEAN]]
      /\ flushes'[f] = NoFlush
      /\ \A g \in Flushes : g # f => flushes'[g] = flushes[g]
  BY <1>3 DEF FlushDone, FlushFails, FlushEnded, ApprovalsTyped
<1>5. AtEnd \in Flushes
  BY DEF Flushes
<1>6. ApprovalsTyped' /\ LoadingIsEmpty'
  BY <1>1, <1>2, <1>4, <1>5 DEF ApprovalsTyped, LoadingIsEmpty
<1>7. ASSUME NEW p \in Patterns \ excused'
      PROVE  FlushesAreCurrent(p)' /\ ListsAreCurrent(p)'
  <2>1. FlushesAreCurrent(p) /\ ListsAreCurrent(p)
    BY <1>1, <1>7
  <2>2. FlushesAreCurrent(p)'
    BY <1>1, <1>4, <2>1 DEF FlushesAreCurrent, NoFlush
  <2>3. p \notin dirtyPatterns' \/ execSession' = "off" => nexusAllowlist[p].count = granted[p]
    <3>1. CASE p \notin dirtyPatterns
      BY <2>1, <3>1 DEF ListsAreCurrent
    <3>2. CASE FlushDone(f) /\ p \in dirtyPatterns
      <4>1. flushes[f].landed /\ flushes[f] # NoFlush
        BY <3>2 DEF FlushDone, NoFlush
      <4>2. QED
        BY <2>1, <3>2, <4>1 DEF FlushesAreCurrent
    <3>3. CASE FlushFails(f) /\ p \in dirtyPatterns
      <4>1. f # AtEnd /\ UNCHANGED <<dirtyPatterns, execSession>>
        BY <1>7, <3>3 DEF FlushFails, FlushEnded
      <4>2. QED
        BY <2>1, <3>3, <4>1 DEF ListsAreCurrent
    <3>4. QED
      BY <3>1, <3>2, <3>3
  <2>4. execSession' = "loading" => execSession = "loading"
    BY <1>1
  <2>5. ListsAreCurrent(p)'
    BY <1>1, <2>1, <2>3, <2>4 DEF ListsAreCurrent
  <2>6. QED
    BY <2>2, <2>5
<1>8. QED
  BY <1>6, <1>7

LEMMA ApprovalsStep == ApprovalsInv /\ [ExecNext]_execVars => ApprovalsInv'
<1> SUFFICES ASSUME ApprovalsInv, [ExecNext]_execVars PROVE ApprovalsInv'
  OBVIOUS
<1>1. DOMAIN flushes = Flushes
  BY DEF ApprovalsInv, ApprovalsTyped
<1>2. QED
  BY <1>1, SessionKeepsApprovals, AnswersKeepApprovals, CallsKeepApprovals, ApproveKeeps,
     SendingKeepsApprovals, UpsertKeeps, EndOfFlushKeeps DEF ExecNext

(* Sessions, approvals and flushes keep the invariant.                      *)
THEOREM ApprovalsInvariant == ExecSpec => []ApprovalsInv
BY ApprovalsStart, ApprovalsStep, PTL DEF ExecSpec

(* The middleware's lists and its counters are well-formed.                 *)
THEOREM ApprovalsTypeCorrect == ExecSpec => []ExecTypeOK
<1>1. ApprovalsInv => ExecTypeOK
  <2> SUFFICES ASSUME ApprovalsTyped PROVE ExecTypeOK
    BY DEF ApprovalsInv
  <2>1. ApprovalEntries \subseteq [count : 0..MaxApprovals, at : 0..MaxApprovals]
    BY ApprovalsAssumption DEF ApprovalsTyped, ApprovalEntries
  <2>2. QED
    BY <2>1 DEF ApprovalsTyped, ExecTypeOK
<1>2. QED
  BY <1>1, ApprovalsInvariant, PTL

LEMMA CountedApprovals == ApprovalsInv => ApprovalsAreCounted
BY DEF ApprovalsInv, ListsAreCurrent, ApprovalsAreCounted

-----------------------------------------------------------------------------
(* PermissionChecks.  An entry is as old as the call that made it, so the    *)
(* invariant bounds what a call under way may still answer.                 *)

Verdicts == {"none", "allow", "deny"}
LongestCall == IF checkTimeout > grantTimeout THEN checkTimeout ELSE grantTimeout

PermissionTypes ==
  /\ PermissionTypeOK
  /\ policyChangedAt \in [Tools -> Nat \union {NoTime}]
  /\ permissionCache \in [Tools -> [result : Verdicts, expiresAt : Nat, session : Nat]]
  /\ permissionBreaker \in [state : {"closed", "open", "half-open"},
                            consecutiveFailures : Nat, lastFailureAt : Nat]
  /\ permissionCalls \in [Calls -> [kind : {"none", "check", "grant"},
                                    tool : Tools \union {"none"}, answer : Verdicts,
                                    startedAt : Nat, session : Nat]]

(* A call ends by its timeout, and was made in this session or before.      *)
CallsAreBounded ==
  \A c \in Calls :
    LET call == permissionCalls[c] IN
    call # NoCall =>
      /\ call.kind # "none" /\ call.tool \in Tools
      /\ call.startedAt <= clock /\ clock <= call.startedAt + Timeout(call)
      /\ call.session <= checkSession

(* Since a call of this session was made, what Nexus says is what it has    *)
(* answered, or has changed.                                                *)
AnswersAreRecent ==
  \A c \in Calls :
    LET call == permissionCalls[c] IN
    call # NoCall /\ call.session = checkSession /\ call.answer # "none" =>
      \/ policy[call.tool] = call.answer
      \/ policyChangedAt[call.tool] # NoTime /\ call.startedAt <= policyChangedAt[call.tool]

(* An entry expires in time, the entry of a decision that has changed soon  *)
(* after the change.                                                        *)
EntriesExpire ==
  \A t \in Tools :
    LET entry == permissionCache[t] IN
    entry # NoDecision =>
      /\ entry.session <= checkSession /\ entry.expiresAt <= clock + cacheTTL
      /\ entry.session = checkSession =>
           \/ policy[t] = entry.result
           \/ /\ policyChangedAt[t] # NoTime
              /\ entry.expiresAt <= policyChangedAt[t] + cacheTTL + LongestCall

(* A breaker that has opened is past its threshold, also while it is tried. *)
BreakerIsSound ==
  /\ permissionBreaker.state = "closed" =>
       permissionBreaker.consecutiveFailures < failureThreshold
  /\ permissionBreaker.state # "closed" =>
       permissionBreaker.consecutiveFailures >= failureThreshold
  /\ permissionBreaker.state = "half-open" =>
       \E c \in Calls : /\ permissionCalls[c].kind = "check"
                        /\ permissionCalls[c].session = checkSession

PermissionInv ==
  PermissionTypes /\ CallsAreBounded /\ AnswersAreRecent /\ EntriesExpire /\ BreakerIsSound

LEMMA PermissionInitially == PermissionInit => PermissionInv
<1> SUFFICES ASSUME PermissionInit PROVE PermissionInv
  OBVIOUS
<1> USE PermissionAssumption DEF PermissionInit, NoCall, NoDecision, ClosedCircuit, NoTime, Verdicts
<1>1. PermissionTypes
  BY DEF PermissionTypes, PermissionTypeOK
<1>2. CallsAreBounded /\ AnswersAreRecent /\ EntriesExpire /\ BreakerIsSound
  BY DEF CallsAreBounded, AnswersAreRecent, EntriesExpire, BreakerIsSound
<1> QED BY <1>1, <1>2 DEF PermissionInv

-----------------------------------------------------------------------------
LEMMA NextSessionKeeps == ASSUME PermissionInv, NextSession PROVE PermissionInv'
<1> USE PermissionAssumption DEF NextSession, PermissionInv
<1>1. PermissionTypes'
  BY DEF PermissionTypes, PermissionTypeOK, NoDecision, ClosedCircuit, NoTime, Verdicts
<1>2. CallsAreBounded'
  BY DEF CallsAreBounded, PermissionTypes, PermissionTypeOK
<1>3. AnswersAreRecent'
  BY DEF AnswersAreRecent, CallsAreBounded, PermissionTypes, PermissionTypeOK
<1>4. EntriesExpire' /\ BreakerIsSound'
  BY DEF EntriesExpire, BreakerIsSound, ClosedCircuit
<1> QED BY <1>1, <1>2, <1>3, <1>4

(* Time passes only while no call is at its timeout.                        *)
LEMMA ClockKeeps == ASSUME PermissionInv, ClockTicks PROVE PermissionInv'
<1> USE PermissionAssumption DEF ClockTicks, PermissionInv
<1>0. clock \in Nat /\ clock' = clock + 1 /\ clock' <= MaxClock
  BY DEF PermissionTypes, PermissionTypeOK
<1>1. PermissionTypes'
  BY <1>0 DEF PermissionTypes, PermissionTypeOK
<1>2. CallsAreBounded'
  <2> SUFFICES ASSUME NEW c \in Calls, permissionCalls[c] # NoCall
               PROVE  /\ permissionCalls[c].startedAt <= clock'
                      /\ clock' <= permissionCalls[c].startedAt + Timeout(permissionCalls[c])
    BY DEF CallsAreBounded, Timeout
  <2>1. permissionCalls[c].startedAt \in Nat
    BY DEF PermissionTypes
  <2>2. Timeout(permissionCalls[c]) \in Nat
    BY DEF Timeout
  <2> QED BY <1>0, <2>1, <2>2 DEF CallsAreBounded
<1>3. AnswersAreRecent'
  BY DEF AnswersAreRecent
<1>4. EntriesExpire'
  <2> SUFFICES ASSUME NEW t \in Tools, permissionCache[t] # NoDecision
               PROVE  permissionCache[t].expiresAt <= clock' + cacheTTL
    BY DEF EntriesExpire
  <2>1. permissionCache[t].expiresAt \in Nat
    BY DEF PermissionTypes
  <2> QED BY <1>0, <2>1 DEF EntriesExpire
<1>5. BreakerIsSound'
  BY DEF BreakerIsSound
<1> QED BY <1>1, <1>2, <1>3, <1>4, <1>5

(* What Nexus says changes.                                                 *)
LEMMA SaysKeeps ==
  ASSUME PermissionInv, NEW t \in Tools, NEW decision \in {"allow", "deny"},
         Says(t, decision), UNCHANGED <<clock, checkSession, permissionCache>>
  PROVE  /\ policy' \in [Tools -> {"allow", "deny"}]
         /\ policyChangedAt' \in [Tools -> Nat \union {NoTime}]
         /\ policy'[t] = decision
         /\ EntriesExpire'
         /\ \A c \in Calls :
              LET call == permissionCalls[c] IN
              call # NoCall /\ call.session = checkSession /\ call.answer # "none" =>
                \/ policy'[call.tool] = call.answer
                \/ /\ policyChangedAt'[call.tool] # NoTime
                   /\ call.startedAt <= policyChangedAt'[call.tool]
<1> USE PermissionAssumption DEF PermissionInv
<1>1. clock \in Nat /\ policy \in [Tools -> {"allow", "deny"}]
      /\ policyChangedAt \in [Tools -> Nat \union {NoTime}]
  BY DEF PermissionTypes, PermissionTypeOK
<1>2. /\ policy' = [policy EXCEPT ![t] = decision]
      /\ policyChangedAt' = [policyChangedAt EXCEPT ![t] =
                               IF policy[t] = decision THEN @ ELSE clock]
  BY DEF Says
<1>3. \A u \in Tools : \/ policy'[u] = policy[u] /\ policyChangedAt'[u] = policyChangedAt[u]
                       \/ policyChangedAt'[u] = clock
  BY <1>1, <1>2
<1>4. clock # NoTime
  BY <1>1 DEF NoTime
<1>5. EntriesExpire'
  <2> SUFFICES ASSUME NEW u \in Tools, permissionCache[u] # NoDecision,
                      permissionCache[u].session = checkSession, policyChangedAt'[u] = clock
               PROVE  permissionCache[u].expiresAt <= clock + cacheTTL + LongestCall
    BY <1>3, <1>4 DEF EntriesExpire
  <2>1. permissionCache[u].expiresAt \in Nat
    BY DEF PermissionTypes
  <2>2. LongestCall \in Nat
    BY DEF LongestCall
  <2> QED BY <1>1, <2>1, <2>2 DEF EntriesExpire
<1>6. ASSUME NEW c \in Calls, permissionCalls[c] # NoCall,
             permissionCalls[c].session = checkSession, permissionCalls[c].answer # "none"
      PROVE  \/ policy'[permissionCalls[c].tool] = permissionCalls[c].answer
             \/ /\ policyChangedAt'[permissionCalls[c].tool] # NoTime
                /\ permissionCalls[c].startedAt <= policyChangedAt'[permissionCalls[c].tool]
  <2>1. permissionCalls[c].tool \in Tools /\ permissionCalls[c].startedAt <= clock
    BY <1>6 DEF CallsAreBounded
  <2> QED BY <1>3, <1>4, <1>6, <2>1 DEF AnswersAreRecent
<1> QED BY <1>1, <1>2, <1>5, <1>6

LEMMA PolicyKeeps == ASSUME PermissionInv, NEW t \in Tools, PolicyChanges(t) PROVE PermissionInv'
<1>1. \E d \in {"allow", "deny"} : Says(t, d)
  BY DEF PolicyChanges
<1>2. UNCHANGED <<clock, checkSession, permissionCache, permissionBreaker, permissionCalls>>
  BY DEF PolicyChanges
<1>3. EntriesExpire' /\ AnswersAreRecent'
  BY <1>1, <1>2, SaysKeeps DEF AnswersAreRecent
<1>4. PermissionTypes'
  BY <1>1, <1>2, SaysKeeps DEF PermissionInv, PermissionTypes, PermissionTypeOK
<1>5. CallsAreBounded' /\ BreakerIsSound'
  BY <1>2 DEF PermissionInv, CallsAreBounded, BreakerIsSound, Timeout
<1> QED BY <1>3, <1>4, <1>5 DEF PermissionInv

(* Nexus answers: with what it says now, or by granting.                    *)
LEMMA AnswerKeeps == ASSUME PermissionInv, NEW c \in Calls, NexusAnswers(c) PROVE PermissionInv'
<1> DEFINE call == permissionCalls[c]
           verdict == IF call.kind = "grant" THEN "allow" ELSE policy[call.tool]
<1>1. /\ call # NoCall /\ call.answer = "none"
      /\ permissionCalls' = [permissionCalls EXCEPT ![c].answer = verdict]
      /\ UNCHANGED <<clock, checkSession, permissionCache, permissionBreaker>>
  BY DEF NexusAnswers
<1>2. call.kind \in {"check", "grant"} /\ call.tool \in Tools /\ verdict \in {"allow", "deny"}
  BY <1>1 DEF PermissionInv, PermissionTypes, PermissionTypeOK, CallsAreBounded
<1>3. /\ policy' \in [Tools -> {"allow", "deny"}]
      /\ policyChangedAt' \in [Tools -> Nat \union {NoTime}]
      /\ EntriesExpire'
      /\ call.session = checkSession => policy'[call.tool] = verdict
      /\ \A d \in Calls :
           LET other == permissionCalls[d] IN
           other # NoCall /\ other.session = checkSession /\ other.answer # "none" =>
             \/ policy'[other.tool] = other.answer
             \/ /\ policyChangedAt'[other.tool] # NoTime
                /\ other.startedAt <= policyChangedAt'[other.tool]
  <2>1. CASE call.kind = "grant" /\ call.session = checkSession
    <3>1. Says(call.tool, "allow")
      BY <2>1 DEF NexusAnswers
    <3>2. verdict = "allow"
      BY <2>1
    <3> HIDE DEF call, verdict
    <3> QED BY <1>1, <1>2, <3>1, <3>2, SaysKeeps
  <2>2. CASE ~(call.kind = "grant" /\ call.session = checkSession)
    <3>1. UNCHANGED <<policy, policyChangedAt>>
      BY <2>2 DEF NexusAnswers
    <3>2. EntriesExpire'
      BY <1>1, <3>1 DEF PermissionInv, EntriesExpire
    <3>3. call.session = checkSession => verdict = policy[call.tool]
      BY <1>2, <2>2
    <3> QED BY <3>1, <3>2, <3>3 DEF PermissionInv, PermissionTypes, PermissionTypeOK,
                                    AnswersAreRecent
  <2> QED BY <2>1, <2>2
<1>4. \A d \in Calls : \/ permissionCalls'[d] = permissionCalls[d]
                       \/ d = c /\ permissionCalls'[d] = [call EXCEPT !.answer = verdict]
  BY <1>1 DEF PermissionInv, PermissionTypes
<1>5. call \in [kind : {"none", "check", "grant"}, tool : Tools \union {"none"},
                answer : Verdicts, startedAt : Nat, session : Nat]
  BY DEF PermissionInv, PermissionTypes
<1>6. LET now == permissionCalls'[c] IN
      /\ now.kind = call.kind /\ now.tool = call.tool /\ now.startedAt = call.startedAt
      /\ now.session = call.session /\ now.answer = verdict
  BY <1>1, <1>5 DEF PermissionInv, PermissionTypes
<1> HIDE DEF call, verdict
<1>7. permissionCalls' \in [Calls -> [kind : {"none", "check", "grant"},
                                      tool : Tools \union {"none"}, answer : Verdicts,
                                      startedAt : Nat, session : Nat]]
  BY <1>1, <1>2, <1>5 DEF call, PermissionInv, PermissionTypes, Verdicts
<1>8. PermissionTypes'
  <2>1. \A d \in Calls : permissionCalls'[d] # NoCall => permissionCalls'[d].kind \in {"check", "grant"}
    BY <1>2, <1>4, <1>6 DEF PermissionInv, PermissionTypes, PermissionTypeOK
  <2> QED BY <1>1, <1>3, <1>7, <2>1 DEF PermissionInv, PermissionTypes, PermissionTypeOK
<1>9. CallsAreBounded'
  BY <1>1, <1>2, <1>4, <1>6 DEF call, PermissionInv, CallsAreBounded, Timeout
<1>10. AnswersAreRecent'
  BY <1>1, <1>3, <1>4, <1>6 DEF AnswersAreRecent
<1>11. BreakerIsSound'
  BY <1>1, <1>4, <1>6 DEF call, PermissionInv, BreakerIsSound
<1> QED BY <1>3, <1>8, <1>9, <1>10, <1>11 DEF PermissionInv

-----------------------------------------------------------------------------
(* A call is made: none of the others changes.                              *)
LEMMA StartsKeeps ==
  ASSUME PermissionInv, NEW c \in Calls, NEW t \in Tools, NEW kind \in {"check", "grant"},
         Starts(c, kind, t), UNCHANGED <<clock, checkSession, policy, policyChangedAt>>
  PROVE  /\ permissionCalls' \in [Calls -> [kind : {"none", "check", "grant"},
                                            tool : Tools \union {"none"}, answer : Verdicts,
                                            startedAt : Nat, session : Nat]]
         /\ \A d \in Calls : permissionCalls'[d] # NoCall
                               => permissionCalls'[d].kind \in {"check", "grant"}
         /\ CallsAreBounded' /\ AnswersAreRecent'
         /\ \A d \in Calls : permissionCalls[d] # NoCall
                               => permissionCalls'[d] = permissionCalls[d]
         /\ permissionCalls'[c].kind = kind /\ permissionCalls'[c].session = checkSession
<1> DEFINE made == [kind |-> kind, tool |-> t, answer |-> "none", startedAt |-> clock,
                    session |-> checkSession]
<1> USE DEF PermissionInv
<1>1. clock \in Nat /\ checkSession \in Nat
  BY PermissionAssumption DEF PermissionTypes, PermissionTypeOK
<1>2. permissionCalls[c] = NoCall /\ permissionCalls' = [permissionCalls EXCEPT ![c] = made]
  BY DEF Starts
<1>3. \A d \in Calls : permissionCalls'[d] = IF d = c THEN made ELSE permissionCalls[d]
  BY <1>2 DEF PermissionTypes
<1>4. permissionCalls' \in [Calls -> [kind : {"none", "check", "grant"},
                                      tool : Tools \union {"none"}, answer : Verdicts,
                                      startedAt : Nat, session : Nat]]
  BY <1>1, <1>2 DEF PermissionTypes, Verdicts
<1>5. Timeout(made) \in Nat
  BY PermissionAssumption DEF Timeout
<1>6. CallsAreBounded'
  BY <1>1, <1>3, <1>5 DEF CallsAreBounded, Timeout
<1>7. AnswersAreRecent'
  BY <1>3 DEF AnswersAreRecent
<1> QED BY <1>2, <1>3, <1>4, <1>6, <1>7 DEF PermissionTypes, PermissionTypeOK

LEMMA DropKeeps ==
  ASSUME PermissionInv, NEW t \in Tools,
         permissionCache' = [permissionCache EXCEPT ![t] = NoDecision],
         UNCHANGED <<clock, checkSession, policy, policyChangedAt>>
  PROVE  /\ permissionCache' \in [Tools -> [result : Verdicts, expiresAt : Nat, session : Nat]]
         /\ \A u \in Tools : permissionCache'[u].result \in {"none", "allow", "deny"}
         /\ EntriesExpire'
<1> USE DEF PermissionInv
<1>1. permissionCache' \in [Tools -> [result : Verdicts, expiresAt : Nat, session : Nat]]
  BY DEF PermissionTypes, NoDecision, Verdicts
<1>2. \A u \in Tools : permissionCache'[u] = IF u = t THEN NoDecision ELSE permissionCache[u]
  BY DEF PermissionTypes
<1> QED BY <1>1, <1>2 DEF EntriesExpire, Verdicts

LEMMA HereKeeps == ASSUME PermissionInv, NEW t \in Tools, CheckAnsweredHere(t) PROVE PermissionInv'
<1>1. /\ permissionCache' = [permissionCache EXCEPT ![t] = NoDecision]
      /\ UNCHANGED <<clock, checkSession, policy, policyChangedAt, permissionBreaker,
                     permissionCalls>>
  BY DEF CheckAnsweredHere
<1>2. PermissionTypes' /\ EntriesExpire'
  BY <1>1, DropKeeps DEF PermissionInv, PermissionTypes, PermissionTypeOK
<1>3. CallsAreBounded' /\ AnswersAreRecent' /\ BreakerIsSound'
  BY <1>1 DEF PermissionInv, CallsAreBounded, AnswersAreRecent, BreakerIsSound, Timeout
<1> QED BY <1>2, <1>3 DEF PermissionInv

LEMMA CheckKeeps ==
  ASSUME PermissionInv, NEW c \in Calls, NEW t \in Tools, Check(c, t) PROVE PermissionInv'
<1>1. /\ Starts(c, "check", t)
      /\ permissionCache' = [permissionCache EXCEPT ![t] = NoDecision]
      /\ UNCHANGED <<clock, checkSession, policy, policyChangedAt>>
      /\ permissionBreaker' = [permissionBreaker EXCEPT
                                 !.state = IF @ = "open" THEN "half-open" ELSE @]
  BY DEF Check
<1>2. CallsAreBounded' /\ AnswersAreRecent' /\ EntriesExpire'
  BY <1>1, StartsKeeps, DropKeeps
<1>3. PermissionTypes'
  <2>1. permissionBreaker' \in [state : {"closed", "open", "half-open"},
                                consecutiveFailures : Nat, lastFailureAt : Nat]
    BY <1>1 DEF PermissionInv, PermissionTypes
  <2> QED BY <1>1, <2>1, StartsKeeps, DropKeeps DEF PermissionInv, PermissionTypes, PermissionTypeOK
<1>4. BreakerIsSound'
  <2>1. permissionCalls'[c].kind = "check" /\ permissionCalls'[c].session = checkSession'
    BY <1>1, StartsKeeps
  <2>2. /\ permissionBreaker'.consecutiveFailures = permissionBreaker.consecutiveFailures
        /\ permissionBreaker'.state = "closed" <=> permissionBreaker.state = "closed"
    BY <1>1 DEF PermissionInv, PermissionTypes
  <2> QED BY <2>1, <2>2 DEF PermissionInv, BreakerIsSound
<1> QED BY <1>2, <1>3, <1>4 DEF PermissionInv

(* A breaker that keeps its state, over calls that go on or are made.       *)
LEMMA AskKeeps ==
  ASSUME PermissionInv, NEW c \in Calls, NEW t \in Tools, AskAllowed(c, t) PROVE PermissionInv'
<1>1. UNCHANGED <<clock, checkSession, policy, policyChangedAt, permissionCache,
                  permissionBreaker>>
  BY DEF AskAllowed
<1>2. EntriesExpire'
  BY <1>1 DEF PermissionInv, EntriesExpire
<1>3. CASE Starts(c, "grant", t)
  <2>1. PermissionTypes' /\ CallsAreBounded' /\ AnswersAreRecent'
    BY <1>1, <1>3, StartsKeeps DEF PermissionInv, PermissionTypes, PermissionTypeOK
  <2>2. BreakerIsSound'
    <3>1. \A d \in Calls : permissionCalls[d].kind = "check"
                             => permissionCalls'[d] = permissionCalls[d]
      BY <1>1, <1>3, StartsKeeps DEF NoCall
    <3> QED BY <1>1, <3>1 DEF PermissionInv, BreakerIsSound
  <2> QED BY <1>2, <2>1, <2>2 DEF PermissionInv
<1>4. CASE UNCHANGED permissionCalls
  BY <1>1, <1>2, <1>4 DEF PermissionInv, PermissionTypes, PermissionTypeOK, CallsAreBounded,
                          AnswersAreRecent, BreakerIsSound, Timeout
<1> QED BY <1>3, <1>4 DEF AskAllowed

-----------------------------------------------------------------------------
(* A call ends.                                                             *)
LEMMA EndsKeeps ==
  ASSUME PermissionInv, NEW c \in Calls, permissionCalls[c] # NoCall,
         permissionCalls' = [permissionCalls EXCEPT ![c] = NoCall],
         UNCHANGED <<clock, checkSession, policy, policyChangedAt>>
  PROVE  /\ permissionCalls' \in [Calls -> [kind : {"none", "check", "grant"},
                                            tool : Tools \union {"none"}, answer : Verdicts,
                                            startedAt : Nat, session : Nat]]
         /\ \A d \in Calls : permissionCalls'[d] # NoCall
                               => permissionCalls'[d].kind \in {"check", "grant"}
         /\ CallsAreBounded' /\ AnswersAreRecent'
         /\ \A d \in Calls \ {c} : permissionCalls'[d] = permissionCalls[d]
<1> USE DEF PermissionInv
<1>1. permissionCalls' \in [Calls -> [kind : {"none", "check", "grant"},
                                      tool : Tools \union {"none"}, answer : Verdicts,
                                      startedAt : Nat, session : Nat]]
  BY DEF PermissionTypes, NoCall, Verdicts
<1>2. \A d \in Calls : permissionCalls'[d] = IF d = c THEN NoCall ELSE permissionCalls[d]
  BY DEF PermissionTypes
<1>3. CallsAreBounded' /\ AnswersAreRecent'
  BY <1>2 DEF CallsAreBounded, AnswersAreRecent, Timeout
<1> QED BY <1>1, <1>2, <1>3 DEF PermissionTypes, PermissionTypeOK

LEMMA AnsweredKeeps == ASSUME PermissionInv, NEW c \in Calls, CheckAnswered(c) PROVE PermissionInv'
<1> DEFINE call == permissionCalls[c]
           entry == [result |-> call.answer, session |-> call.session,
                     expiresAt |-> clock + cacheTTL]
<1> USE PermissionAssumption
<1>1. /\ call # NoCall /\ call.answer # "none"
      /\ permissionCalls' = [permissionCalls EXCEPT ![c] = NoCall]
      /\ permissionCache' = [permissionCache EXCEPT ![call.tool] = entry]
      /\ permissionBreaker' = IF call.kind = "check" THEN ClosedCircuit ELSE permissionBreaker
      /\ UNCHANGED <<clock, checkSession, policy, policyChangedAt>>
  BY DEF CheckAnswered, CachePermission
<1>2. /\ call.tool \in Tools /\ call.answer \in Verdicts /\ call.startedAt \in Nat
      /\ call.session \in Nat /\ clock \in Nat /\ call.kind \in {"check", "grant"}
      /\ clock <= call.startedAt + Timeout(call) /\ call.session <= checkSession
  BY <1>1 DEF PermissionInv, PermissionTypes, PermissionTypeOK, CallsAreBounded
<1>3. call.session = checkSession =>
        \/ policy[call.tool] = call.answer
        \/ /\ policyChangedAt[call.tool] # NoTime
           /\ clock + cacheTTL <= policyChangedAt[call.tool] + cacheTTL + LongestCall
  <2> SUFFICES ASSUME call.session = checkSession, policy[call.tool] # call.answer
               PROVE  /\ policyChangedAt[call.tool] # NoTime
                      /\ clock + cacheTTL <= policyChangedAt[call.tool] + cacheTTL + LongestCall
    OBVIOUS
  <2>1. policyChangedAt[call.tool] # NoTime /\ call.startedAt <= policyChangedAt[call.tool]
    BY <1>1 DEF PermissionInv, AnswersAreRecent
  <2>2. policyChangedAt[call.tool] \in Nat
    BY <1>2, <2>1 DEF PermissionInv, PermissionTypes
  <2>3. Timeout(call) <= LongestCall /\ Timeout(call) \in Nat /\ LongestCall \in Nat
    BY DEF Timeout, LongestCall
  <2> HIDE DEF call
  <2> QED BY <1>2, <2>1, <2>2, <2>3
<1>4. entry \in [result : Verdicts, expiresAt : Nat, session : Nat]
  BY <1>2
<1>5. \A t \in Tools : permissionCache'[t] = IF t = call.tool THEN entry ELSE permissionCache[t]
  BY <1>1 DEF PermissionInv, PermissionTypes
<1>6. permissionCache' \in [Tools -> [result : Verdicts, expiresAt : Nat, session : Nat]]
  BY <1>1, <1>4 DEF PermissionInv, PermissionTypes
<1>7. EntriesExpire'
  <2>1. /\ entry.session <= checkSession /\ entry.expiresAt = clock + cacheTTL
        /\ entry.result = call.answer /\ entry.session = call.session
    BY <1>2
  <2>2. clock + cacheTTL \in Nat
    BY <1>2
  <2> HIDE DEF call, entry
  <2> QED BY <1>1, <1>2, <1>3, <1>5, <2>1, <2>2 DEF PermissionInv, EntriesExpire
<1>8. permissionBreaker' \in [state : {"closed", "open", "half-open"},
                              consecutiveFailures : Nat, lastFailureAt : Nat]
  BY <1>1 DEF PermissionInv, PermissionTypes, ClosedCircuit
<1>9. PermissionTypes' /\ CallsAreBounded' /\ AnswersAreRecent'
  <2> HIDE DEF call, entry
  <2>1. \A t \in Tools : permissionCache'[t].result \in {"none", "allow", "deny"}
    BY <1>6 DEF Verdicts
  <2> QED BY <1>1, <1>6, <1>8, <2>1, EndsKeeps DEF call, PermissionInv, PermissionTypes, PermissionTypeOK
<1>10. BreakerIsSound'
  <2>1. CASE call.kind = "check"
    BY <1>1, <2>1 DEF BreakerIsSound, ClosedCircuit
  <2>2. CASE call.kind = "grant"
    <3>1. permissionBreaker' = permissionBreaker
      BY <1>1, <2>2
    <3>2. \A d \in Calls : permissionCalls[d].kind = "check" => permissionCalls'[d] = permissionCalls[d]
      BY <1>1, <2>2, EndsKeeps
    <3> QED BY <1>1, <3>1, <3>2 DEF PermissionInv, BreakerIsSound
  <2> QED BY <1>2, <2>1, <2>2
<1> QED BY <1>7, <1>9, <1>10 DEF PermissionInv

LEMMA FailsKeeps == ASSUME PermissionInv, NEW c \in Calls, CheckFails(c) PROVE PermissionInv'
<1> USE PermissionAssumption
<1>1. /\ permissionCalls[c] # NoCall
      /\ permissionCalls' = [permissionCalls EXCEPT ![c] = NoCall]
      /\ permissionBreaker' = IF permissionCalls[c].kind = "check"
                              THEN CountFailure(permissionBreaker) ELSE permissionBreaker
      /\ UNCHANGED <<clock, checkSession, policy, policyChangedAt, permissionCache>>
  BY DEF CheckFails
<1>2. clock \in Nat /\ permissionBreaker.consecutiveFailures \in Nat
      /\ permissionBreaker.state \in {"closed", "open", "half-open"}
      /\ permissionCalls[c].kind \in {"check", "grant"}
  BY <1>1 DEF PermissionInv, PermissionTypes, PermissionTypeOK
<1>3. permissionBreaker' \in [state : {"closed", "open", "half-open"},
                              consecutiveFailures : Nat, lastFailureAt : Nat]
  BY <1>1, <1>2 DEF PermissionInv, PermissionTypes, CountFailure
<1>4. PermissionTypes' /\ CallsAreBounded' /\ AnswersAreRecent'
  BY <1>1, <1>3, EndsKeeps DEF PermissionInv, PermissionTypes, PermissionTypeOK
<1>5. EntriesExpire'
  BY <1>1 DEF PermissionInv, EntriesExpire
<1>6. BreakerIsSound'
  <2>1. CASE permissionCalls[c].kind = "check"
    BY <1>1, <1>2, <2>1 DEF PermissionInv, BreakerIsSound, CountFailure
  <2>2. CASE permissionCalls[c].kind = "grant"
    <3>1. permissionBreaker' = permissionBreaker
      BY <1>1, <2>2
    <3>2. \A d \in Calls : permissionCalls[d].kind = "check" => permissionCalls'[d] = permissionCalls[d]
      BY <1>1, <2>2, EndsKeeps
    <3> QED BY <1>1, <3>1, <3>2 DEF PermissionInv, BreakerIsSound
  <2> QED BY <1>2, <2>1, <2>2
<1> QED BY <1>4, <1>5, <1>6 DEF PermissionInv

-----------------------------------------------------------------------------
LEMMA PermissionStep ==
  ASSUME PermissionInv, [PermissionNext]_permissionVars PROVE PermissionInv'
<1>1. CASE UNCHANGED permissionVars
  BY <1>1 DEF permissionVars, PermissionInv, PermissionTypes, PermissionTypeOK,
              CallsAreBounded, AnswersAreRecent, EntriesExpire, BreakerIsSound, Timeout
<1> QED
  BY <1>1, NextSessionKeeps, ClockKeeps, PolicyKeeps, AnswerKeeps, HereKeeps, CheckKeeps,
     AskKeeps, AnsweredKeeps, FailsKeeps DEF PermissionNext

LEMMA FreshPermissions == PermissionInv => PermissionsAreFresh
<1> SUFFICES ASSUME PermissionInv, NEW t \in Tools, Cached(t),
                    permissionCache[t].session = checkSession,
                    policy[t] # permissionCache[t].result
             PROVE  policyChangedAt[t] # NoTime
                      /\ clock < policyChangedAt[t] + cacheTTL + LongestCall
  BY DEF PermissionsAreFresh, LongestCall, PermissionInv, BreakerIsSound
<1>1. /\ policyChangedAt[t] # NoTime
      /\ permissionCache[t].expiresAt <= policyChangedAt[t] + cacheTTL + LongestCall
  BY DEF PermissionInv, EntriesExpire, Cached
<1>2. policyChangedAt[t] \in Nat /\ permissionCache[t].expiresAt \in Nat /\ clock \in Nat
  BY <1>1 DEF PermissionInv, PermissionTypes, PermissionTypeOK
<1>3. LongestCall \in Nat /\ cacheTTL \in Nat
  BY PermissionAssumption DEF LongestCall
<1> QED BY <1>1, <1>2, <1>3 DEF Cached

(* Sessions, their calls and Nexus keep the invariant.                      *)
THEOREM PermissionInvariant == PermissionSpec => []PermissionInv
BY PermissionInitially, PermissionStep, PTL DEF PermissionSpec

(* The middleware's cache, breaker and calls are well-formed.               *)
THEOREM PermissionTypeCorrect == PermissionSpec => []PermissionTypeOK
<1>1. PermissionInv => PermissionTypeOK
  BY DEF PermissionInv, PermissionTypes
<1>2. QED
  BY <1>1, PermissionInvariant, PTL

-----------------------------------------------------------------------------
(* What a person allowed stays counted, and what Nexus said is believed for *)
(* no longer than the time to live and a call take (exec-approvals and      *)
(* permissions middleware.ts).                                              *)
THEOREM DecisionsStayRemembered == DecisionsSpec => []DecisionsAreRemembered
<1>1. ApprovalsInv /\ PermissionInv => DecisionsAreRemembered
  BY CountedApprovals, FreshPermissions DEF DecisionsAreRemembered
<1>2. QED
  BY <1>1, ApprovalsInvariant, PermissionInvariant, PTL DEF DecisionsSpec

-----------------------------------------------------------------------------
(* LongRunning.                                                             *)

Numbers == 1..progressEntries

ProgressSaves == [next : {"archive read", "active"}, what : Seq(Numbers), item : Numbers]
ArchiveSaves == [next : {"archive"}, what : Seq(Numbers), item : Numbers,
                 merged : Seq(Numbers)]
FeatureSaves == [next : {"features"}, what : SUBSET Features, item : Features]

SavesTyped ==
  /\ saves \subseteq ProgressSaves \union ArchiveSaves \union FeatureSaves
  /\ IsFiniteSet(saves) /\ Cardinality(saves) <= MaxSaves

SessionTyped ==
  /\ harnessMode \in {"none", "initializer", "coder"}
  /\ harnessMode = "coder" => featureList # NoList
  /\ progressFile \in Seq(Numbers) /\ featureList \in {NoList} \union SUBSET Features
  /\ marked \in 0..MaxActiveFeatures

FilesTyped ==
  /\ activeFile \in Seq(Numbers) /\ archiveFile \in Seq(Numbers)
  /\ featureFile \in {NoList} \union SUBSET Features
  /\ progressEntries \in 0..MaxEntries /\ crashes \in 0..MaxCrashes
  /\ mixed \in BOOLEAN

(* Every call has its own writes to itself: it saves the lists of the       *)
(* session as they are, and what it takes out of one file is in another.    *)
OneSave == \A s, t \in saves : s = t

SaveIsWhole(s) ==
  /\ s.next = "features" =>
       harnessMode = "coder" /\ s.what = featureList /\ s.item \in s.what
  /\ s.next # "features" =>
       /\ harnessMode # "none" /\ s.what = progressFile
       /\ s.item \in Range(InWindow(s.what))
  /\ s.next \in {"archive read", "archive"} => Len(s.what) > Window
  /\ s.next = "archive" =>
       Range(archiveFile) \union Range(Overflow(s.what)) \subseteq Range(s.merged)
  /\ s.next = "active" =>
       Range(s.what) \subseteq Range(InWindow(s.what)) \union Range(archiveFile)

SessionHasFiles ==
  /\ harnessMode # "none" => Range(activeFile) \subseteq Range(progressFile)
  /\ harnessMode = "coder" => featureFile \subseteq featureList \union NoList

SavedAreKept ==
  /\ saved \subseteq OnDisk \union cut
  /\ 0 \notin saved

SavesInv ==
  /\ SavesTyped /\ SessionTyped /\ FilesTyped
  /\ ~mixed => /\ OneSave /\ \A s \in saves : SaveIsWhole(s)
               /\ SessionHasFiles /\ SavedAreKept

-----------------------------------------------------------------------------
LEMMA SeqGrows ==
  ASSUME NEW S, NEW T, S \subseteq T, NEW s \in Seq(S)
  PROVE  s \in Seq(T)
OBVIOUS

(* The members of a sequence that is made of others.                        *)
LEMMA RangeOfSequence ==
  ASSUME NEW S, NEW s \in Seq(S)
  PROVE  Range(s) \subseteq S /\ Range(s) = {s[i] : i \in 1..Len(s)}
BY DEF Range

LEMMA RangeOfAppend ==
  ASSUME NEW S, NEW s \in Seq(S), NEW e \in S
  PROVE  Append(s, e) \in Seq(S) /\ Range(Append(s, e)) = Range(s) \union {e}
<1>1. /\ Append(s, e) \in Seq(S) /\ Len(Append(s, e)) = Len(s) + 1 /\ Len(s) \in Nat
      /\ \A i \in 1..Len(s) : Append(s, e)[i] = s[i]
      /\ Append(s, e)[Len(s) + 1] = e
  OBVIOUS
<1>2. /\ Range(Append(s, e)) = {Append(s, e)[i] : i \in 1..Len(s) + 1}
      /\ Range(s) = {s[i] : i \in 1..Len(s)}
  BY <1>1, RangeOfSequence
<1>3. 1..Len(s) + 1 = 1..Len(s) \union {Len(s) + 1}
  BY <1>1
<1> HIDE DEF Range
<1>4. QED
  BY <1>1, <1>2, <1>3

LEMMA RangeOfConcat ==
  ASSUME NEW S, NEW s \in Seq(S), NEW t \in Seq(S)
  PROVE  s \o t \in Seq(S) /\ Range(s \o t) = Range(s) \union Range(t)
<1>1. /\ s \o t \in Seq(S) /\ Len(s \o t) = Len(s) + Len(t)
      /\ Len(s) \in Nat /\ Len(t) \in Nat
      /\ \A i \in 1..Len(s) : (s \o t)[i] = s[i]
      /\ \A i \in 1..Len(t) : (s \o t)[Len(s) + i] = t[i]
  OBVIOUS
<1>2. /\ Range(s \o t) = {(s \o t)[i] : i \in 1..Len(s \o t)}
      /\ Range(s) = {s[i] : i \in 1..Len(s)} /\ Range(t) = {t[i] : i \in 1..Len(t)}
  BY <1>1, RangeOfSequence
<1>3. ASSUME NEW i \in 1..Len(s \o t)
      PROVE  (s \o t)[i] \in Range(s) \union Range(t)
  <2>1. CASE i \in 1..Len(s)
    BY <1>1, <1>2, <2>1
  <2>2. CASE i \notin 1..Len(s)
    <3>1. i - Len(s) \in 1..Len(t) /\ i = Len(s) + (i - Len(s))
      BY <1>1, <2>2
    <3>2. (s \o t)[i] = t[i - Len(s)]
      BY <1>1, <3>1
    <3>3. QED
      BY <1>2, <3>1, <3>2
  <2>3. QED
    BY <2>1, <2>2
<1>4. ASSUME NEW i \in 1..Len(s) PROVE s[i] \in Range(s \o t)
  <2>1. i \in 1..Len(s \o t) /\ (s \o t)[i] = s[i]
    BY <1>1
  <2>2. QED
    BY <1>2, <2>1
<1>5. ASSUME NEW i \in 1..Len(t) PROVE t[i] \in Range(s \o t)
  <2>1. Len(s) + i \in 1..Len(s \o t) /\ (s \o t)[Len(s) + i] = t[i]
    BY <1>1
  <2>2. QED
    BY <1>2, <2>1
<1>6. QED
  BY <1>1, <1>2, <1>3, <1>4, <1>5

(* The window and what overflows it are all there is.                       *)
LEMMA WindowSplits ==
  ASSUME NEW S, NEW all \in Seq(S)
  PROVE  /\ InWindow(all) \in Seq(S) /\ Range(InWindow(all)) \subseteq Range(all)
         /\ Overflow(all) \in Seq(S)
         /\ Len(all) > Window =>
              Range(all) \subseteq Range(InWindow(all)) \union Range(Overflow(all))
         /\ Len(all) <= Window => InWindow(all) = all
         /\ all # <<>> => all[Len(all)] \in Range(InWindow(all))
<1> USE WindowAssumption
<1>0. Len(all) \in Nat /\ \A i \in 1..Len(all) : all[i] \in S
  OBVIOUS
<1>1. CASE Len(all) <= Window
  <2>1. InWindow(all) = all
    BY <1>0, <1>1 DEF InWindow
  <2>2. all # <<>> => Len(all) \in 1..Len(all)
    BY <1>0
  <2>3. Range(all) = {all[i] : i \in 1..Len(all)}
    BY RangeOfSequence
  <2>4. QED
    <3>1. Overflow(all) = <<>>
      BY <1>0, <1>1 DEF Overflow
    <3>2. QED
      BY <1>0, <1>1, <2>1, <2>2, <2>3, <3>1
<1>2. CASE Len(all) > Window
  <2> DEFINE n == Len(all) - Window
             front == SubSeq(all, 1, n)
             tail == SubSeq(all, n + 1, Len(all))
  <2>1. n \in Nat /\ n >= 1 /\ n < Len(all)
    BY <1>0, <1>2
  <2>2. InWindow(all) = tail /\ Overflow(all) = front
    BY <1>0, <1>2 DEF InWindow, Overflow
  <2>3. /\ front \in Seq(S) /\ Len(front) = n
        /\ \A i \in 1..n : front[i] = all[i]
    BY <1>0, <2>1
  <2>4. /\ tail \in Seq(S) /\ Len(tail) = Window
        /\ \A i \in 1..Window : tail[i] = all[n + i]
    BY <1>0, <2>1
  <2> HIDE DEF front, tail
  <2>5. /\ Range(tail) = {tail[i] : i \in 1..Window}
        /\ Range(front) = {front[i] : i \in 1..n}
        /\ Range(all) = {all[i] : i \in 1..Len(all)}
    <3>1. Range(tail) = {tail[i] : i \in 1..Window}
      BY <2>4, RangeOfSequence
    <3>2. Range(front) = {front[i] : i \in 1..n}
      BY <2>3, RangeOfSequence
    <3>3. Range(all) = {all[i] : i \in 1..Len(all)}
      BY RangeOfSequence
    <3> QED BY <3>1, <3>2, <3>3
  <2>6. \A i \in 1..Len(all) : all[i] \in Range(tail) \union Range(front)
    <3> SUFFICES ASSUME NEW i \in 1..Len(all)
                 PROVE  all[i] \in Range(tail) \union Range(front)
      OBVIOUS
    <3>1. CASE i <= n
      BY <2>1, <2>3, <2>5, <3>1
    <3>2. CASE i > n
      <4>1. i - n \in 1..Window /\ n + (i - n) = i
        BY <1>0, <2>1, <3>2
      <4>2. tail[i - n] = all[i]
        BY <2>4, <4>1
      <4>3. QED
        BY <2>5, <4>1, <4>2
    <3>3. QED
      BY <2>1, <3>1, <3>2
  <2>7. \A i \in 1..Window : tail[i] \in Range(all)
    <3> SUFFICES ASSUME NEW i \in 1..Window PROVE tail[i] \in Range(all)
      OBVIOUS
    <3>1. n + i \in 1..Len(all)
      BY <1>0, <2>1
    <3>2. QED
      BY <2>4, <2>5, <3>1
  <2>8. all[Len(all)] \in Range(tail)
    <3>1. Window \in 1..Window /\ n + Window = Len(all)
      BY <1>0
    <3>2. tail[Window] = all[Len(all)]
      BY <2>4, <3>1
    <3>3. QED
      BY <2>5, <3>1, <3>2
  <2>9. Range(tail) \subseteq Range(all) /\ Range(all) \subseteq Range(tail) \union Range(front)
    <3> HIDE DEF n
    <3>1. QED
      BY <2>5, <2>6, <2>7
  <2>10. ~(Len(all) <= Window)
    BY <1>0, <1>2
  <2>11. QED
    BY <1>2, <2>2, <2>3, <2>4, <2>8, <2>9, <2>10
<1>3. QED
  BY <1>0, <1>1, <1>2

-----------------------------------------------------------------------------
LEMMA SavesStart == HarnessInit => SavesInv
<1> SUFFICES ASSUME HarnessInit PROVE SavesInv
  OBVIOUS
<1>1. IsFiniteSet({}) /\ Cardinality({}) = 0
  BY FS_EmptySet
<1>2. SavesTyped
  BY <1>1, WindowAssumption DEF HarnessInit, SavesTyped
<1>3. SessionTyped /\ FilesTyped
  <2>1. <<>> \in Seq(Numbers) /\ 0 \in 0..MaxEntries /\ 0 \in 0..MaxCrashes
        /\ 0 \in 0..MaxActiveFeatures
    BY WindowAssumption
  <2>2. SessionTyped
    BY <2>1 DEF HarnessInit, SessionTyped
  <2>3. FilesTyped
    BY <2>1 DEF HarnessInit, FilesTyped
  <2>4. QED
    BY <2>2, <2>3
<1>4. OneSave /\ SessionHasFiles /\ SavedAreKept /\ \A s \in saves : SaveIsWhole(s)
  BY DEF HarnessInit, OneSave, SessionHasFiles, SavedAreKept
<1>5. QED
  BY <1>2, <1>3, <1>4 DEF SavesInv

(* A call that begins fits, and one that goes on takes the place it had.    *)
LEMMA SaveFits ==
  ASSUME SavesTyped, Cardinality(saves) < MaxSaves, NEW save
  PROVE  /\ IsFiniteSet(saves \union {save})
         /\ Cardinality(saves \union {save}) <= MaxSaves
<1>1. /\ IsFiniteSet(saves \union {save})
      /\ Cardinality(saves \union {save}) \in {Cardinality(saves), Cardinality(saves) + 1}
  BY FS_AddElement DEF SavesTyped
<1>2. Cardinality(saves) \in Nat
  BY FS_CardinalityType DEF SavesTyped
<1>3. QED
  BY <1>1, <1>2, WindowAssumption DEF SavesTyped

LEMMA SaveGoesOn ==
  ASSUME SavesTyped, NEW s \in saves, NEW save
  PROVE  /\ IsFiniteSet(saves \ {s}) /\ Cardinality(saves \ {s}) <= MaxSaves
         /\ IsFiniteSet((saves \ {s}) \union {save})
         /\ Cardinality((saves \ {s}) \union {save}) <= MaxSaves
<1>1. Cardinality(saves) \in Nat /\ IsFiniteSet(saves) /\ Cardinality(saves) <= MaxSaves
  BY FS_CardinalityType DEF SavesTyped
<1>2. IsFiniteSet(saves \ {s}) /\ Cardinality(saves \ {s}) = Cardinality(saves) - 1
  BY <1>1, FS_RemoveElement
<1>3. /\ IsFiniteSet((saves \ {s}) \union {save})
      /\ Cardinality((saves \ {s}) \union {save})
           \in {Cardinality(saves \ {s}), Cardinality(saves \ {s}) + 1}
  BY <1>2, FS_AddElement
<1>4. QED
  BY <1>1, <1>2, <1>3, WindowAssumption

LEMMA SessionKeepsSaves ==
  ASSUME SavesInv,
         HarnessSessionStart \/ CreateFeatureList \/ UNCHANGED longRunningVars
  PROVE  SavesInv'
<1> USE DEF SavesInv
<1>1. CASE HarnessSessionStart
  <2>1. /\ UNCHANGED <<files, saves, progressEntries, crashes, saved, cut>>
        /\ mixed' = (mixed \/ saves # {})
    BY <1>1 DEF HarnessSessionStart
  <2>2. Numbers' = Numbers /\ SavesTyped'
    BY <2>1 DEF SavesTyped, Numbers, ProgressSaves, ArchiveSaves, FeatureSaves
  <2>3. SessionTyped' /\ FilesTyped'
    BY <1>1, <2>1, <2>2, WindowAssumption
       DEF HarnessSessionStart, SessionTyped, FilesTyped, files
  <2>4. ~mixed' => ~mixed /\ saves' = {}
    BY <2>1
  <2>5. SessionHasFiles'
    BY <1>1 DEF HarnessSessionStart, SessionHasFiles, files
  <2>6. SavedAreKept => SavedAreKept'
    BY <2>1 DEF SavedAreKept, OnDisk, Entries, files
  <2>7. ~mixed' => OneSave' /\ \A s \in saves' : SaveIsWhole(s)'
    BY <2>4 DEF OneSave
  <2>8. QED
    BY <2>2, <2>3, <2>4, <2>5, <2>6, <2>7
<1>2. CASE CreateFeatureList
  <2>1. /\ UNCHANGED <<sessionVars, activeFile, archiveFile, saves, progressEntries, crashes,
                       saved, cut, mixed>>
        /\ featureFile = NoList /\ featureFile' = {}
    BY <1>2 DEF CreateFeatureList
  <2>2. Numbers' = Numbers /\ SavesTyped'
    BY <2>1 DEF SavesTyped, Numbers, ProgressSaves, ArchiveSaves, FeatureSaves
  <2>3. SessionTyped' /\ FilesTyped'
    BY <2>1, <2>2 DEF SessionTyped, FilesTyped, sessionVars
  <2>4. \A s \in saves : SaveIsWhole(s) => SaveIsWhole(s)'
    BY <2>1 DEF SaveIsWhole, sessionVars
  <2>5. SessionHasFiles => SessionHasFiles'
    BY <2>1 DEF SessionHasFiles, sessionVars
  <2>6. SavedAreKept => SavedAreKept'
    BY <2>1 DEF SavedAreKept, OnDisk, Entries, NoList
  <2>7. OneSave => OneSave'
    BY <2>1 DEF OneSave
  <2>8. QED
    BY <2>1, <2>2, <2>3, <2>4, <2>5, <2>6, <2>7
<1>3. CASE UNCHANGED longRunningVars
  BY <1>3 DEF longRunningVars, sessionVars, files, SavesTyped, SessionTyped, FilesTyped,
              Numbers, ProgressSaves, ArchiveSaves, FeatureSaves, OneSave, SaveIsWhole,
              SessionHasFiles, SavedAreKept, OnDisk, Entries
<1>4. QED
  BY <1>1, <1>2, <1>3

LEMMA FeatureKeepsSaves ==
  ASSUME SavesInv, NEW f \in Features, UpdateFeatureStatus(f)
  PROVE  SavesInv'
<1> USE DEF SavesInv
<1> DEFINE save == [next |-> "features", what |-> featureList', item |-> f]
<1>1. /\ harnessMode = "coder" /\ marked < MaxActiveFeatures /\ marked' = marked + 1
      /\ featureList' = featureList \union {f}
      /\ Cardinality(saves) < MaxSaves
      /\ saves' = saves \union {save} /\ mixed' = (mixed \/ saves # {})
      /\ UNCHANGED <<harnessMode, progressFile, files, progressEntries, crashes, saved, cut>>
  BY DEF UpdateFeatureStatus, BeginSave
<1>2. featureList \subseteq Features /\ featureList' \subseteq Features
      /\ featureList' # NoList
  <2>1. featureList \subseteq Features
    BY <1>1 DEF SessionTyped
  <2>2. 0 \notin Features
    BY WindowAssumption
  <2>3. QED
    BY <1>1, <2>1, <2>2 DEF NoList
<1>3. SavesTyped'
  <2>1. save \in FeatureSaves
    BY <1>2 DEF FeatureSaves
  <2>2. Numbers' = Numbers
    BY <1>1 DEF Numbers
  <2> HIDE DEF save
  <2>3. QED
    BY <1>1, <2>1, <2>2, SaveFits DEF SavesTyped, ProgressSaves, ArchiveSaves, FeatureSaves
<1>4. SessionTyped' /\ FilesTyped'
  BY <1>1, <1>2, WindowAssumption DEF SessionTyped, FilesTyped, Numbers, files
<1>5. ASSUME ~mixed'
      PROVE  OneSave' /\ (\A s \in saves' : SaveIsWhole(s)') /\ SessionHasFiles' /\ SavedAreKept'
  <2>1. ~mixed /\ saves = {}
    BY <1>1, <1>5
  <2>2. saves' = {save}
    BY <1>1, <2>1
  <2>3. ASSUME NEW s \in saves' PROVE SaveIsWhole(s)'
    <3>1. s.next = "features" /\ s.what = featureList' /\ s.item = f
      BY <2>2
    <3>2. QED
      BY <1>1, <3>1 DEF SaveIsWhole
  <2>4. SessionHasFiles'
    BY <1>1, <2>1 DEF SessionHasFiles, files
  <2>5. SavedAreKept'
    BY <1>1, <2>1 DEF SavedAreKept, OnDisk, Entries, files
  <2> HIDE DEF save
  <2>6. OneSave'
    BY <2>2 DEF OneSave
  <2>7. QED
    BY <2>3, <2>4, <2>5, <2>6
<1>6. QED
  BY <1>3, <1>4, <1>5

LEMMA ProgressKeepsSaves ==
  ASSUME SavesInv, UpdateProgress
  PROVE  SavesInv'
<1> USE DEF SavesInv
<1> DEFINE save == [next |-> IF Len(progressFile') > Window THEN "archive read" ELSE "active",
                    what |-> progressFile', item |-> progressEntries']
<1>1. /\ harnessMode # "none" /\ progressEntries < MaxEntries
      /\ progressEntries' = progressEntries + 1
      /\ progressFile' = Append(progressFile, progressEntries')
      /\ Cardinality(saves) < MaxSaves
      /\ saves' = saves \union {save} /\ mixed' = (mixed \/ saves # {})
      /\ UNCHANGED <<harnessMode, featureList, marked, files, crashes, saved, cut>>
  BY DEF UpdateProgress, BeginSave, save
<1> HIDE DEF save
<1>2. progressEntries' \in 0..MaxEntries /\ Numbers \subseteq Numbers'
      /\ progressEntries' \in Numbers'
  <2>1. progressEntries \in 0..MaxEntries
    BY DEF FilesTyped
  <2>2. progressEntries' = progressEntries + 1 /\ progressEntries < MaxEntries
    BY <1>1
  <2>3. progressEntries' \in 0..MaxEntries /\ progressEntries \in Nat
    BY <2>1, <2>2, WindowAssumption
  <2>4. QED
    BY <2>2, <2>3 DEF Numbers
<1>3. Seq(Numbers) \subseteq Seq(Numbers')
  BY <1>2, SeqGrows
<1>4. /\ progressFile' \in Seq(Numbers')
      /\ Range(progressFile') = Range(progressFile) \union {progressEntries'}
      /\ progressFile' # <<>> /\ progressFile'[Len(progressFile')] = progressEntries'
  <2>1. progressFile \in Seq(Numbers')
    BY <1>3 DEF SessionTyped
  <2>2. QED
    <3>1. /\ progressFile' \in Seq(Numbers')
          /\ Range(progressFile') = Range(progressFile) \union {progressEntries'}
      BY <1>1, <1>2, <2>1, RangeOfAppend
    <3>2. progressFile' = Append(progressFile, progressEntries')
      BY <1>1
    <3>3. /\ Len(progressFile') = Len(progressFile) + 1 /\ Len(progressFile) \in Nat
          /\ progressFile'[Len(progressFile) + 1] = progressEntries'
      BY <2>1, <3>2
    <3>4. QED
      BY <3>1, <3>3
<1>5. SavesTyped'
  <2>1. save \in ProgressSaves'
    BY <1>2, <1>4 DEF ProgressSaves, save
  <2>2. /\ ProgressSaves \subseteq ProgressSaves' /\ ArchiveSaves \subseteq ArchiveSaves'
        /\ FeatureSaves' = FeatureSaves
    BY <1>2, <1>3 DEF ProgressSaves, ArchiveSaves, FeatureSaves
  <2> HIDE DEF save
  <2>3. QED
    BY <1>1, <2>1, <2>2, SaveFits DEF SavesTyped
<1>6. SessionTyped' /\ FilesTyped'
  BY <1>1, <1>2, <1>3, <1>4 DEF SessionTyped, FilesTyped, files
<1>7. ASSUME ~mixed'
      PROVE  OneSave' /\ (\A s \in saves' : SaveIsWhole(s)') /\ SessionHasFiles' /\ SavedAreKept'
  <2>1. ~mixed /\ saves = {}
    BY <1>1, <1>7
  <2>2. saves' = {save}
    BY <1>1, <2>1
  <2>3. /\ progressEntries' \in Range(InWindow(progressFile'))
        /\ Len(progressFile') <= Window => InWindow(progressFile') = progressFile'
    BY <1>4, WindowSplits
  <2>4. Len(progressFile') \in Nat /\ Window \in Nat
    BY <1>4, WindowAssumption
  <2>5. ASSUME NEW s \in saves' PROVE SaveIsWhole(s)'
    <3>0. s = save
      BY <2>2
    <3>1. /\ s.next = IF Len(progressFile') > Window THEN "archive read" ELSE "active"
          /\ s.what = progressFile' /\ s.item = progressEntries'
      BY <3>0 DEF save
    <3>2. harnessMode' # "none" /\ s.item \in Range(InWindow(s.what))
      BY <1>1, <2>3, <3>1
    <3>3. CASE Len(progressFile') > Window
      BY <3>1, <3>2, <3>3 DEF SaveIsWhole
    <3>4. CASE Len(progressFile') <= Window
      <4>1. s.next = "active" /\ InWindow(s.what) = s.what
        <5>1. ~(Len(progressFile') > Window)
          BY <2>4, <3>4
        <5>2. QED
          BY <2>3, <3>1, <3>4, <5>1
      <4>2. QED
        BY <3>1, <3>2, <4>1 DEF SaveIsWhole
    <3>5. QED
      BY <2>4, <3>3, <3>4
  <2>6. SessionHasFiles'
    BY <1>1, <1>4, <2>1 DEF SessionHasFiles, files
  <2>7. SavedAreKept'
    BY <1>1, <2>1 DEF SavedAreKept, OnDisk, Entries, files
  <2> HIDE DEF save
  <2>8. OneSave'
    BY <2>2 DEF OneSave
  <2>9. QED
    BY <2>5, <2>6, <2>7, <2>8
<1>8. QED
  BY <1>5, <1>6, <1>7

-----------------------------------------------------------------------------
LEMMA ReadArchiveKeeps ==
  ASSUME SavesInv, NEW s \in saves, ReadArchive(s)
  PROVE  SavesInv'
<1> USE DEF SavesInv
<1> DEFINE save == [next |-> "archive", what |-> s.what, item |-> s.item,
                    merged |-> archiveFile \o Overflow(s.what)]
<1>1. /\ s.next = "archive read"
      /\ saves' = (saves \ {s}) \union {save}
      /\ UNCHANGED <<sessionVars, files, progressEntries, crashes, saved, cut, mixed>>
  BY DEF ReadArchive
<1>2. s.what \in Seq(Numbers) /\ s.item \in Numbers
  BY <1>1 DEF SavesTyped, ProgressSaves, ArchiveSaves, FeatureSaves
<1>3. /\ archiveFile \in Seq(Numbers) /\ Overflow(s.what) \in Seq(Numbers)
      /\ save.merged \in Seq(Numbers)
      /\ Range(save.merged) = Range(archiveFile) \union Range(Overflow(s.what))
  <2>1. archiveFile \in Seq(Numbers) /\ Overflow(s.what) \in Seq(Numbers)
    BY <1>2, WindowSplits DEF FilesTyped
  <2>2. QED
    BY <2>1, RangeOfConcat
<1>4. save \in ArchiveSaves
  BY <1>2, <1>3 DEF ArchiveSaves
<1>5. /\ save.next = "archive" /\ save.what = s.what /\ save.item = s.item
  OBVIOUS
<1> HIDE DEF save
<1>6. SavesTyped'
  BY <1>1, <1>4, SaveGoesOn DEF SavesTyped, Numbers, ProgressSaves, ArchiveSaves, FeatureSaves
<1>7. SessionTyped' /\ FilesTyped'
  BY <1>1 DEF SessionTyped, FilesTyped, Numbers, sessionVars, files
<1>8. ASSUME ~mixed'
      PROVE  OneSave' /\ (\A t \in saves' : SaveIsWhole(t)') /\ SessionHasFiles' /\ SavedAreKept'
  <2>1. ~mixed /\ saves' = {save}
    BY <1>1, <1>8 DEF OneSave
  <2>2. ASSUME NEW t \in saves' PROVE SaveIsWhole(t)'
    <3>1. t = save /\ SaveIsWhole(s)
      BY <2>1, <2>2
    <3>2. QED
      BY <1>1, <1>3, <1>5, <3>1 DEF SaveIsWhole, sessionVars, files
  <2>3. SessionHasFiles' /\ SavedAreKept'
    BY <1>1, <2>1 DEF SessionHasFiles, SavedAreKept, OnDisk, Entries, sessionVars, files
  <2>4. QED
    BY <2>1, <2>2, <2>3 DEF OneSave
<1>9. QED
  BY <1>6, <1>7, <1>8

LEMMA WriteArchiveKeeps ==
  ASSUME SavesInv, NEW s \in saves, WriteArchive(s)
  PROVE  SavesInv'
<1> USE DEF SavesInv
<1> DEFINE save == [next |-> "active", what |-> s.what, item |-> s.item]
<1>1. /\ s.next = "archive" /\ archiveFile' = s.merged
      /\ saves' = (saves \ {s}) \union {save}
      /\ UNCHANGED <<sessionVars, activeFile, featureFile, progressEntries, crashes, saved, cut,
                     mixed>>
  BY DEF WriteArchive
<1>2. /\ s.what \in Seq(Numbers) /\ s.item \in Numbers /\ s.merged \in Seq(Numbers)
  BY <1>1 DEF SavesTyped, ProgressSaves, ArchiveSaves, FeatureSaves
<1>3. save \in ProgressSaves /\ Numbers' = Numbers
  BY <1>1, <1>2 DEF ProgressSaves, Numbers
<1>4. /\ save.next = "active" /\ save.what = s.what /\ save.item = s.item
  OBVIOUS
<1> HIDE DEF save
<1>5. SavesTyped'
  BY <1>1, <1>3, SaveGoesOn DEF SavesTyped, ProgressSaves, ArchiveSaves, FeatureSaves
<1>6. SessionTyped' /\ FilesTyped'
  BY <1>1, <1>2, <1>3 DEF SessionTyped, FilesTyped, sessionVars
<1>7. ASSUME ~mixed'
      PROVE  OneSave' /\ (\A t \in saves' : SaveIsWhole(t)') /\ SessionHasFiles' /\ SavedAreKept'
  <2>1. ~mixed /\ saves' = {save} /\ SaveIsWhole(s)
    BY <1>1, <1>7 DEF OneSave
  <2>2. /\ Range(archiveFile) \subseteq Range(archiveFile')
        /\ Range(Overflow(s.what)) \subseteq Range(archiveFile')
        /\ Len(s.what) > Window
    BY <1>1, <2>1 DEF SaveIsWhole
  <2>3. Range(s.what) \subseteq Range(InWindow(s.what)) \union Range(archiveFile')
    BY <1>2, <2>2, WindowSplits
  <2>4. ASSUME NEW t \in saves' PROVE SaveIsWhole(t)'
    <3>1. t = save
      BY <2>1, <2>4
    <3>2. QED
      BY <1>1, <1>4, <2>1, <2>3, <3>1 DEF SaveIsWhole, sessionVars
  <2>5. SessionHasFiles'
    BY <1>1, <2>1 DEF SessionHasFiles, sessionVars
  <2>6. OnDisk \subseteq OnDisk'
    BY <1>1, <2>2 DEF OnDisk, Entries
  <2>7. SavedAreKept'
    BY <1>1, <2>1, <2>6 DEF SavedAreKept
  <2>8. QED
    BY <2>1, <2>4, <2>5, <2>7 DEF OneSave
<1>8. QED
  BY <1>5, <1>6, <1>7

(* Nothing leaves the active file that is not in the archive.               *)
LEMMA WriteActiveKeeps ==
  ASSUME SavesInv, NEW s \in saves, WriteActive(s)
  PROVE  SavesInv'
<1> USE DEF SavesInv
<1>1. /\ s.next = "active" /\ activeFile' = InWindow(s.what)
      /\ saves' = saves \ {s} /\ saved' = saved \union {s.item}
      /\ UNCHANGED <<sessionVars, archiveFile, featureFile, progressEntries, crashes, cut, mixed>>
  BY DEF WriteActive
<1>2. /\ s.what \in Seq(Numbers) /\ s.item \in Numbers
  BY <1>1 DEF SavesTyped, ProgressSaves, ArchiveSaves, FeatureSaves
<1>3. /\ Numbers' = Numbers /\ activeFile' \in Seq(Numbers)
      /\ Range(activeFile') \subseteq Range(s.what)
  BY <1>1, <1>2, WindowSplits DEF Numbers
<1>4. SavesTyped'
  BY <1>1, <1>3, SaveGoesOn DEF SavesTyped, ProgressSaves, ArchiveSaves, FeatureSaves
<1>5. SessionTyped' /\ FilesTyped'
  BY <1>1, <1>3 DEF SessionTyped, FilesTyped, sessionVars
<1>6. ASSUME ~mixed'
      PROVE  OneSave' /\ (\A t \in saves' : SaveIsWhole(t)') /\ SessionHasFiles' /\ SavedAreKept'
  <2>1. ~mixed /\ saves' = {} /\ SaveIsWhole(s)
    BY <1>1, <1>6 DEF OneSave
  <2>2. /\ harnessMode # "none" /\ s.what = progressFile
        /\ s.item \in Range(activeFile')
        /\ Range(s.what) \subseteq Range(activeFile') \union Range(archiveFile)
    BY <1>1, <2>1 DEF SaveIsWhole
  <2>3. SessionHasFiles'
    BY <1>1, <1>3, <2>1, <2>2 DEF SessionHasFiles, sessionVars
  <2>4. Range(activeFile) \subseteq Range(s.what)
    BY <2>1, <2>2 DEF SessionHasFiles
  <2>5. OnDisk \subseteq OnDisk' /\ s.item \in OnDisk'
    BY <1>1, <2>2, <2>4 DEF OnDisk, Entries
  <2>6. 0 # s.item
    BY <1>2 DEF Numbers
  <2>7. SavedAreKept'
    BY <1>1, <2>1, <2>5, <2>6 DEF SavedAreKept
  <2>8. QED
    BY <2>1, <2>3, <2>7 DEF OneSave
<1>7. QED
  BY <1>4, <1>5, <1>6

LEMMA WriteFeaturesKeeps ==
  ASSUME SavesInv, NEW s \in saves, WriteFeatures(s)
  PROVE  SavesInv'
<1> USE DEF SavesInv
<1>1. /\ s.next = "features" /\ featureFile' = s.what
      /\ saves' = saves \ {s} /\ saved' = saved \union {s.item}
      /\ UNCHANGED <<sessionVars, activeFile, archiveFile, progressEntries, crashes, cut, mixed>>
  BY DEF WriteFeatures
<1>2. s.what \subseteq Features /\ s.item \in Features
  BY <1>1 DEF SavesTyped, ProgressSaves, ArchiveSaves, FeatureSaves
<1>3. Numbers' = Numbers
  BY <1>1 DEF Numbers
<1>4. SavesTyped'
  BY <1>1, <1>3, SaveGoesOn DEF SavesTyped, ProgressSaves, ArchiveSaves, FeatureSaves
<1>5. SessionTyped' /\ FilesTyped'
  BY <1>1, <1>2, <1>3 DEF SessionTyped, FilesTyped, sessionVars
<1>6. ASSUME ~mixed'
      PROVE  OneSave' /\ (\A t \in saves' : SaveIsWhole(t)') /\ SessionHasFiles' /\ SavedAreKept'
  <2>1. ~mixed /\ saves' = {} /\ SaveIsWhole(s)
    BY <1>1, <1>6 DEF OneSave
  <2>2. harnessMode = "coder" /\ s.what = featureList /\ s.item \in s.what
    BY <1>1, <2>1 DEF SaveIsWhole
  <2>3. SessionHasFiles'
    BY <1>1, <2>1, <2>2 DEF SessionHasFiles, sessionVars
  <2>4. OnDisk \ {0} \subseteq OnDisk' /\ s.item \in OnDisk'
    BY <1>1, <2>1, <2>2 DEF OnDisk, Entries, SessionHasFiles, NoList
  <2>5. 0 # s.item
    BY <1>2, WindowAssumption
  <2>6. SavedAreKept'
    BY <1>1, <2>1, <2>4, <2>5 DEF SavedAreKept
  <2>7. QED
    BY <2>1, <2>3, <2>6 DEF OneSave
<1>7. QED
  BY <1>4, <1>5, <1>6

(* A file is as it was or cut short, and what it held is then known as cut. *)
FilesAreCut ==
  /\ activeFile' \in {activeFile, <<>>} /\ archiveFile' \in {archiveFile, <<>>}
  /\ featureFile' \in {featureFile, NoList}
  /\ OnDisk \union cut \subseteq OnDisk' \union cut'

LEMMA DamageCuts ==
  ASSUME (\E s \in saves : Damage(s)) \/ UNCHANGED <<files, cut>>
  PROVE  FilesAreCut
<1>1. CASE UNCHANGED <<files, cut>>
  BY <1>1 DEF files, FilesAreCut, OnDisk, Entries
<1>2. ASSUME NEW s \in saves, Damage(s) PROVE FilesAreCut
  <2>1. cut' = cut \union (OnDisk \ OnDisk')
    BY <1>2 DEF Damage
  <2>2. OnDisk \union cut \subseteq OnDisk' \union cut'
    BY <2>1
  <2>3. QED
    BY <1>2, <2>2 DEF Damage, FilesAreCut
<1>3. QED
  BY <1>1, <1>2

LEMMA FailureKeepsSaves ==
  ASSUME SavesInv, HarnessCrash \/ \E s \in saves : WriteFails(s)
  PROVE  SavesInv'
<1> USE DEF SavesInv
<1>1. /\ FilesAreCut
      /\ UNCHANGED <<progressEntries, saved, mixed>>
  BY DamageCuts DEF HarnessCrash, WriteFails
<1>2. Numbers' = Numbers /\ <<>> \in Seq(Numbers)
  BY <1>1 DEF Numbers
<1>3. crashes' \in 0..MaxCrashes
  <2>1. crashes \in 0..MaxCrashes
    BY DEF FilesTyped
  <2>2. crashes' = crashes \/ (crashes < MaxCrashes /\ crashes' = crashes + 1)
    BY DEF HarnessCrash, WriteFails
  <2>3. QED
    BY <2>1, <2>2, WindowAssumption
<1>4. FilesTyped'
  BY <1>1, <1>2, <1>3 DEF FilesTyped, FilesAreCut
<1>5. SavedAreKept => SavedAreKept'
  BY <1>1 DEF SavedAreKept, FilesAreCut
<1>6. CASE HarnessCrash
  <2>1. /\ harnessMode' = "none" /\ progressFile' = <<>> /\ featureList' = NoList /\ marked' = 0
        /\ saves' = {}
    BY <1>6 DEF HarnessCrash
  <2>2. IsFiniteSet({}) /\ Cardinality({}) = 0
    BY FS_EmptySet
  <2>3. SavesTyped'
    BY <2>1, <2>2, WindowAssumption DEF SavesTyped
  <2>4. SessionTyped'
    BY <1>2, <2>1, WindowAssumption DEF SessionTyped
  <2>5. SessionHasFiles' /\ OneSave' /\ \A s \in saves' : SaveIsWhole(s)'
    BY <2>1 DEF SessionHasFiles, OneSave
  <2>6. QED
    BY <1>1, <1>4, <1>5, <2>3, <2>4, <2>5
<1>7. CASE \E s \in saves : WriteFails(s)
  <2>1. PICK s \in saves : saves' = saves \ {s} /\ UNCHANGED sessionVars
    BY <1>7 DEF WriteFails
  <2>2. SavesTyped'
    BY <1>2, <2>1, SaveGoesOn DEF SavesTyped, ProgressSaves, ArchiveSaves, FeatureSaves
  <2>3. SessionTyped'
    BY <1>2, <2>1 DEF SessionTyped, sessionVars
  <2>4. Range(<<>>) = {}
    BY DEF Range
  <2>5. SessionHasFiles => SessionHasFiles'
    BY <1>1, <2>1, <2>4 DEF SessionHasFiles, FilesAreCut, sessionVars
  <2>6. OneSave => saves' = {}
    BY <2>1 DEF OneSave
  <2>7. QED
    BY <1>1, <1>4, <1>5, <2>2, <2>3, <2>5, <2>6 DEF OneSave
<1>8. QED
  BY <1>6, <1>7

LEMMA SavesStep == SavesInv /\ [HarnessNext]_longRunningVars => SavesInv'
BY SessionKeepsSaves, FeatureKeepsSaves, ProgressKeepsSaves, ReadArchiveKeeps,
   WriteArchiveKeeps, WriteActiveKeeps, WriteFeaturesKeeps, FailureKeepsSaves
   DEF HarnessNext

(* Sessions, calls, their writes and crashes keep the invariant.            *)
THEOREM SavesInvariant == HarnessSpec => []SavesInv
BY SavesStart, SavesStep, PTL DEF HarnessSpec

(* The lists of a session, its files and the calls that write them are      *)
(* well-formed (packages/long-running/src/middleware.ts and tools.ts).      *)
THEOREM HarnessTypeCorrect == HarnessSpec => []HarnessTypeOK
<1>1. SavesInv => HarnessTypeOK
  <2> SUFFICES ASSUME SavesInv PROVE HarnessTypeOK
    OBVIOUS
  <2> USE DEF SavesInv
  <2>1. \A file \in {progressFile, activeFile, archiveFile} : Range(file) \subseteq Numbers
    BY RangeOfSequence DEF SessionTyped, FilesTyped
  <2>2. \A s \in saves : s.next \in {"archive read", "archive", "active", "features"}
    BY DEF SavesTyped, ProgressSaves, ArchiveSaves, FeatureSaves
  <2>3. QED
    BY <2>1, <2>2 DEF HarnessTypeOK, SavesTyped, SessionTyped, FilesTyped, Numbers
<1>2. QED
  BY <1>1, SavesInvariant, PTL

(* Unless calls overlapped, what a call that returned has saved is in a     *)
(* file or in one that was cut short, through crashes and failed writes     *)
(* (progress-file.ts writes the archive before it takes anything out of the *)
(* active file).                                                            *)
THEOREM SavedStaysOnDisk == HarnessSpec => []SavedIsOnDisk
<1>1. SavesInv => SavedIsOnDisk
  BY DEF SavesInv, SavedAreKept, SavedIsOnDisk
<1>2. QED
  BY <1>1, SavesInvariant, PTL

-----------------------------------------------------------------------------
(* The agent as a whole.  Its parts share no variable, so a behaviour of    *)
(* the agent is one of each part.                                           *)

(* A miner that is never asked has no sessions, which it may be given.      *)
LEMMA MinerIsIdle ==
  ASSUME sequences = <<>>, minSupport = 1, minLength = 1, maxLength = 1,
         results = {}, mined = FALSE
  PROVE  MiningInit
<1> DEFINE C == ListsOf(MinedTools, 0, MaxSessionCalls)
<1>1. MaxMined \in Nat \ {0} /\ MaxSessionCalls \in Nat \ {0}
  BY MiningAssumption
<1>2. <<>> \in [1..0 -> C]
  OBVIOUS
<1>3. 0 \in 0..MaxMined /\ 1 \in 1..MaxMined /\ 1 \in 1..MaxSessionCalls
  BY <1>1
<1> HIDE DEF C
<1>4. <<>> \in ListsOf(C, 0, MaxMined)
  BY <1>2, <1>3, Zenon DEF ListsOf
<1> QED BY <1>3, <1>4 DEF MiningInit, C

(* Every part of the agent keeps its types, whichever of them moves.        *)
THEOREM AgentStaysTyped == AgentSpec => []AgentTypeOK
<1>1. AgentInit => /\ RouterInit /\ PoolInit /\ BeatInit /\ ChannelInit /\ PayInit
                   /\ AuditInit /\ MemoryInit /\ ObserverInit /\ PairingInit
                   /\ MiningInit /\ HarnessInit /\ DevServersInit /\ BridgeInit
                   /\ GuardInit /\ LoopInit /\ CardsInit /\ TaskInit /\ ExecInit
                   /\ PermissionInit /\ HooksInit /\ AcpInit
  BY MinerIsIdle DEF AgentInit
<1>2. [AgentNext]_agentVars => /\ [RouterNext]_routerVars /\ [PoolNext]_poolVars
                               /\ [BeatNext]_heartbeatVars /\ [ChannelNext]_channelVars
                               /\ [PayNext]_payVars /\ [AuditNext]_auditVars
                               /\ [MemoryNext]_memoryVars /\ [ObserverNext]_observerVars
                               /\ [PairingNext]_pairingVars /\ [MiningNext]_miningVars
                               /\ [HarnessNext]_longRunningVars
                               /\ [DevServersNext]_devServerVars
                               /\ [BridgeNext]_bridgeVars /\ [GuardNext]_guardVars
                               /\ [LoopNext]_loopVars /\ [CardsNext]_cardVars
                               /\ [TaskNext]_taskVars /\ [ExecNext]_execVars
                               /\ [PermissionNext]_permissionVars
                               /\ [HooksNext]_hookVars /\ [AcpNext]_acpVars
  <2>1. CASE UNCHANGED agentVars
    BY <2>1 DEF agentVars, surroundings
  <2>2. CASE AgentNext
    BY <2>2 DEF AgentNext
  <2> QED BY <2>1, <2>2
<1>3. AgentInit /\ [][AgentNext]_agentVars => []RouterTypeOK
  BY <1>1, <1>2, RouterStaysTyped, PTL
<1>4. AgentInit /\ [][AgentNext]_agentVars => []PoolTypeOK
  BY <1>1, <1>2, PoolTypeCorrect, PTL DEF PoolSpec
<1>5. AgentInit /\ [][AgentNext]_agentVars => []BeatTypeOK
  BY <1>1, <1>2, BeatTypeCorrect, PTL DEF BeatSpec
<1>6. AgentInit /\ [][AgentNext]_agentVars => []ChannelTypeOK
  BY <1>1, <1>2, ChannelTypeCorrect, PTL DEF ChannelSpec
<1>7. AgentInit /\ [][AgentNext]_agentVars => []PayTypeOK
  BY <1>1, <1>2, PayTypeCorrect, PTL DEF PaySpec
<1>8. AgentInit /\ [][AgentNext]_agentVars => []AuditTypeOK
  BY <1>1, <1>2, AuditTypeCorrect, PTL DEF AuditSpec
<1>9. AgentInit /\ [][AgentNext]_agentVars => []MemoryTypeOK
  BY <1>1, <1>2, MemoryTypeCorrect, PTL DEF MemorySpec
<1>10. AgentInit /\ [][AgentNext]_agentVars => []ObserverTypeOK
  BY <1>1, <1>2, ObserverTypeCorrect, PTL DEF ObserverSpec
<1>11. AgentInit /\ [][AgentNext]_agentVars => []PairingTypeOK
  BY <1>1, <1>2, PairingTypeCorrect, PTL DEF PairingSpec
<1>12. AgentInit /\ [][AgentNext]_agentVars => []MiningTypeOK
  BY <1>1, <1>2, MiningTypeCorrect, PTL DEF MiningSpec
<1>13. AgentInit /\ [][AgentNext]_agentVars => []HarnessTypeOK
  BY <1>1, <1>2, HarnessTypeCorrect, PTL DEF HarnessSpec
<1>14. AgentInit /\ [][AgentNext]_agentVars => []DevServersTypeOK
  BY <1>1, <1>2, DevServersTypeCorrect, PTL DEF DevServersSpec
<1>15. AgentInit /\ [][AgentNext]_agentVars => []BridgeTypeOK
  BY <1>1, <1>2, BridgeTypeCorrect, PTL DEF BridgeSpec
<1>16. AgentInit /\ [][AgentNext]_agentVars => []GuardTypeOK
  BY <1>1, <1>2, GuardTypeCorrect, PTL DEF GuardSpec
<1>17. AgentInit /\ [][AgentNext]_agentVars => []LoopTypeOK
  BY <1>1, <1>2, LoopTypeCorrect, PTL DEF LoopSpec
<1>18. AgentInit /\ [][AgentNext]_agentVars => []CardsTypeOK
  BY <1>1, <1>2, CardsTypeCorrect, PTL DEF CardsSpec
<1>19. AgentInit /\ [][AgentNext]_agentVars => []TaskTypeOK
  BY <1>1, <1>2, TaskTypeCorrect, PTL DEF TaskSpec
<1>20. AgentInit /\ [][AgentNext]_agentVars => []ExecTypeOK
  BY <1>1, <1>2, ApprovalsTypeCorrect, PTL DEF ExecSpec
<1>21. AgentInit /\ [][AgentNext]_agentVars => []PermissionTypeOK
  BY <1>1, <1>2, PermissionTypeCorrect, PTL DEF PermissionSpec
<1>22. AgentInit /\ [][AgentNext]_agentVars => []HooksTypeOK
  BY <1>1, <1>2, HooksTypeCorrect, PTL DEF HooksSpec
<1>23. AgentInit /\ [][AgentNext]_agentVars => []AcpTypeOK
  BY <1>1, <1>2, AcpTypeCorrect, PTL DEF AcpSpec
<1>24. AgentInit /\ [][AgentNext]_agentVars => []AgentTypeOK
  BY <1>3, <1>4, <1>5, <1>6, <1>7, <1>8, <1>9, <1>10, <1>11, <1>12, <1>13, <1>14, <1>15,
     <1>16, <1>17, <1>18, <1>19, <1>20, <1>21, <1>22, <1>23,
     PTL DEF AgentTypeOK
<1> QED BY <1>24, PTL DEF AgentSpec
================================================================================
