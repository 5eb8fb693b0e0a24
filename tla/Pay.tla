---------------------------------- MODULE Pay ----------------------------------
(***************************************************************************)
(* NexusPayMiddleware (packages/middleware/src/pay/middleware.ts) and, as  *)
(* far as it shows, the ledger behind client.pay: before a turn credits    *)
(* are reserved, after it the cost is committed; without two-phase         *)
(* transfers it is debited.                                                *)
(*                                                                         *)
(* A call reaches the ledger, or not, at any time after it was made; its   *)
(* answer arrives before the timeout, or not.  The transfer that a turn    *)
(* reserves has the number of the turn.  A turn may fail outside, and then *)
(* onAfterTurn is not called.                                              *)
(***************************************************************************)
EXTENDS Naturals, FiniteSets

CONSTANTS
  DailyBudget,      \* dailyBudget
  Credits,          \* what the ledger holds at first
  Costs,            \* what a turn may cost
  DefaultEstimate,  \* defaultEstimatedCost
  Thresholds,       \* alertThresholds, in percent
  CheckEvery,       \* balanceCheckInterval
  MaxTurns          \* bound on the turns

(* A budget may be zero (validatePayConfig refuses negative ones), credits  *)
(* and costs are numbers of credits, and some turn costs the most.          *)
ASSUME PayAssumption ==
  /\ {DailyBudget, Credits, DefaultEstimate, MaxTurns} \subseteq Nat
  /\ Costs \subseteq Nat
  /\ \E most \in Costs \ {0} : \A c \in Costs : c <= most

VARIABLES
  hardLimit, twoPhase,        \* the configuration
  hook,             \* the call the session's hook awaits, or where it is between hooks
  ending,           \* that hook is onSessionEnd
  turnCount, balance, sessionCost,
  activeTransferId, \* the turn whose reservation is active, or NoTransfer
  cost,             \* actualCost of the turn that is being paid
  calls,            \* calls on their way to the ledger
  credits, held, charged      \* the ledger (external)

config  == <<hardLimit, twoPhase>>
ledger  == <<credits, held, charged>>
session == <<turnCount, balance, sessionCost, activeTransferId>>
payVars == <<config, hook, ending, session, cost, calls, ledger>>

NoTransfer  == 0
Turns == 1..MaxTurns
Hooks == {"none", "open", "turn", "over", "reserve", "commit", "release", "debit"}
Call(phase, turn, amount) == [phase |-> phase, turn |-> turn, amount |-> amount]
Minus(a, b) == IF a > b THEN a - b ELSE 0

PayInit ==
  /\ hardLimit \in BOOLEAN /\ twoPhase \in BOOLEAN
  /\ hook = "none" /\ ending = FALSE
  /\ turnCount = 0 /\ balance = 0 /\ sessionCost = 0 /\ activeTransferId = NoTransfer
  /\ cost = 0 /\ calls = {}
  /\ credits = Credits /\ held = [t \in Turns |-> 0] /\ charged = 0

-----------------------------------------------------------------------------
(* The ledger carries out a call it can carry out.                          *)
Performed(c) ==
  \/ /\ c.phase = "reserve" /\ credits >= c.amount
     /\ credits' = credits - c.amount
     /\ held' = [held EXCEPT ![c.turn] = c.amount]
     /\ UNCHANGED charged
  \/ /\ c.phase = "commit" /\ held[c.turn] > 0 /\ credits + held[c.turn] >= c.amount
     /\ credits' = (credits + held[c.turn]) - c.amount
     /\ held' = [held EXCEPT ![c.turn] = 0]
     /\ charged' = charged + c.amount
  \/ /\ c.phase = "release" /\ held[c.turn] > 0
     /\ credits' = credits + held[c.turn]
     /\ held' = [held EXCEPT ![c.turn] = 0]
     /\ UNCHANGED charged
  \/ /\ c.phase = "debit" /\ credits >= c.amount
     /\ credits' = credits - c.amount /\ charged' = charged + c.amount
     /\ UNCHANGED held

(* The call a hook awaits.                                                  *)
Awaited(c) == c \in calls /\ hook = c.phase /\ c.turn = turnCount

(* A call is carried out and nobody waits for its answer any more, or it    *)
(* will not arrive in time.                                                 *)
Lands(c) ==
  /\ c \in calls
  /\ calls' = calls \ {c}
  /\ Performed(c)
  /\ UNCHANGED <<config, hook, ending, session, cost>>

-----------------------------------------------------------------------------
(* onSessionStart: a balance that cannot be had ends it under a hard limit, *)
(* and is otherwise taken for the daily budget.                             *)
SessionStart ==
  /\ hook = "none"
  /\ \/ hook' = "open" /\ balance' = credits
     \/ hook' = "open" /\ ~hardLimit /\ balance' = DailyBudget
     \/ hook' = "over" /\ hardLimit /\ UNCHANGED balance
  /\ UNCHANGED <<config, ending, turnCount, sessionCost, activeTransferId, cost, calls, ledger>>

isBudgetExhausted == balance = 0 \/ sessionCost >= DailyBudget

(* The thresholds that have not fired; checkBudgetThresholds has run with   *)
(* every sessionCost.                                                       *)
Unfired == {t \in Thresholds : 100 * sessionCost < t * DailyBudget}

(* maybeReconcileBalance asks for the balance now.                          *)
Reconciles(turn) ==
  \/ turn % CheckEvery = 0
  \/ \E t \in Unfired : /\ \A u \in Unfired : t <= u
                        /\ 1000 * sessionCost >= 9 * t * DailyBudget

(* getEstimatedCost: the average so far, rounded up.                        *)
Estimate(turn) ==
  IF turn = 1 \/ sessionCost = 0 THEN DefaultEstimate
  ELSE (sessionCost + turn - 2) \div (turn - 1)

(* onBeforeTurn: it throws when the budget is exhausted ...                 *)
Refuse ==
  /\ hook = "open" /\ turnCount < MaxTurns
  /\ isBudgetExhausted /\ hardLimit
  /\ turnCount' = turnCount + 1
  /\ UNCHANGED <<config, hook, ending, balance, sessionCost, activeTransferId, cost, calls,
                 ledger>>

BeforeTurnUnlimited ==   \* mutant: an exhausted budget stops nobody
  /\ hook = "open" /\ turnCount < MaxTurns
  /\ turnCount' = turnCount + 1
  /\ \/ /\ twoPhase
        /\ hook' = "reserve"
        /\ calls' = calls \union {Call("reserve", turnCount', Estimate(turnCount'))}
        /\ UNCHANGED balance
     \/ /\ ~twoPhase
        /\ hook' = "turn"
        /\ \/ balance' = balance
           \/ Reconciles(turnCount') /\ balance' = credits
        /\ UNCHANGED calls
  /\ UNCHANGED <<config, ending, sessionCost, activeTransferId, cost, ledger>>

(* ... or reserves an estimate, or looks at the balance if it is time to.   *)
BeforeTurn ==
  /\ hook = "open" /\ turnCount < MaxTurns
  /\ ~(isBudgetExhausted /\ hardLimit)
  /\ turnCount' = turnCount + 1
  /\ \/ /\ twoPhase
        /\ hook' = "reserve"
        /\ calls' = calls \union {Call("reserve", turnCount', Estimate(turnCount'))}
        /\ UNCHANGED balance
     \/ /\ ~twoPhase
        /\ hook' = "turn"
        /\ \/ balance' = balance
           \/ Reconciles(turnCount') /\ balance' = credits
        /\ UNCHANGED calls
  /\ UNCHANGED <<config, ending, sessionCost, activeTransferId, cost, ledger>>

(* The reservation is made, and is now the active one.                      *)
Reserved(c) ==
  /\ Awaited(c) /\ c.phase = "reserve"
  /\ Performed(c) /\ calls' = calls \ {c}
  /\ activeTransferId' = turnCount /\ balance' = credits'
  /\ hook' = "turn"
  /\ UNCHANGED <<config, ending, turnCount, sessionCost, cost>>

(* handleReserveFailure, after an error or a timeout: no turn under a hard  *)
(* limit, else one without a reservation.                                   *)
ReserveFailed ==
  /\ hook = "reserve"
  /\ activeTransferId' = NoTransfer
  /\ hook' = IF hardLimit THEN "open" ELSE "turn"
  /\ UNCHANGED <<config, ending, turnCount, balance, sessionCost, cost, calls, ledger>>

(* The turn fails elsewhere: onAfterTurn is not called.                     *)
TurnFails ==
  /\ hook = "turn"
  /\ hook' = "open"
  /\ UNCHANGED <<config, ending, session, cost, calls, ledger>>

-----------------------------------------------------------------------------
(* The rest of onAfterTurn once the ledger said known, or nothing new: the  *)
(* cost is taken off the balance, from which a ledger that answered has     *)
(* taken it already.                                                        *)
Settle(paid, known) ==
  /\ hook' = "open"
  /\ sessionCost' = sessionCost + paid
  /\ balance' = Minus(known, paid)

AfterTurnDebitsToo ==   \* mutant: the debit is not an alternative to the commit
  /\ hook = "turn"
  /\ \E actual \in Costs :
       /\ cost' = actual
       /\ \/ /\ activeTransferId # NoTransfer
             /\ hook' = "commit"
             /\ calls' = calls \union {Call("commit", turnCount, actual),
                                       Call("debit", turnCount, actual)}
             /\ UNCHANGED <<balance, sessionCost>>
          \/ /\ activeTransferId = NoTransfer /\ actual > 0
             /\ hook' = "debit"
             /\ calls' = calls \union {Call("debit", turnCount, actual)}
             /\ UNCHANGED <<balance, sessionCost>>
          \/ /\ activeTransferId = NoTransfer /\ actual = 0
             /\ Settle(0, balance)
             /\ UNCHANGED calls
  /\ activeTransferId' = NoTransfer
  /\ UNCHANGED <<config, ending, turnCount, ledger>>

(* onAfterTurn up to its call: a commit to the active reservation, taken    *)
(* off at once, or the debit of a cost.                                     *)
AfterTurn ==
  /\ hook = "turn"
  /\ \E actual \in Costs :
       /\ cost' = actual
       /\ \/ /\ activeTransferId # NoTransfer
             /\ hook' = "commit"
             /\ calls' = calls \union {Call("commit", turnCount, actual)}
             /\ UNCHANGED <<balance, sessionCost>>
          \/ /\ activeTransferId = NoTransfer /\ actual > 0
             /\ hook' = "debit"
             /\ calls' = calls \union {Call("debit", turnCount, actual)}
             /\ UNCHANGED <<balance, sessionCost>>
          \/ /\ activeTransferId = NoTransfer /\ actual = 0
             /\ Settle(0, balance)
             /\ UNCHANGED calls
  /\ activeTransferId' = NoTransfer
  /\ UNCHANGED <<config, ending, turnCount, ledger>>

(* The ledger answers the commit or the debit with the balance.             *)
Paid(c) ==
  /\ Awaited(c) /\ c.phase \in {"commit", "debit"}
  /\ Performed(c) /\ calls' = calls \ {c}
  /\ Settle(cost, credits')
  /\ UNCHANGED <<config, ending, turnCount, activeTransferId, cost>>

(* A commit fails or is late: the transfer is released.                     *)
CommitFailed ==
  /\ hook = "commit"
  /\ hook' = "release"
  /\ calls' = calls \union {Call("release", turnCount, 0)}
  /\ UNCHANGED <<config, ending, session, cost, ledger>>

(* A debit fails or is late.                                                *)
DebitFailed ==
  /\ hook = "debit"
  /\ Settle(cost, balance)
  /\ UNCHANGED <<config, ending, turnCount, activeTransferId, cost, calls, ledger>>

(* onSessionEnd releases the active reservation, if there is one, and asks  *)
(* for the balance once more.                                               *)
SessionEnd ==
  /\ hook = "open"
  /\ ending' = TRUE
  /\ \/ /\ activeTransferId # NoTransfer
        /\ hook' = "release"
        /\ calls' = calls \union {Call("release", activeTransferId, 0)}
        /\ UNCHANGED balance
     \/ /\ activeTransferId = NoTransfer
        /\ hook' = "over" /\ balance' \in {balance, credits}
        /\ UNCHANGED calls
  /\ activeTransferId' = NoTransfer
  /\ UNCHANGED <<config, turnCount, sessionCost, cost, ledger>>

(* A release is answered, or given up (the calls it leaves may land still). *)
Released ==
  /\ hook = "release"
  /\ \/ ~ending /\ Settle(cost, balance)
     \/ /\ ending
        /\ hook' = "over" /\ balance' \in {balance, credits}
        /\ UNCHANGED sessionCost
  /\ UNCHANGED <<config, ending, turnCount, activeTransferId, cost, calls, ledger>>

PayNext ==
  \/ SessionStart \/ Refuse \/ BeforeTurn \/ ReserveFailed \/ TurnFails
  \/ AfterTurn \/ CommitFailed \/ DebitFailed \/ Released \/ SessionEnd
  \/ \E c \in calls : Lands(c) \/ Reserved(c) \/ Paid(c)

PaySpec == PayInit /\ [][PayNext]_payVars

-----------------------------------------------------------------------------
(* The variables keep their types.                                          *)
PayTypeOK ==
  /\ hardLimit \in BOOLEAN /\ twoPhase \in BOOLEAN /\ ending \in BOOLEAN
  /\ hook \in Hooks
  /\ turnCount \in 0..MaxTurns /\ activeTransferId \in 0..turnCount
  /\ UNION {{balance, sessionCost, credits, charged, cost}} \subseteq Nat
  /\ held \in [Turns -> Nat]
  /\ \A c \in calls : c.phase \in Hooks /\ c.turn \in Turns /\ c.amount \in Nat

(* Late and lost answers, retried settlements and turns that fail: the      *)
(* ledger never charges more than the session counts as its cost (with that *)
(* of the turn being paid), and under a hard limit the session overruns its *)
(* budget by less than one turn.                                            *)
ChargesAreAccounted ==
  /\ charged <= sessionCost + (IF hook \in {"commit", "debit", "release"} THEN cost ELSE 0)
  /\ hardLimit => \E most \in Costs : /\ \A c \in Costs : c <= most
                                     /\ sessionCost < DailyBudget + most

(* "Hard-stop agents when budget is exhausted (kill switch)": a turn is     *)
(* refused when the ledger has nothing left or the budget is spent.         *)
StopsWhenExhausted ==
  [][Refuse => credits = 0 \/ sessionCost >= DailyBudget]_payVars
================================================================================
