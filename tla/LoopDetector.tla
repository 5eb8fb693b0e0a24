------------------------------ MODULE LoopDetector -------------------------------
(***************************************************************************)
(* LoopDetector (packages/engine/src/loop-detector.ts) and the middleware  *)
(* that asks it after every turn: outputs and tool calls are kept in       *)
(* sliding windows, and a loop is reported when the last tool calls are a  *)
(* cycle repeated repeatThreshold times, or as many outputs are the same.  *)
(*                                                                         *)
(* The histories keep what the windows forget: an agent is in a loop or    *)
(* not whatever the detector remembers.  The 32-bit hash of an output is   *)
(* taken to tell outputs apart.                                            *)
(***************************************************************************)
EXTENDS Naturals, Sequences

CONSTANTS
  Outputs, ToolNames,
  TurnCalls,   \* outputs, and the sequences of tool calls of a turn
  LoopConfigs,          \* [windowSize, repeatThreshold, maxCycleLength]
  MaxLoopTurns      \* bound on the turns of a session

(* The constructor refuses other thresholds and windows.                    *)
ASSUME LoopAssumption ==
  /\ LoopConfigs \subseteq [windowSize : Nat \ {0}, repeatThreshold : Nat \ {0, 1},
                           maxCycleLength : Nat]
  /\ TurnCalls \subseteq Seq(ToolNames)
  /\ MaxLoopTurns \in Nat

VARIABLES
  loopConfig,
  outputHashes, toolCallHistory, iterationCount,
  detection,        \* of the last turn: "none", "tool_cycle" or "output_repeat"
  loopOutputs, loopCalls    \* history: all of this session

loopVars == <<loopConfig, outputHashes, toolCallHistory, iterationCount, detection, loopOutputs,
              loopCalls>>

LoopInit ==
  /\ loopConfig \in LoopConfigs
  /\ outputHashes = <<>> /\ toolCallHistory = <<>> /\ iterationCount = 0
  /\ detection = "none" /\ loopOutputs = <<>> /\ loopCalls = <<>>

-----------------------------------------------------------------------------
LastN(s, n) == SubSeq(s, IF Len(s) > n THEN Len(s) - n + 1 ELSE 1, Len(s))

(* checkToolCycle on a history: does it end in some cycle of a length the   *)
(* configuration allows?                                                    *)
EndsInCycle(history) ==
  \E length \in 1..loopConfig.maxCycleLength :
    LET needed == length * loopConfig.repeatThreshold
        tail == LastN(history, needed)
    IN /\ Len(history) >= needed
       /\ \A rep \in 1..(loopConfig.repeatThreshold - 1) : \A i \in 1..length :
            tail[rep * length + i] = tail[i]

(* checkOutputRepeat.                                                       *)
EndsInRepeat(hashes) ==
  LET recent == LastN(hashes, loopConfig.repeatThreshold)
  IN /\ Len(hashes) >= loopConfig.repeatThreshold
     /\ \A i \in DOMAIN recent : recent[i] = recent[1]

MaxHistoryShort ==      \* mutant: the window forgets the number of repetitions
  loopConfig.windowSize * loopConfig.maxCycleLength

MaxHistory == loopConfig.windowSize * loopConfig.maxCycleLength * loopConfig.repeatThreshold

(* recordAndCheck, after a turn.                                            *)
RecordAndCheck(output, toolCalls) ==
  /\ iterationCount < MaxLoopTurns
  /\ iterationCount' = iterationCount + 1
  /\ outputHashes' = LastN(Append(outputHashes, output), loopConfig.windowSize)
  /\ toolCallHistory' = LastN(toolCallHistory \o toolCalls, MaxHistory)
  /\ detection' =
       IF iterationCount' < loopConfig.repeatThreshold THEN "none"
       ELSE IF EndsInCycle(toolCallHistory') THEN "tool_cycle"
       ELSE IF EndsInRepeat(outputHashes') THEN "output_repeat"
       ELSE "none"
  /\ loopOutputs' = Append(loopOutputs, output)
  /\ loopCalls' = loopCalls \o toolCalls
  /\ UNCHANGED loopConfig

(* onSessionStart makes a new detector.                                     *)
NewDetector ==
  /\ outputHashes' = <<>> /\ toolCallHistory' = <<>> /\ iterationCount' = 0
  /\ detection' = "none" /\ loopOutputs' = <<>> /\ loopCalls' = <<>>
  /\ UNCHANGED loopConfig

LoopNext ==
  \/ \E output \in Outputs, toolCalls \in TurnCalls : RecordAndCheck(output, toolCalls)
  \/ NewDetector

LoopSpec == LoopInit /\ [][LoopNext]_loopVars

-----------------------------------------------------------------------------
LoopTypeOK ==
  /\ Len(outputHashes) <= loopConfig.windowSize
  /\ Len(toolCallHistory) <= loopConfig.windowSize * loopConfig.maxCycleLength
                               * loopConfig.repeatThreshold
  /\ iterationCount \in 0..MaxLoopTurns
  /\ detection \in {"none", "tool_cycle", "output_repeat"}

(* From the turn on that may report, a loop in the whole session is         *)
(* reported for what it is, and nothing else is.  Only a window shorter     *)
(* than the threshold, which the constructor accepts, never sees outputs    *)
(* repeat.                                                                  *)
LoopsAreSeen ==
  iterationCount >= loopConfig.repeatThreshold =>
    /\ detection = "tool_cycle" <=> EndsInCycle(loopCalls)
    /\ detection = "output_repeat" =>
         ~EndsInCycle(loopCalls) /\ EndsInRepeat(loopOutputs)
    /\ detection = "none" =>
         ~EndsInRepeat(loopOutputs) \/ loopConfig.windowSize < loopConfig.repeatThreshold
=============================================================================
