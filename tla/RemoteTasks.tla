------------------------------ MODULE RemoteTasks --------------------------------
(***************************************************************************)
(* Sending a message to a remote agent and waiting for the task it makes   *)
(* (A2AClient.sendMessage, getTask, cancelTask and pollUntilComplete,      *)
(* packages/a2a/src/a2a-client.ts).  Timers are punctual: time does not    *)
(* pass the moment a timer is set for.  A request has a timer until the    *)
(* headers of its answer are there; its body may take for ever.            *)
(***************************************************************************)
EXTENDS FiniteSetsExt, Naturals

CONSTANTS
  taskTimeout, requestTimeout, pollInterval, pollMaxInterval,
  MaxTaskTime       \* bound of this model

ASSUME TaskAssumption ==
  /\ taskTimeout \in Nat /\ requestTimeout \in Nat
  /\ pollInterval \in Nat /\ pollMaxInterval \in Nat /\ MaxTaskTime \in Nat

Terminal == {"completed", "failed", "canceled", "rejected"}
Paused   == {"input_required", "auth_required"}
States   == {"working"} \union Paused \union Terminal
TaskStages == {"idle", "post", "post body", "sleep", "get", "get body", "done"}

VARIABLES
  taskClock,
  task,             \* (external) the task at the agent, "none" before it is made
  taskStage,        \* what the call does: TaskStages
  taskTimer,        \* when the request is aborted or the sleep ends
  answer,           \* the state in the answer under way, "none" before the agent answers
  deadline, pollEvery,
  taskAborted,      \* signal.aborted
  outcome,          \* how the call ended
  answered          \* history: when the last answer was there in whole

taskVars ==
  <<taskClock, task, taskStage, taskTimer, answer, deadline, pollEvery, taskAborted, outcome,
    answered>>

TaskInit ==
  /\ taskClock = 0 /\ task = "none" /\ taskStage = "idle" /\ taskTimer = 0
  /\ answer = "none" /\ deadline = 0 /\ pollEvery = pollInterval /\ taskAborted = FALSE
  /\ outcome = "none" /\ answered = 0

Requesting == taskStage \in {"post", "get"}
Timed      == Requesting \/ taskStage = "sleep"

(* addJitter, the jitter less than a quarter.                               *)
Jittered(delay) == {delay + j : j \in {k \in 0..delay : 4 * k < delay}}

-----------------------------------------------------------------------------
CallEnds(how) ==
  /\ taskStage' = "done" /\ outcome' = how
  /\ UNCHANGED <<taskClock, task, taskTimer, answer, deadline, pollEvery, taskAborted>>

SendMessage ==
  /\ taskStage = "idle"
  /\ taskStage' = "post"
  /\ taskTimer' = taskClock + taskTimeout
  /\ UNCHANGED <<taskClock, task, answer, deadline, pollEvery, taskAborted, outcome, answered>>

(* The agent makes the task, or reads it, and answers; it may also refuse.  *)
AgentAnswers ==
  /\ Requesting /\ answer = "none"
  /\ task' \in IF task = "none" THEN States ELSE {task}
  /\ answer' \in {task', "error"}
  /\ UNCHANGED <<taskClock, taskStage, taskTimer, deadline, pollEvery, taskAborted, outcome,
                 answered>>

Headers ==
  /\ Requesting /\ answer # "none"
  /\ taskStage' = IF taskStage = "post" THEN "post body" ELSE "get body"
  /\ UNCHANGED <<taskClock, task, taskTimer, answer, deadline, pollEvery, taskAborted, outcome,
                 answered>>

(* The abort of the timer; network errors end the call the same way.        *)
RequestFails ==
  /\ Requesting
  /\ CallEnds(IF taskClock = taskTimer THEN "timeout" ELSE "error")
  /\ UNCHANGED answered

-----------------------------------------------------------------------------
(* The head of the loop: a sleep that ends by the deadline, or the end.     *)
PollUnclipped(until, every) ==     \* mutant: the delay is not cut at the deadline
  /\ \E delay \in Jittered(every) : taskTimer' = taskClock + delay
  /\ taskStage' = "sleep" /\ deadline' = until /\ pollEvery' = every
  /\ answer' = "none"
  /\ UNCHANGED outcome

Poll(until, every) ==
  /\ deadline' = until /\ pollEvery' = every
  /\ answer' = "none"
  /\ IF taskClock >= until
     THEN taskStage' = "done" /\ outcome' = "gave up" /\ UNCHANGED taskTimer
     ELSE IF taskAborted
     THEN taskStage' = "done" /\ outcome' = "aborted" /\ UNCHANGED taskTimer
     ELSE /\ \E delay \in Jittered(every) :
               taskTimer' = taskClock + Min({delay, until - taskClock})
          /\ taskStage' = "sleep"
          /\ UNCHANGED outcome

(* The first answer in whole: only a terminal state ends the call.          *)
Posted ==
  /\ taskStage = "post body"
  /\ answered' = taskClock
  /\ IF answer \in Terminal \union {"error"} THEN CallEnds(answer)
     ELSE /\ Poll(taskClock + taskTimeout, pollInterval)
          /\ UNCHANGED <<taskClock, task, taskAborted>>

WakePoll ==
  /\ taskStage = "sleep" /\ taskClock = taskTimer
  /\ taskStage' = "get"
  /\ taskTimer' = taskClock + requestTimeout
  /\ UNCHANGED <<taskClock, task, answer, deadline, pollEvery, taskAborted, outcome, answered>>

Got ==
  /\ taskStage = "get body"
  /\ answered' = taskClock
  /\ IF answer # "working" THEN CallEnds(answer)
     ELSE /\ Poll(deadline, Min({pollEvery * 2, pollMaxInterval}))
          /\ UNCHANGED <<taskClock, task, taskAborted>>

-----------------------------------------------------------------------------
(* A fetch under way is aborted at once; a sleep is not, and the fetch      *)
(* after it, whose signal has been aborted before, is not either.           *)
AbortTask ==
  /\ taskStage \notin {"idle", "done"} /\ ~taskAborted
  /\ taskAborted' = TRUE
  /\ IF Requesting THEN taskStage' = "done" /\ outcome' = "aborted"
     ELSE UNCHANGED <<taskStage, outcome>>
  /\ UNCHANGED <<taskClock, task, taskTimer, answer, deadline, pollEvery, answered>>

(* The agent works, asks for something, and ends the task; cancelTask too.  *)
TaskChanges ==
  /\ task \in {"working"} \union Paused
  /\ task' \in States \ {task}
  /\ UNCHANGED <<taskClock, taskStage, taskTimer, answer, deadline, pollEvery, taskAborted,
                 outcome, answered>>

TaskTick ==
  /\ taskStage \notin {"idle", "done"} /\ taskClock < MaxTaskTime
  /\ Timed => taskClock < taskTimer
  /\ taskClock' = taskClock + 1
  /\ UNCHANGED <<task, taskStage, taskTimer, answer, deadline, pollEvery, taskAborted, outcome,
                 answered>>

TaskNext ==
  \/ SendMessage \/ AgentAnswers \/ Headers \/ RequestFails \/ Posted \/ WakePoll \/ Got
  \/ AbortTask \/ TaskChanges \/ TaskTick

TaskSpec == TaskInit /\ [][TaskNext]_taskVars

-----------------------------------------------------------------------------
TaskTypeOK ==
  /\ taskClock \in 0..MaxTaskTime /\ task \in States \union {"none"}
  /\ taskStage \in TaskStages
  /\ answer \in States \union {"none", "error"}
  /\ (pollEvery = pollInterval \/ pollEvery \in 0..pollMaxInterval)
  /\ answered \in 0..taskClock /\ taskAborted \in BOOLEAN

(* The call never sleeps past its deadline and asks at most once after it;  *)
(* it gives up only when the deadline is past and an answer that came then  *)
(* still said the agent works; and an end it reports is the task's own.     *)
SendIsHonest ==
  /\ taskStage = "sleep" => taskClock <= deadline /\ taskTimer <= deadline
  /\ taskStage = "get" => taskClock <= deadline + requestTimeout
  /\ outcome = "gave up" =>
       answered >= deadline /\ deadline >= taskTimeout
  /\ outcome \in Terminal => outcome = task
=============================================================================
