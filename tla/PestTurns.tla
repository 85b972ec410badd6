------------------------------ MODULE PestTurns ------------------------------
(***************************************************************************)
(* Pest's brain: run_pest_turn of orchestrator/pest_brain/session.py.      *)
(*                                                                         *)
(* A turn is one message to Pest.  The event loop awaits it under a        *)
(* process-wide asyncio.Semaphore(1) and a wall-clock timeout; the agent   *)
(* itself runs on an OS thread (asyncio.to_thread), alternating between    *)
(* tool work and calls to the model.  A timeout abandons the await, not    *)
(* the thread: nothing can stop a running thread.                          *)
(*                                                                         *)
(* The semaphore is that of Python 3.12: release() hands it to the oldest  *)
(* waiter, whose task runs later; a newcomer never overtakes it.           *)
(***************************************************************************)
EXTENDS Naturals, Sequences, FiniteSets

CONSTANTS
  Turns,        \* messages to Pest (fewer than the executor's worker threads)
  MaxSteps      \* config.MAX_STEPS, calls to the model in one turn

ASSUME PestAssumption ==
  /\ IsFiniteSet(Turns)
  /\ MaxSteps \in Nat

VARIABLES
  stage,        \* the turn, as the event loop sees it
  agent,        \* the turn's OS thread
  steps,        \* calls the thread has made to the model
  turnQueue     \* _TURN_SEMAPHORE._waiters not yet woken, oldest first

pestVars == <<stage, agent, steps, turnQueue>>

\* The turn whose task holds the semaphore, or was handed it.
Holders == {t \in Turns : stage[t] \in {"granted", "running"}}

Asking == {t \in Turns : agent[t] = "asking"}

\* Threads that still run although their turn has been answered.
Abandoned ==
  {t \in Turns : stage[t] = "answered" /\ agent[t] \in {"thinking", "asking"}}

PestInit ==
  /\ stage = [t \in Turns |-> "new"]
  /\ agent = [t \in Turns |-> "none"]
  /\ steps = [t \in Turns |-> 0]
  /\ turnQueue = <<>>

-----------------------------------------------------------------------------
(* The event loop's side *)

\* Mutant: the semaphore is released, and the oldest waiter not woken.
AnswerOnly(t) ==
  /\ stage' = [stage EXCEPT ![t] = "answered"]
  /\ UNCHANGED turnQueue

\* The turn is answered and its task leaves the semaphore: the oldest waiter,
\* if any, is handed it.
AnswerAndHandOver(t) ==
  IF turnQueue = <<>>
  THEN /\ stage' = [stage EXCEPT ![t] = "answered"]
       /\ UNCHANGED turnQueue
  ELSE /\ stage' = [stage EXCEPT ![t] = "answered", ![Head(turnQueue)] = "granted"]
       /\ turnQueue' = Tail(turnQueue)

\* Mutant: the semaphore is per turn instead of process-wide.
TurnEntersAlways(t) ==
  /\ stage[t] = "new"
  /\ stage' = [stage EXCEPT ![t] = "running"]
  /\ agent' = [agent EXCEPT ![t] = "thinking"]
  /\ UNCHANGED <<steps, turnQueue>>

TurnEnters(t) ==
  /\ stage[t] = "new"
  /\ Holders = {}
  /\ stage' = [stage EXCEPT ![t] = "running"]
  /\ agent' = [agent EXCEPT ![t] = "thinking"]
  /\ UNCHANGED <<steps, turnQueue>>

TurnQueues(t) ==
  /\ stage[t] = "new"
  /\ Holders # {}
  /\ stage' = [stage EXCEPT ![t] = "queued"]
  /\ turnQueue' = Append(turnQueue, t)
  /\ UNCHANGED <<agent, steps>>

\* The woken task starts its thread.
TurnStarts(t) ==
  /\ stage[t] = "granted"
  /\ stage' = [stage EXCEPT ![t] = "running"]
  /\ agent' = [agent EXCEPT ![t] = "thinking"]
  /\ UNCHANGED <<steps, turnQueue>>

\* The thread's result, or its exception, reaches the task.
TurnReturns(t) ==
  /\ stage[t] = "running"
  /\ agent[t] = "ended"
  /\ AnswerAndHandOver(t)
  /\ UNCHANGED <<agent, steps>>

\* Mutant: the thread is awaited without a timeout.
TurnNeverTimesOut(t) == t \in {} /\ UNCHANGED pestVars

\* asyncio.wait_for gives up after TURN_TIMEOUT_S: say "" and go on.  The
\* thread may be anywhere; a result of the same instant is dropped.
TurnTimesOut(t) ==
  /\ stage[t] = "running"
  /\ AnswerAndHandOver(t)
  /\ UNCHANGED <<agent, steps>>

-----------------------------------------------------------------------------
(* The thread's side: Conversation.run() of the openhands SDK *)

AgentAsks(t) ==
  /\ agent[t] = "thinking"
  /\ steps[t] < MaxSteps
  /\ agent' = [agent EXCEPT ![t] = "asking"]
  /\ steps' = [steps EXCEPT ![t] = @ + 1]
  /\ UNCHANGED <<stage, turnQueue>>

AgentHears(t) ==
  /\ agent[t] = "asking"
  /\ agent' = [agent EXCEPT ![t] = "thinking"]
  /\ UNCHANGED <<stage, steps, turnQueue>>

AgentEnds(t) ==
  /\ agent[t] = "thinking"
  /\ agent' = [agent EXCEPT ![t] = "ended"]
  /\ UNCHANGED <<stage, steps, turnQueue>>

-----------------------------------------------------------------------------

PestNext ==
  \E t \in Turns :
    \/ TurnEnters(t)
    \/ TurnQueues(t)
    \/ TurnStarts(t)
    \/ TurnReturns(t)
    \/ TurnTimesOut(t)
    \/ AgentAsks(t)
    \/ AgentHears(t)
    \/ AgentEnds(t)

(***************************************************************************)
(* The loop runs its ready tasks and its timers.  No fairness is assumed   *)
(* of the agent threads: a tool or a call to the model may hang.           *)
(***************************************************************************)
PestFairness ==
  \A t \in Turns :
    /\ WF_pestVars(TurnStarts(t))
    /\ WF_pestVars(TurnReturns(t) \/ TurnTimesOut(t))

PestSpec == PestInit /\ [][PestNext]_pestVars /\ PestFairness

-----------------------------------------------------------------------------
(* Properties *)

PestTypeOK ==
  /\ stage \in [Turns -> {"new", "queued", "granted", "running", "answered"}]
  /\ agent \in [Turns -> {"none", "thinking", "asking", "ended"}]
  /\ steps \in [Turns -> 0 .. MaxSteps]
  /\ turnQueue \in Seq(Turns)

\* The semaphore does what it says for the tasks (session.py:39-43): at most
\* one turn is being awaited, and it is never free while a turn queues, so
\* that no timeout or error strands the messages behind it.
OneTurnAwaited ==
  /\ Cardinality(Holders) <= 1
  /\ (\E t \in Turns : stage[t] = "queued") => Holders # {}

\* Every message to Pest is answered, however long the messages before it
\* take and even if their threads never end (session.py:7-12).
EveryTurnAnswered ==
  \A t \in Turns : stage[t] # "new" ~> stage[t] = "answered"

=============================================================================
