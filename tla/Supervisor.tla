----------------------------- MODULE Supervisor -----------------------------
(***************************************************************************)
(* ConsumerSupervisor: the background workers of one process (`netengine   *)
(* up` or `netengine drift watch`), each a task of the asyncio loop that   *)
(* restarts its consumer with a growing delay, and stop_all, which the     *)
(* main coroutine runs on Ctrl-C while the other tasks go on.              *)
(***************************************************************************)
EXTENDS Integers

CONSTANTS Workers,     (* the names of workers                              *)
          Absorbing,   (* workers whose coroutine returns when cancelled,   *)
                       (* as MonitoringService.start does                   *)
          Healers,     (* workers that execute phases again, hence register *)
                       (* workers while the loop runs: drift_detection      *)
          BackoffBase, (* _BACKOFF_BASE                                     *)
          BackoffMax,  (* _BACKOFF_MAX                                      *)
          MaxWorkerCrashes
                       (* how often one worker crashes                      *)

ASSUME SupervisorAssumption ==
    /\ Absorbing \subseteq Workers
    /\ Healers \subseteq Workers \ Absorbing
    /\ BackoffBase \in Nat \ {0}
    /\ BackoffMax \in Nat
    /\ BackoffBase <= BackoffMax
    /\ MaxWorkerCrashes \in Nat

VARIABLES main,        (* the main coroutine                                *)
          consumers,   (* the names in self.consumers                       *)
          state,       (* the state in self._statuses, or "unknown"         *)
          restarts,    (* restarts in self._statuses                        *)
          task,        (* self.tasks: where each task is                    *)
          cancelled,   (* tasks that cancel() was called on, undelivered    *)
          delay,       (* the local variable delay of each task             *)
          unstopped    (* the tasks stop_all has not come to yet            *)

supervisorVars == <<main, consumers, state, restarts, task, cancelled, delay, unstopped>>

WorkerState == {"registered", "running", "failed", "disabled", "stopped", "completed"}

Started == {n \in Workers : task[n] # "none"}
Ended   == {n \in Workers : task[n] = "ended"}

SupervisorTypeOK ==
    /\ main \in {"booting", "serving", "stopping", "stopped"}
    /\ consumers \subseteq Workers
    /\ state \in [Workers -> WorkerState \cup {"unknown"}]
    /\ restarts \in [Workers -> 0 .. MaxWorkerCrashes]
    /\ task \in [Workers -> {"none", "inside", "backoff", "ended"}]
    /\ cancelled \subseteq Workers
    /\ delay \in [Workers -> BackoffBase .. BackoffMax]
    /\ unstopped \subseteq Workers

SupervisorInit ==
    /\ main = "booting"
    /\ consumers = {}
    /\ state = [n \in Workers |-> "unknown"]
    /\ restarts = [n \in Workers |-> 0]
    /\ task = [n \in Workers |-> "none"]
    /\ cancelled = {}
    /\ delay = [n \in Workers |-> BackoffBase]
    /\ unstopped = {}

-----------------------------------------------------------------------------
(* Registration: by the phases of `up`, and by a phase that a healer       *)
(* executes again in a process that has not started its workers.           *)
Registering(n) ==
    \/ main = "booting"
    \/ main \in {"serving", "stopping"} /\ n \notin Started
       /\ \E h \in Healers : task[h] = "inside"

Register(n) ==
    /\ Registering(n)
    /\ consumers' = consumers \cup {n}
    /\ state' = [state EXCEPT ![n] = "registered"]
    /\ restarts' = [restarts EXCEPT ![n] = 0]
    /\ UNCHANGED <<main, task, cancelled, delay, unstopped>>

RegisterDisabled(n) ==
    /\ Registering(n)
    /\ consumers' = consumers \ {n}
    /\ state' = [state EXCEPT ![n] = "disabled"]
    /\ restarts' = [restarts EXCEPT ![n] = 0]
    /\ UNCHANGED <<main, task, cancelled, delay, unstopped>>

(* start_all creates the tasks without giving up the loop; each runs into  *)
(* its consumer before anything can be cancelled, because the loop is FIFO.*)
StartAll ==
    /\ main = "booting"
    /\ main' = "serving"
    /\ LET starting == {n \in consumers : state[n] # "disabled"} IN
         /\ state' = [n \in Workers |-> IF n \in starting THEN "running" ELSE state[n]]
         /\ task' = [n \in Workers |-> IF n \in starting THEN "inside" ELSE task[n]]
         /\ restarts' = [n \in Workers |-> IF n \in starting THEN 0 ELSE restarts[n]]
    /\ UNCHANGED <<consumers, cancelled, delay, unstopped>>

Doubled(d) == IF d * 2 > BackoffMax THEN BackoffMax ELSE d * 2

(* The consumer raises: the task counts the restart and sleeps. *)
CrashWorker(n) ==
    /\ task[n] = "inside"
    /\ n \notin cancelled
    /\ restarts[n] < MaxWorkerCrashes
    /\ state' = [state EXCEPT ![n] = "failed"]
    /\ restarts' = [restarts EXCEPT ![n] = @ + 1]
    /\ task' = [task EXCEPT ![n] = "backoff"]
    /\ UNCHANGED <<main, consumers, cancelled, delay, unstopped>>

(* Defect: a worker is restarted once only. *)
RestartOnce(n) ==
    /\ task[n] = "backoff"
    /\ n \notin cancelled
    /\ restarts[n] <= 1
    /\ state' = [state EXCEPT ![n] = "running"]
    /\ task' = [task EXCEPT ![n] = "inside"]
    /\ delay' = [delay EXCEPT ![n] = Doubled(@)]
    /\ UNCHANGED <<main, consumers, restarts, cancelled, unstopped>>

(* The delay is over: back into the consumer. *)
RestartWorker(n) ==
    /\ task[n] = "backoff"
    /\ n \notin cancelled
    /\ state' = [state EXCEPT ![n] = "running"]
    /\ task' = [task EXCEPT ![n] = "inside"]
    /\ delay' = [delay EXCEPT ![n] = Doubled(@)]
    /\ UNCHANGED <<main, consumers, restarts, cancelled, unstopped>>

(* The main coroutine is interrupted and enters stop_all. *)
Interrupt ==
    /\ main = "serving"
    /\ main' = "stopping"
    /\ unstopped' = Started
    /\ UNCHANGED <<consumers, state, restarts, task, cancelled, delay>>

(* Defect: stop_all cancels without awaiting. *)
AwaitedNever == {}

(* One round of stop_all: cancel a task and await it.  The await returns   *)
(* when the task has ended, so no two tasks are being stopped at a time.   *)
Awaited == (Started \ unstopped) \ Ended

StopNext(n) ==
    /\ main = "stopping"
    /\ n \in unstopped
    /\ Awaited = {}
    /\ unstopped' = unstopped \ {n}
    /\ cancelled' = cancelled \cup {n}
    /\ UNCHANGED <<main, consumers, state, restarts, task, delay>>

(* Defect: the sleep of the back-off takes the cancellation for a wake-up. *)
CancelArrivesAsWakeUp(n) ==
    /\ n \in cancelled
    /\ cancelled' = cancelled \ {n}
    /\ IF task[n] = "backoff"
       THEN /\ state' = [state EXCEPT ![n] = "running"]
            /\ task' = [task EXCEPT ![n] = "inside"]
       ELSE /\ state' = [state EXCEPT ![n] = "stopped"]
            /\ task' = [task EXCEPT ![n] = "ended"]
    /\ UNCHANGED <<main, consumers, restarts, delay, unstopped>>

(* The CancelledError reaches the task.  In the consumer it ends the task, *)
(* unless the consumer absorbs it and returns: then the loop of the task   *)
(* calls the consumer again.  In the back-off it leaves the except branch, *)
(* so the task ends and its state is left as it is.                        *)
CancelArrives(n) ==
    /\ n \in cancelled
    /\ cancelled' = cancelled \ {n}
    /\ \/ /\ task[n] = "inside" /\ n \notin Absorbing
          /\ state' = [state EXCEPT ![n] = "stopped"]
          /\ task' = [task EXCEPT ![n] = "ended"]
          /\ UNCHANGED delay
       \/ /\ task[n] = "inside" /\ n \in Absorbing
          /\ state' = [state EXCEPT ![n] = "completed"]
          /\ delay' = [delay EXCEPT ![n] = BackoffBase]
          /\ UNCHANGED task
       \/ /\ task[n] = "backoff"
          /\ task' = [task EXCEPT ![n] = "ended"]
          /\ UNCHANGED <<state, delay>>
    /\ UNCHANGED <<main, consumers, restarts, unstopped>>

(* stop_all returns, and with it the process. *)
Stopped ==
    /\ main = "stopping"
    /\ unstopped = {}
    /\ Awaited = {}
    /\ main' = "stopped"
    /\ UNCHANGED <<consumers, state, restarts, task, cancelled, delay, unstopped>>

-----------------------------------------------------------------------------
(* What happens without a decision of the operator or a fault. *)
Progress(n) == RestartWorker(n) \/ StopNext(n) \/ CancelArrives(n)

SupervisorNext ==
    \/ StartAll \/ Interrupt \/ Stopped
    \/ \E n \in Workers : \/ Register(n) \/ RegisterDisabled(n)
                          \/ CrashWorker(n) \/ Progress(n)

SupervisorSpec == SupervisorInit /\ [][SupervisorNext]_supervisorVars

(* The loop runs every task that is ready: a delay ends, a CancelledError  *)
(* arrives, and stop_all goes on when the task it awaits has ended.        *)
FairSupervisorSpec ==
    /\ SupervisorSpec
    /\ \A n \in Workers : /\ WF_supervisorVars(RestartWorker(n))
                          /\ WF_supervisorVars(CancelArrives(n))
    /\ WF_supervisorVars(\E n \in Workers : StopNext(n))
    /\ WF_supervisorVars(Stopped)

-----------------------------------------------------------------------------
(* Safety *)

(* A task that has ended is never reported as running: that is the only    *)
(* case in which get_structured_status asks a task for its exception, and  *)
(* a cancelled task would answer with CancelledError.                      *)
StatusReadable == \A n \in Workers : task[n] = "ended" => state[n] # "running"

(* A worker that is reported as running is inside its consumer, and one    *)
(* reported as disabled has no task, also when it was enabled and disabled *)
(* again before the start.                                                 *)
StatusTrue ==
    \A n \in Workers : /\ state[n] = "running" => task[n] = "inside"
                     /\ state[n] = "disabled" => n \notin consumers

(* When stop_all returns no worker is alive, also none that crashed or     *)
(* woke up while the tasks before it were being stopped.                   *)
AllEndedAtStop == main = "stopped" => Started = Ended

(* Liveness *)

(* A crashed worker is restarted unless the process is being stopped. *)
RestartedAfterCrash ==
    \A n \in Workers : task[n] = "backoff" ~> task[n] = "inside" \/ main # "serving"

(* stop_all ends when no started worker absorbs its cancellation. *)
StopTerminates == main = "stopping" /\ Absorbing \cap Started = {} ~> main = "stopped"
=============================================================================
