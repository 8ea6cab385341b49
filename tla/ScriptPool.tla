----------------------------- MODULE ScriptPool -----------------------------
(***************************************************************************)
(* run_targets_parallel of `run` and `exec`: worker threads take targets   *)
(* from a shared queue, run their scripts and record the outcomes; after a *)
(* failure a flag keeps them from taking more, unless --no-bail is given.  *)
(***************************************************************************)
EXTENDS Naturals, Sequences, FiniteSets

CONSTANTS Targets, \* what can be queued: the projects
          Threads, \* a bound on the threads a command asks for
          NoTarget

ASSUME PoolAssumption == Threads \in Nat \ {0} /\ NoTarget \notin Targets

Workers == 1..Threads

VARIABLES queue,      \* targets that nobody has taken, in order
          at,         \* where each worker stands
          target,     \* the target a worker has taken
          should_stop,
          outcomes,   \* set of records [target, ok]
          late        \* history: targets taken after should_stop was set

poolVars == <<queue, at, target, should_stop, outcomes, late>>

(* "idle"   not spawned       "check"  about to load should_stop           *)
(* "pop"    about to lock the queue     "run"  the script runs             *)
(* "push"   the script succeeded, "pushErr" it failed; about to record it  *)
(* "exit"   returned                                                       *)
Places == {"idle", "check", "pop", "run", "push", "pushErr", "exit"}

PoolInit == /\ queue = <<>>
            /\ at = [w \in Workers |-> "idle"]
            /\ target = [w \in Workers |-> NoTarget]
            /\ should_stop = FALSE
            /\ outcomes = {}
            /\ late = {}

Move(w, place) == at' = [at EXCEPT ![w] = place]

(* The pool starts n threads. *)
Spawn(targets, n) ==
  /\ queue' = targets
  /\ at' = [w \in Workers |-> IF w <= n THEN "check" ELSE "idle"]
  /\ UNCHANGED <<target, should_stop, outcomes, late>>

CheckStop(w) ==
  /\ at[w] = "check"
  /\ Move(w, IF should_stop THEN "exit" ELSE "pop")
  /\ UNCHANGED <<queue, target, should_stop, outcomes, late>>

(* Mutants of Pop: the target stays in the queue; an empty queue is waited *)
(* on.                                                                     *)
PopWaits(w) ==
  /\ at[w] = "pop"
  /\ queue # <<>>
  /\ Move(w, "run")
  /\ target' = [target EXCEPT ![w] = Head(queue)]
  /\ queue' = Tail(queue)
  /\ late' = IF should_stop THEN late \cup {Head(queue)} ELSE late
  /\ UNCHANGED <<should_stop, outcomes>>
PopKeeps(w) ==
  /\ at[w] = "pop"
  /\ IF queue = <<>>
     THEN Move(w, "exit") /\ UNCHANGED <<target, late>>
     ELSE /\ Move(w, "run")
          /\ target' = [target EXCEPT ![w] = Head(queue)]
          /\ late' = IF should_stop THEN late \cup {Head(queue)} ELSE late
  /\ UNCHANGED <<queue, should_stop, outcomes>>

(* The flag is not looked at again under the lock: a target may be taken   *)
(* after another worker has set it.                                        *)
Pop(w) ==
  /\ at[w] = "pop"
  /\ IF queue = <<>>
     THEN Move(w, "exit") /\ UNCHANGED <<queue, target, late>>
     ELSE /\ Move(w, "run")
          /\ target' = [target EXCEPT ![w] = Head(queue)]
          /\ queue' = Tail(queue)
          /\ late' = IF should_stop THEN late \cup {Head(queue)} ELSE late
  /\ UNCHANGED <<should_stop, outcomes>>

(* The script, with the pre and post scripts around it, succeeds or fails. *)
ScriptEnds(w, noBail) ==
  /\ at[w] = "run"
  /\ \/ Move(w, "push") /\ UNCHANGED should_stop
     \/ Move(w, "pushErr") /\ should_stop' = (should_stop \/ ~noBail)
  /\ UNCHANGED <<queue, target, outcomes, late>>

Push(w) ==
  /\ at[w] \in {"push", "pushErr"}
  /\ outcomes' = outcomes \cup {[target |-> target[w], ok |-> at[w] = "push"]}
  /\ target' = [target EXCEPT ![w] = NoTarget]
  /\ Move(w, "check")
  /\ UNCHANGED <<queue, should_stop, late>>

WorkerStep(w, noBail) ==
  CheckStop(w) \/ Pop(w) \/ ScriptEnds(w, noBail) \/ Push(w)

Joined == \A w \in Workers : at[w] \in {"idle", "exit"}
=============================================================================
