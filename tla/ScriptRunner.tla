---------------------------- MODULE ScriptRunner ----------------------------
(***************************************************************************)
(* `pacquet run` and `pacquet exec` in a workspace: execute_embedded_pnpm_ *)
(* run and ExecArgs::run.  Selection and order come from WorkspaceGraph,   *)
(* the threads from ScriptPool; with one script at a time the main thread  *)
(* runs them itself.                                                       *)
(***************************************************************************)
EXTENDS WorkspaceGraph, ScriptPool

CONSTANTS Root,    \* the project in the workspace root
          NoProject,
          Graphs,     \* the workspaces a behaviour may start with,
          ScriptSets, \* the sets of projects that have the script,
          Commands    \* and the command lines

(* Fields of a command: tool, "run" or "exec"; recursive, workspaceRoot,   *)
(* here (the project of the current directory); filters, a set of          *)
(* selectors; sort, parallel, reverse, limit (--workspace-concurrency, or  *)
(* 0 if absent); resume, noBail, failIfNoMatch, ifPresent.                 *)
Selectors == [core : SUBSET Projects, nonTest : SUBSET Projects,
              traversal : Traversals, prodOnly : BOOLEAN,
              negative : BOOLEAN, endsHere : BOOLEAN]

ASSUME RunnerAssumption ==
  /\ Projects \subseteq Targets /\ Root \in Projects /\ NoProject \notin Projects
  /\ Graphs \subseteq [all : [Projects -> SUBSET Projects],
                     prod : [Projects -> SUBSET Projects]]
  /\ \A c \in Commands : /\ c.here \in Projects /\ c.limit \in Nat
                        /\ c.filters \subseteq Selectors

VARIABLES graph,   \* the workspace graph
          command,
          scripts, \* projects that have the script
          main,    \* where the main thread stands
          selected,
          plan,    \* the projects to run, in order
          summary, \* executionStatus of --report-summary
          written, \* pnpm-exec-summary.json
          result   \* what the command returns

inputs == <<graph, command, scripts>>
vars == <<graph, command, scripts, main, selected, plan, summary, written,
          result, queue, at, target, should_stop, outcomes, late>>

Outcome(kind, p) == [kind |-> kind, project |-> p]
Unfinished == Outcome("none", NoProject)

Init == /\ graph \in Graphs
        /\ command \in Commands
        /\ scripts \in ScriptSets
        /\ main = "start"
        /\ selected = {}
        /\ plan = <<>>
        /\ summary = << >>
        /\ written = << >>
        /\ result = Unfinished
        /\ PoolInit

(* The projects of `run`; the root takes part only when asked for. *)
RunSelected ==
  IF command.filters = {}
  THEN IF command.recursive
       THEN IF command.workspaceRoot THEN Projects ELSE Projects \ {Root}
       ELSE IF command.workspaceRoot THEN {Root} ELSE {command.here}
  ELSE ResolveFilters(graph, command.filters)
         \cup (IF command.workspaceRoot /\ ~command.recursive THEN {Root} ELSE {})

(* `exec` compares a selector with names and directories only, and one     *)
(* that the path of the current directory ends with selects everything.    *)
ExecSelected ==
  IF command.filters = {}
  THEN IF command.recursive THEN Projects ELSE {command.here}
  ELSE IF \E s \in command.filters : s.endsHere THEN Projects
       ELSE UNION {s.core : s \in {f \in command.filters :
                                     ~f.negative /\ f.traversal = "none"}}


(* `exec` runs in every project. *)
Runs(p) == command.tool = "exec" \/ p \in scripts

Bails == command.tool = "exec" \/ ~command.noBail

Requested(n) == IF command.limit > 0 THEN command.limit
                ELSE IF command.parallel THEN n ELSE 1

Concurrency(n) == IF Requested(n) < n THEN Requested(n) ELSE n

Return(r) == main' = "done" /\ result' = r

Select ==
  /\ main = "start"
  /\ selected' = IF command.tool = "run" THEN RunSelected ELSE ExecSelected
  /\ main' = "order"
  /\ UNCHANGED <<inputs, plan, summary, written, result, poolVars>>

(* No project selected: an error with --fail-if-no-match. *)
NoMatch ==
  /\ main = "order"
  /\ selected = {}
  /\ Return(Outcome(IF command.failIfNoMatch THEN "noMatch" ELSE "ok", NoProject))
  /\ UNCHANGED <<inputs, selected, plan, summary, written, poolVars>>

(* --resume-from names a project that is not selected. *)
NoResume ==
  /\ main = "order"
  /\ selected # {}
  /\ command.resume \notin selected \cup {NoProject}
  /\ Return(Outcome("noResume", NoProject))
  /\ UNCHANGED <<inputs, selected, plan, summary, written, poolVars>>

(* Everything that is ordered goes to the summary, what has a script to    *)
(* the plan.                                                               *)
Order ==
  /\ main = "order"
  /\ selected # {}
  /\ command.resume \in selected \cup {NoProject}
  /\ LET all == Ordered(graph, selected, command)
         order == IF command.resume = NoProject THEN all
                  ELSE From(all, command.resume)
     IN /\ plan' = Those(order, {p \in Projects : Runs(p)})
        /\ summary' = [p \in ToSet(order) |->
                         IF Runs(p) THEN "queued" ELSE "skipped"]
  /\ main' = "begin"
  /\ UNCHANGED <<inputs, selected, written, result, poolVars>>

(* Nobody has the script. *)
NoScript ==
  /\ main = "begin"
  /\ plan = <<>>
  /\ written' = summary
  /\ Return(Outcome(IF command.ifPresent THEN "ok" ELSE "noScript", NoProject))
  /\ UNCHANGED <<inputs, selected, plan, summary, poolVars>>

(* The main thread runs the scripts, or starts the pool; with a pool every *)
(* project is reported as running from the start.                          *)
Begin ==
  /\ main = "begin"
  /\ plan # <<>>
  /\ LET n == Concurrency(Len(plan))
     IN IF n <= 1
        THEN /\ main' = "sequence"
             /\ queue' = plan
             /\ UNCHANGED <<summary, at, target, should_stop, outcomes, late>>
        ELSE /\ main' = "join"
             /\ summary' = [p \in DOMAIN summary |->
                              IF Runs(p) THEN "running" ELSE "skipped"]
             /\ Spawn(plan, n)
  /\ UNCHANGED <<inputs, selected, plan, written, result>>

Marked(sum, p, ok) == [sum EXCEPT ![p] = IF ok THEN "passed" ELSE "failure"]

(* One script in the main thread; the outcome goes to the summary at once. *)
(* (Reported as running meanwhile, which nobody can see.)                  *)
RunNext ==
  /\ main = "sequence"
  /\ queue # <<>>
  /\ \E ok \in BOOLEAN :
       LET p == Head(queue)
       IN /\ outcomes' = outcomes \cup {[target |-> p, ok |-> ok]}
          /\ summary' = Marked(summary, p, ok)
          /\ IF ok \/ ~Bails
             THEN UNCHANGED <<main, result>>
             ELSE main' = "report" /\ result' = Outcome("error", p)
  /\ queue' = Tail(queue)
  /\ UNCHANGED <<inputs, selected, plan, written,
                 at, target, should_stop, late>>

SequenceDone ==
  /\ main = "sequence"
  /\ queue = <<>>
  /\ main' = "report"
  /\ UNCHANGED <<inputs, selected, plan, summary, written, result, poolVars>>

Failed == {o.target : o \in {x \in outcomes : ~x.ok}}
Passed == {o.target : o \in {x \in outcomes : x.ok}}

(* Mutant of Join: the outcomes are not sorted by position; the last one   *)
(* gives the error.                                                        *)
JoinLastError ==
  /\ main = "join"
  /\ Joined
  /\ main' = "report"
  /\ summary' = [p \in DOMAIN summary |->
                   IF p \in Failed THEN "failure"
                   ELSE IF p \in Passed THEN "passed" ELSE summary[p]]
  /\ result' = IF Bails /\ Failed # {}
               THEN Outcome("error",
                            Those(Reverse(plan), Failed)[1])
               ELSE result
  /\ UNCHANGED <<inputs, selected, plan, written, poolVars>>

(* All threads have ended: the outcomes, sorted by position, go to the     *)
(* summary; the first failure in that order is the error.                  *)
Join ==
  /\ main = "join"
  /\ Joined
  /\ main' = "report"
  /\ summary' = [p \in DOMAIN summary |->
                   IF p \in Failed THEN "failure"
                   ELSE IF p \in Passed THEN "passed" ELSE summary[p]]
  /\ result' = IF Bails /\ Failed # {}
               THEN Outcome("error", Those(plan, Failed)[1])
               ELSE result
  /\ UNCHANGED <<inputs, selected, plan, written, poolVars>>

(* The summary is written whether or not a script has failed. *)
Report ==
  /\ main = "report"
  /\ written' = summary
  /\ Return(IF result = Unfinished THEN Outcome("ok", NoProject) ELSE result)
  /\ UNCHANGED <<inputs, selected, plan, summary, poolVars>>

Main == Select \/ NoMatch \/ NoResume \/ Order \/ NoScript \/ Begin
        \/ RunNext \/ SequenceDone \/ Join \/ Report

Worker(w) == WorkerStep(w, ~Bails) /\ UNCHANGED <<inputs, selected, main, plan, summary, written, result>>

Next == Main \/ \E w \in Workers : Worker(w)

(* The main thread and the workers are scheduled, and scripts end. *)
Spec == /\ Init /\ [][Next]_vars
        /\ WF_vars(Main) /\ \A w \in Workers : WF_vars(Worker(w))
-----------------------------------------------------------------------------
Recorded == {o.target : o \in outcomes}
Started == Recorded \cup {target[w] : w \in {v \in Workers : target[v] # NoTarget}}

(* What a filter says it selects, project by project: the projects it      *)
(* matches, and those that a chain of dependencies leads to or from.       *)
Matches(s, p) ==
  LET E == Edges(graph, s)
  IN CASE s.traversal = "none" -> p \in s.core
       [] s.traversal = "dependencies" ->
            \E c \in s.core : Path(E, Projects, c, p)
       [] s.traversal = "dependenciesOnly" ->
            p \notin s.core /\ \E c \in s.core : Path(E, Projects, c, p)
       [] s.traversal = "dependents" ->
            p \in s.core \/ \E c \in s.nonTest : Path(E, Projects, p, c)
       [] s.traversal = "dependentsOnly" ->
            p \notin s.nonTest /\ \E c \in s.nonTest : Path(E, Projects, p, c)

(* Filters select what they say, over cycles and shared dependencies, and  *)
(* an exclusion wins over every inclusion.                                 *)
FiltersExact ==
  main = "order" /\ command.tool = "run" /\ command.filters # {} =>
    \A p \in Projects :
      p \in ResolveFilters(graph, command.filters) <=>
        /\ \A s \in command.filters : s.negative => ~Matches(s, p)
        /\ \/ \A s \in command.filters : s.negative
           \/ \E s \in command.filters : ~s.negative /\ Matches(s, p)

(* Sorted, a script starts only after those of the selected projects that  *)
(* its project depends on have started, or before them with --reverse,     *)
(* whatever the number of threads and with targets cut off or skipped;     *)
(* only the edges of a cycle are exempt.                                   *)
DependenciesFirst ==
  Sorted(command) =>
    \A p \in Started, d \in ToSet(plan) \ Started :
      LET E == IF command.reverse THEN Reversed(graph.all) ELSE graph.all
      IN d \in E[p] => Path(E, selected, d, p)

(* Nothing is run twice or passed over: what was started is always a       *)
(* prefix of the plan, and all of it at the end, unless a failure stopped  *)
(* the command.  Once a script has failed, every other thread takes one    *)
(* more target at most.                                                    *)
NothingSkipped ==
  /\ \E n \in 0..Len(plan) : Started = ToSet(SubSeq(plan, 1, n))
  /\ Cardinality(outcomes) = Cardinality(Recorded)
  /\ \A v, w \in Workers : target[v] = target[w] /\ v # w => target[v] = NoTarget
  /\ main = "done" /\ (~Bails \/ Failed = {}) => Recorded = ToSet(plan)
  /\ late = {} \/ Cardinality(late) < Cardinality({w \in Workers : at[w] # "idle"})

(* The command fails exactly when a script has failed and it bails, and it *)
(* reports the failure that comes first in the plan, not in time.  The     *)
(* file of --report-summary tells of every selected project how it went.   *)
(* (A project that a failure kept from running is left as running by the   *)
(* pool and as queued by the main thread.)                                 *)
ReportFaithful ==
  /\ main = "done" /\ plan # <<>> =>
       /\ result.kind = "error" <=> Bails /\ Failed # {}
       /\ result.kind = "error" =>
            /\ result.project \in Failed
            /\ \A i, j \in 1..Len(plan) :
                 plan[i] \in Failed /\ plan[j] = result.project => j <= i
  /\ main = "done" /\ result.kind \notin {"noMatch", "noResume"} /\ selected # {} =>
       /\ ToSet(plan) \subseteq DOMAIN written
       /\ \A p \in DOMAIN written :
            /\ written[p] = "passed" <=> p \in Passed
            /\ written[p] = "failure" <=> p \in Failed
            /\ written[p] = "skipped" <=> ~Runs(p)

(* The command ends. *)
RunEnds == <>(main = "done")
=============================================================================
