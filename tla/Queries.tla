------------------------------ MODULE Queries -------------------------------
(***************************************************************************)
(* All questions: those of Decisions, and those whose answers take         *)
(* recursion: what list and why report, what deploy writes, what local     *)
(* packages resolve to, which programs a script starts.                    *)
(***************************************************************************)
EXTENDS Decisions

Reports == INSTANCE DependencyReports WITH Missing <- None

(* list, why --json and why, for one project of a lockfile. *)
Report ==
  /\ query.on = "report" /\ answer = Unanswered
  /\ LET q == query IN
     answer' = [value |-> Reports!List(q.lockfile, q.manifest, "root", q.include, q.depth),
                pruned |-> Reports!WhyListed(q.lockfile, q.manifest, q.include, q.depth, q.asked),
                why |-> Reports!Why(q.lockfile, q.include, q.asked)]
  /\ UNCHANGED query

Deploys == INSTANCE Deploy

(* deploy of one project of a workspace. *)
Deploy ==
  /\ query.on = "deploy" /\ answer = Unanswered
  /\ answer' = Deploys!Run(query)
  /\ UNCHANGED query

Locals == INSTANCE LocalPackages

(* An install resolves the local packages of an importer, step by step.    *)
ResolveLocals ==
  /\ query.on = "local"
  /\ \/ /\ answer = Unanswered
        /\ answer' = [value |-> Locals!Start(query), entry |-> None]
     \/ /\ answer # Unanswered
        /\ \E s \in Locals!Steps(query, answer.value) : answer' = [answer EXCEPT !.value = s]
     \/ /\ answer # Unanswered /\ answer.entry = None /\ Locals!AllEnded(answer.value)
        /\ answer' = [answer EXCEPT !.entry =
                        IF \E p \in Locals!Roots(answer.value) : answer.value.calls[p].result = Failed
                        THEN Failed ELSE Locals!Entry(query, answer.value)]
  /\ UNCHANGED query

Programs == INSTANCE Scripts

(* A command runs scripts of a project. *)
RunScripts ==
  /\ query.on = "scripts" /\ answer = Unanswered
  /\ answer' = [programs |-> Programs!Command(query.world, query.at, {}, query.args, query.depth)]
  /\ UNCHANGED query

Next == Decide \/ Report \/ Deploy \/ ResolveLocals \/ RunScripts

Spec == Init /\ [][Next]_vars
-----------------------------------------------------------------------------
(* list shows what a project leads to within the depth asked for, though   *)
(* it does not expand a package below itself; and why --json keeps what    *)
(* leads on to a match, and nothing else.                                  *)
ListComplete ==
  Answered("report") =>
    LET q == query IN
    /\ Reports!ListSound(q.lockfile, q.manifest, answer.value, q.include, q.depth)
    /\ Reports!PrunedSound(answer.value, answer.pruned, q.asked)

(* why shows every dependent on every way up to the projects, once for     *)
(* each dependency, although it expands no package twice; and circular are *)
(* the dependents that are on the way from the package themselves.         *)
WhyComplete ==
  Answered("report") =>
    \A p \in DOMAIN answer.why :
      Reports!WalkSound(query.lockfile, query.include, p, answer.why[p])



(* However the calls for local packages interleave, and although the guard *)
(* against cycles takes a directory that another call is at for a cycle,   *)
(* the run ends, no copy contains itself, nothing is left marked, every    *)
(* copy that is referred to is there, and a project that takes the place   *)
(* of its copy has what the copy would have had.                           *)
LocalsResolved ==
  Answered("local") =>
    LET w == query
        s == answer.value
        Result(n) == s.calls[<<<<"dep", n>>>>].result
    IN  /\ Locals!AllEnded(s) \/ Locals!Steps(w, s) # {}
        /\ Locals!AllEnded(s) => s.resolving = {}
        /\ Locals!Acyclic(s)
        /\ answer.entry \notin {None, Failed} =>
             /\ Locals!Whole(s, IF w.config.disableRelink
                                THEN {Result(n) : n \in w.present \cap DOMAIN answer.entry} ELSE {})
             /\ \A n \in DOMAIN answer.entry :
                  answer.entry[n] # Result(n) =>
                    Locals!StandsIn(w, s, Result(n), answer.entry[n].at)

(* The entry of an importer is whole in every order of concurrent calls    *)
(* and of hash maps.                                                       *)
EntryWhole == LocalsResolved /\ VariantsCover

(* A command starts the programs that its scripts name, each in its        *)
(* directory, with its variables and arguments, the pre and post scripts   *)
(* around it, and nothing after the first that fails; whether a script is  *)
(* run in this process, by a shell or by the shell emulator makes no       *)
(* difference.  (A script that begins with `pnpm run` takes what follows,  *)
(* && included, for arguments of that command, and flags after `run` for   *)
(* its name; run.rs:675-680.)                                              *)
ScriptsAsWritten ==
  (Answered("scripts")
     /\ \A p \in DOMAIN query.world.scripts : \A n \in DOMAIN query.world.scripts[p] :
          Programs!AsCommand(query.world.scripts[p][n])) =>
    answer.programs = Programs!Outcome(query.world,
                     Programs!CommandSteps(query.world, query.at, {}, query.args, query.depth))
=============================================================================
