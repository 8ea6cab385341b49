------------------------------ MODULE Scripts -------------------------------
(***************************************************************************)
(* run, test, start, restart and exec in one project: which programs are   *)
(* started, in what order, with which arguments and variables.  A script   *)
(* that begins with `pnpm run` is run in the same process; any other goes  *)
(* to a shell, or is taken apart by the shell emulator, and whatever runs  *)
(* `pnpm` in it starts pacquet anew.  Workspaces are ScriptRunner's.       *)
(*                                                                         *)
(* A command line is a sequence of tokens; the text of a word is a         *)
(* sequence of parts, so that "prebuild" is <<"pre", "build">>.  A world w *)
(* has the scripts of each project, the project around it, the programs in *)
(* its node_modules/.bin and those that fail, and the settings.            *)
(***************************************************************************)
EXTENDS Naturals, Sequences, SequencesExt

CONSTANTS None, Failed

Word(text) == [op |-> FALSE, text |-> text]
And == [op |-> TRUE, text |-> <<"&&">>]
Words(texts) == [i \in DOMAIN texts |-> Word(texts[i])]
Texts(line) == [i \in DOMAIN line |-> line[i].text]

(* The shim in front of PATH makes every `pnpm` this program. *)
Pnpm == <<"pnpm">>
Flags == {<<"-C">>, <<"-w">>, <<"-r">>, <<"--if-present">>, <<"--stream">>, <<"--">>}

(* script.contains(name). *)
Mentions(line, name) ==
  \E i \in DOMAIN line : \E j \in 0..Len(line[i].text) :
    IsPrefix(name, SubSeq(line[i].text, j + 1, Len(line[i].text)))

Ended(ran, how) == [ran |-> ran, ended |-> how]
Then(first, rest) ==
  IF first.ended # "ok" THEN first ELSE Ended(first.ran \o rest.ran, rest.ended)
-----------------------------------------------------------------------------
(* append_args_to_script: arguments are quoted, and follow the last word.  *)
Appended(line, args) == line \o Words(args)

(* split_by_double_and; a part without words is left out. *)
Segments(line) ==
  LET Add(parts, token) ==
        IF token.op THEN Append(parts, <<>>)
        ELSE [parts EXCEPT ![Len(parts)] = Append(@, token.text)]
  IN  SelectSeq(FoldLeft(Add, <<<<>>>>, line), LAMBDA part : part # <<>>)

(* split_env_assignments: leading words such as A=1. *)
IsAssignment(text) == Len(text) > 1 /\ text[2] = "="
Program(words) == SelectInSeq(words, LAMBDA t : ~IsAssignment(t))
Assignments(words) ==
  IF Program(words) = 0 THEN words ELSE SubSeq(words, 1, Program(words) - 1)
Argv(words) ==
  IF Program(words) = 0 THEN <<>> ELSE SubSeq(words, Program(words), Len(words))

(* collect_node_modules_bin_paths: the nearest directory has it. *)
RECURSIVE Provider(_, _, _)
Provider(w, p, program) ==
  IF p = None THEN None
  ELSE IF program \in w.bins[p] THEN p
  ELSE Provider(w, w.parent[p], program)
-----------------------------------------------------------------------------
(* parse_embedded_pnpm_run: flags up to `run`, the script, and whatever    *)
(* follows it.  None if the script is anything else.                       *)
WithoutDashes(args) == IF args # <<>> /\ args[1] = <<"--">> THEN Tail(args) ELSE args

NoFlags == [dir |-> None, ifPresent |-> FALSE, workspace |-> FALSE]

IgnoredFlags == {<<"--stream">>}

RECURSIVE EmbeddedFrom(_, _)
EmbeddedFrom(texts, flags) ==
  IF texts = <<>> THEN None
  ELSE LET token == texts[1]
           rest == Tail(texts)
       IN  CASE token \in {<<"run">>, <<"run-script">>} ->
                  IF rest = <<>> THEN None
                  ELSE LET args == Tail(rest)
                       IN  [flags |-> flags, script |-> rest[1], args |-> WithoutDashes(args)]
             [] token = <<"-C">> ->
                  IF rest = <<>> THEN None
                  ELSE EmbeddedFrom(Tail(rest), [flags EXCEPT !.dir = rest[1]])
             [] token = <<"--if-present">> ->
                  EmbeddedFrom(rest, [flags EXCEPT !.ifPresent = TRUE])
             [] token \in {<<"-r">>, <<"-w">>} ->
                  EmbeddedFrom(rest, [flags EXCEPT !.workspace = TRUE])
             [] token \in IgnoredFlags -> EmbeddedFrom(rest, flags)
             [] OTHER -> None

Embedded(line) ==
  IF line = <<>> \/ line[1].text # Pnpm THEN None
  ELSE EmbeddedFrom(Tail(Texts(line)), NoFlags)

(* The arguments of an embedded run: its own, then those it was given.     *)
(* (The mutant loses what the outer script was given.)                     *)
OwnArgs(embedded, args) == embedded.args
AllArgs(embedded, args) == embedded.args \o args
-----------------------------------------------------------------------------
(* PackageManifest::script. *)
HasScript(w, p, name) == name \in DOMAIN w.scripts[p]

(* preprocess_cli_args finds the command behind -C and -w; a word that is  *)
(* no command stands for the script of that name, if there is one.         *)
KnownCommands == {<<"run">>, <<"run-script">>, <<"test">>, <<"start">>, <<"restart">>, <<"exec">>}

RECURSIVE CommandIndex(_, _)
CommandIndex(args, i) ==
  IF i > Len(args) THEN 0
  ELSE CASE args[i] = <<"-C">> -> CommandIndex(args, i + 2)
         [] args[i] = <<"-w">> -> CommandIndex(args, i + 1)
         [] args[i] \in Flags \ {<<"-C">>, <<"-w">>} -> 0
         [] OTHER -> i

(* parse_package_dir, and what the command then does: the last -C counts,  *)
(* and -w goes up to the workspace of that directory.                      *)
CommandDir(w, p, args, i) ==
  LET dirs == {j \in 1..(i - 2) : args[j] = <<"-C">>}
      dir == IF dirs = {} THEN p
             ELSE w.dirs[p][args[(CHOOSE j \in dirs : \A k \in dirs : k <= j) + 1]]
  IN  IF \E j \in 1..(i - 1) : args[j] = <<"-w">> THEN w.root ELSE dir

FallbackName(command) == IF command \in {<<"t">>, <<"tst">>} THEN <<"test">> ELSE command

PreprocessedAt(w, p, args, i) ==
  LET name == FallbackName(args[i])
  IN  IF i = 0 \/ args[i] \in KnownCommands \/ args[i] = <<"help">> THEN args
      ELSE IF HasScript(w, CommandDir(w, p, args, i), name)
      THEN SubSeq(args, 1, i - 1) \o <<<<"run">>, name>> \o SubSeq(args, i + 1, Len(args))
      ELSE args
Preprocessed(w, p, args) == PreprocessedAt(w, p, args, CommandIndex(args, 1))

(* What clap makes of it. *)
Request(kind, dir, names, ifPresent, args) ==
  [kind |-> kind, dir |-> dir, names |-> names, args |-> WithoutDashes(args),
   flags |-> [NoFlags EXCEPT !.ifPresent = ifPresent]]

RestartScripts == <<<<"stop">>, <<"restart">>, <<"start">>>>

(* Of the flags of run, one that needs a script and one that leads to the  *)
(* workspace stand for the others.                                         *)
RunFlags == {<<"--if-present">>, <<"-r">>, <<"--stream">>}

RequestedAt(w, p, args, i) ==
  LET dir == CommandDir(w, p, args, i)
      after == SubSeq(args, i + 1, Len(args))
      last == SelectInSeq(after, LAMBDA t : t \notin RunFlags)
      flags == IF last = 0 THEN ToSet(after) ELSE ToSet(SubSeq(after, 1, last - 1))
      rest == IF last = 0 THEN <<>> ELSE SubSeq(after, last, Len(after))
      present == <<"--if-present">> \in flags
  IN  IF i = 0 THEN Failed
      ELSE CASE args[i] \in {<<"run">>, <<"run-script">>} /\ rest # <<>> ->
                  [Request("run", dir, <<rest[1]>>, present, Tail(rest))
                     EXCEPT !.flags.workspace = <<"-r">> \in flags]
             [] args[i] = <<"test">> -> Request("run", dir, <<args[i]>>, FALSE, after)
             [] args[i] = <<"start">> -> Request("start", dir, <<args[i]>>, FALSE, after)
             [] args[i] = <<"restart">> -> Request("start", dir, RestartScripts, present, rest)
             [] args[i] = <<"exec">> /\ after # <<>> -> Request("exec", dir, <<>>, FALSE, after)
             [] OTHER -> Failed
RequestedBy(w, p, args) == RequestedAt(w, p, args, CommandIndex(args, 1))
Requested(w, p, args) == RequestedBy(w, p, Preprocessed(w, p, args))
-----------------------------------------------------------------------------
(* resolve_script_text: Failed, None with --if-present, or the line. *)
ServerJs == <<Word(<<"node">>), Word(<<"server.js">>)>>

ScriptText(w, p, name, ifPresent, orServer) ==
  IF HasScript(w, p, name) THEN w.scripts[p][name]
  ELSE IF orServer /\ name = <<"start">>
  THEN IF p \in w.serverJs THEN ServerJs ELSE Failed
  ELSE IF ifPresent THEN None ELSE Failed

(* The script before, or after, another, unless that one mentions it. *)
Surrounding(w, p, when, name, line) ==
  LET other == <<when>> \o name
  IN  IF w.prePost /\ ~Mentions(line, other) /\ HasScript(w, p, other)
      THEN w.scripts[p][other] ELSE None

(* A program is started in a project's directory, with the variables of    *)
(* the process and its own; event is npm_lifecycle_event.                  *)
Start(w, p, event, env, argv) ==
  [in |-> p, event |-> event, env |-> env, argv |-> argv, from |-> Provider(w, p, argv[1])]

(* A run in several projects of the workspace. *)
HandedOver(p, call) == [workspace |-> p, call |-> call]

RECURSIVE Spawned(_, _, _, _, _, _), Emulated(_, _, _, _, _, _), Shell(_, _, _, _, _, _),
          Lifecycle(_, _, _, _, _, _), Exec(_, _, _, _, _),
          InProcess(_, _, _, _, _, _), Executed(_, _, _, _, _, _, _),
          RunNamed(_, _, _, _, _, _), Obeyed(_, _, _, _), Command(_, _, _, _, _)

(* A child process; fuel is what is left of the depth of processes.        *)
Spawned(w, p, event, env, argv, fuel) ==
  IF argv[1] = Pnpm THEN Command(w, p, env, Tail(argv), fuel)
  ELSE Ended(<<Start(w, p, event, env, argv)>>, IF argv[1] \in w.fails THEN "failed" ELSE "ok")

(* sh -c: && in order, until one fails; a prefix A=1 is for its command.   *)
Shell(w, p, event, env, line, fuel) ==
  LET cut == SelectInSeq(line, LAMBDA t : t.op)
      words == Texts(IF cut = 0 THEN line ELSE SubSeq(line, 1, cut - 1))
      first == IF Argv(words) = <<>> THEN Ended(<<>>, "ok")
               ELSE Spawned(w, p, event, env \cup ToSet(Assignments(words)), Argv(words), fuel)
  IN  IF cut = 0 THEN first
      ELSE Then(first, Shell(w, p, event, env, SubSeq(line, cut + 1, Len(line)), fuel))

(* execute_with_shell_emulator. *)
Emulated(w, p, event, env, segments, fuel) ==
  IF segments = <<>> THEN Ended(<<>>, "ok")
  ELSE LET words == Head(segments)
           first == IF Argv(words) = <<>> THEN Ended(<<>>, "ok")
                    ELSE Spawned(w, p, event, env \cup ToSet(Assignments(words)),
                                 Argv(words), fuel)
       IN  Then(first, Emulated(w, p, event, env, Tail(segments), fuel))

(* execute_lifecycle_script, and the same with captured output. *)
Lifecycle(w, p, event, env, line, fuel) ==
  IF w.emulator THEN Emulated(w, p, event, env, Segments(line), fuel)
  ELSE Shell(w, p, event, env, line, fuel)

(* execute_command_in_dir: exec has no script, and no npm_lifecycle_event. *)
Exec(w, p, env, argv, fuel) == Spawned(w, p, None, env, argv, fuel)

(* execute_embedded_pnpm_run, but for what a workspace makes of it. *)
InProcess(w, p, env, call, flags, fuel) ==
  LET dir == IF flags.dir = None THEN p ELSE w.dirs[p][flags.dir]
  IN  IF flags.workspace THEN Ended(<<HandedOver(dir, call)>>, "ok")
      ELSE RunNamed(w, dir, env, call, [ifPresent |-> flags.ifPresent, orServer |-> FALSE], fuel)

(* execute_script_with_output_mode. *)
Executed(w, p, event, env, line, args, fuel) ==
  LET embedded == Embedded(line)
  IN  IF embedded # None
      THEN InProcess(w, p, env,
                     [name |-> embedded.script, args |-> AllArgs(embedded, args)],
                     embedded.flags, fuel)
      ELSE Lifecycle(w, p, event, env, Appended(line, args), fuel)

(* run_named_script: the script between its pre and its post script, which *)
(* get no arguments.                                                       *)
RunNamed(w, p, env, call, how, fuel) ==
  LET line == ScriptText(w, p, call.name, how.ifPresent, how.orServer)
      Beside(when) ==
        LET other == Surrounding(w, p, when, call.name, line)
        IN  IF other = None THEN Ended(<<>>, "ok")
            ELSE Executed(w, p, <<when>> \o call.name, env, other, <<>>, fuel - 1)
  IN  IF fuel = 0 THEN Ended(<<>>, "endless")
      ELSE IF line = Failed THEN Ended(<<>>, "failed")
      ELSE IF line = None THEN Ended(<<>>, "ok")
      ELSE Then(Beside("pre"),
                Then(Executed(w, p, call.name, env, line, call.args, fuel - 1), Beside("post")))

(* start runs one script, restart three of them. *)
InOrder(outcomes) == FoldLeft(Then, Ended(<<>>, "ok"), outcomes)

(* One command line, in a process of its own. *)
Obeyed(w, q, env, fuel) ==
  LET Run(name) == RunNamed(w, q.dir, env, [name |-> name, args |-> q.args],
                            [ifPresent |-> q.flags.ifPresent, orServer |-> TRUE], fuel)
  IN  IF q = Failed THEN Ended(<<>>, "failed")
      ELSE CASE q.kind = "exec" -> Exec(w, q.dir, env, q.args, fuel)
             [] q.kind = "run" ->
                  InProcess(w, q.dir, env, [name |-> q.names[1], args |-> q.args], q.flags, fuel)
             [] OTHER -> InOrder([i \in DOMAIN q.names |-> Run(q.names[i])])
Command(w, p, env, args, fuel) == Obeyed(w, Requested(w, p, args), env, fuel)
-----------------------------------------------------------------------------
(* What the scripts say, written out: every program that would be started  *)
(* if none failed, and where it would go no further.                       *)
Stop(how) == [stop |-> how]

RECURSIVE LineSteps(_, _, _, _, _, _), ScriptSteps(_, _, _, _, _, _), RequestSteps(_, _, _, _),
          CommandSteps(_, _, _, _, _)

LineSteps(w, p, event, env, line, fuel) ==
  LET breaks == {i \in DOMAIN line : line[i].op}
      starts == {1} \cup {i + 1 : i \in breaks}
      EndOf(i) == CHOOSE j \in {k - 1 : k \in breaks} \cup {Len(line)} :
                    j >= i /\ ~\E k \in breaks : i < k /\ k <= j
      StepsAt(i) ==
        LET words == Texts(SubSeq(line, i, EndOf(i)))
            vars == env \cup ToSet(Assignments(words))
        IN  IF Argv(words) = <<>> THEN <<>>
            ELSE IF Argv(words)[1] = Pnpm THEN CommandSteps(w, p, vars, Tail(Argv(words)), fuel)
            ELSE <<Start(w, p, event, vars, Argv(words))>>
  IN  FlattenSeq([i \in DOMAIN line |-> IF i \in starts THEN StepsAt(i) ELSE <<>>])

ScriptSteps(w, p, env, call, how, fuel) ==
  LET line == ScriptText(w, p, call.name, how.ifPresent, how.orServer)
      Beside(when) ==
        LET other == Surrounding(w, p, when, call.name, line)
        IN  IF other = None THEN <<>>
            ELSE LineSteps(w, p, <<when>> \o call.name, env, other, fuel - 1)
  IN  IF fuel = 0 THEN <<Stop("endless")>>
      ELSE IF line = Failed THEN <<Stop("failed")>>
      ELSE IF line = None THEN <<>>
      ELSE Beside("pre") \o LineSteps(w, p, call.name, env, line \o Words(call.args), fuel - 1)
             \o Beside("post")

RequestSteps(w, q, env, fuel) ==
  LET Of(name) == ScriptSteps(w, q.dir, env, [name |-> name, args |-> q.args],
                              [ifPresent |-> q.flags.ifPresent, orServer |-> q.kind = "start"],
                              fuel)
  IN  IF q = Failed THEN <<Stop("failed")>>
      ELSE IF q.kind = "exec" THEN LineSteps(w, q.dir, None, env, Words(q.args), fuel)
      ELSE IF q.flags.workspace
      THEN <<HandedOver(q.dir, [name |-> q.names[1], args |-> q.args])>>
      ELSE FlattenSeq([i \in DOMAIN q.names |-> Of(q.names[i])])
CommandSteps(w, p, env, args, fuel) == RequestSteps(w, Requested(w, p, args), env, fuel)

(* ... up to the first that fails. *)
Outcome(w, steps) ==
  LET Stops(i) == "stop" \in DOMAIN steps[i]
      Fails(i) == "argv" \in DOMAIN steps[i] /\ steps[i].argv[1] \in w.fails
      bad == {i \in DOMAIN steps : Stops(i) \/ Fails(i)}
      first == CHOOSE i \in bad : \A j \in bad : i <= j
  IN  IF bad = {} THEN Ended(steps, "ok")
      ELSE IF Stops(first) THEN Ended(SubSeq(steps, 1, first - 1), steps[first].stop)
      ELSE Ended(SubSeq(steps, 1, first), "failed")

(* Scripts that mean the same in this process as in one of their own: one  *)
(* that begins with `pnpm` is nothing but that command, and its flags are  *)
(* where both look for them.                                               *)
AsCommand(line) ==
  line # <<>> /\ line[1].text = Pnpm
    => \A i \in DOMAIN line : ~line[i].op /\ line[i].text \notin Flags \ {<<"-C">>, <<"--">>}
=============================================================================
