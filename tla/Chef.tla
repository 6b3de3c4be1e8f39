-------------------------------- MODULE Chef --------------------------------
(***************************************************************************)
(* The Chef (chef.py, tools/chef.py, tools/build.py, tools/clean.py,       *)
(* tools/test.py): sessions that build the compiler, test it, clean up, or *)
(* call the compiler by hand, one after the other over the files that the  *)
(* earlier ones left, stopped by Ctrl-C between any two steps and with     *)
(* tools that fail now and then, which nobody looks at.                    *)
(*                                                                         *)
(* A session is the sequence of its steps; a step that raises an exception *)
(* or exits drops the rest.  Programs that the Chef waits for write to     *)
(* pipes that it reads after they ended.                                   *)
(***************************************************************************)
EXTENDS Brewing, Driver, Sequences, SequencesExt, FiniteSets

CONSTANTS
  Programs,     \* the programs of the tests
  Fate,         \* what the compiler of each version of the grammar makes of them
  Output,       \* what each prints when it is compiled rightly
  GccRejects,   \* those that gcc does not compile
  Said,         \* how much the calls with each of them write to either pipe
  PipeCapacity, \* how much a pipe holds
  Endless,      \* those that wait for what somebody types, or loop
  Suites,       \* the tests of each stage, in the order in which they are found
  Unparsable,   \* versions of the grammar that ANTLR rejects
  Sessions,     \* what people ask for
  MaxVersion,   \* bound: versions of the grammar
  MaxSessions,  \* bound: sessions
  MaxMishaps    \* bound: interrupts, and failures of a tool that are not its input's fault

Versions == 1..MaxVersion
Stages == {"grammar", "semantic", "backend", "programs"}
Tools == {"javac", "antlrJava", "antlrCpp", "cmake", "make", "gcc", "assemble"}

ASSUME ProgramsAssumption ==
  /\ Fate \in [Programs -> [Versions -> Fates]]
  /\ {GccRejects, Endless} \subseteq SUBSET Programs /\ Unparsable \subseteq Versions
  /\ Said \in [Programs -> [stdout : Nat, stderr : Nat]] /\ PipeCapacity \in Nat
  /\ \A stage \in Stages : Suites[stage] \in Seq([name : Programs, invalid : BOOLEAN])
  /\ \A p \in Programs : Output[p] # "something else"
ASSUME SessionsAssumption ==
  \A s \in Sessions :
    /\ s.kind \in {"build", "test", "clean", "hand"}
    /\ s.kind = "build" => s.grammar \in BOOLEAN /\ s.caramel \in BOOLEAN
    /\ s.kind = "test" => /\ s.stages \in Seq(Stages)
                         /\ s.build \in BOOLEAN /\ s.guiOnFailure \in BOOLEAN
    /\ s.kind = "hand" => s.program \in Programs /\ s.flags \subseteq Flags
ASSUME BoundsAssumption ==
  MaxVersion \in Nat \ {0} /\ MaxSessions \in Nat /\ MaxMishaps \in Nat

VARIABLES
  disk,      \* the files
  clock,     \* the time of the next write
  session,   \* what was asked for last
  todo,      \* its steps that are left
  last,      \* how it goes: "none", "running", "done", "failed" or "interrupted"
  brewing,   \* how far brew_grammar_file is: "no", "read" or "opened"
  grammar,   \* the source that it read last, as it was then
  cwd,       \* the directory it is in: the project's ("top") or build/cpp-bin
  bench,     \* of the back-end test at hand, what the reference printed, and the compiler
  verdicts,  \* of its tests
  failed,    \* failed_tests
  count,     \* sessions so far
  stops,     \* interrupts so far
  faults     \* failures of tools so far, with the session of each

vars == <<disk, clock, session, todo, last, brewing, grammar, cwd, bench, verdicts, failed,
          count, stops, faults>>

NoResult == [of |-> "none", as |-> "none"]
Result(p, version) == [of |-> p, as |-> Fate[p][version]]
NoBench == [reference |-> "nothing", compiler |-> 0]

Init ==
  /\ disk = [source |-> [of |-> 1, time |-> 0], brewed |-> NoFile,
             java |-> NoFile, class |-> NoFile, cpp |-> NoFile, caramel |-> 0, dirs |-> {},
             reference |-> NoResult, assembly |-> [top |-> NoResult, bin |-> NoResult],
             program |-> NoResult]
  /\ clock = 1 /\ count = 0 /\ stops = 0 /\ faults = {}
  /\ session = [kind |-> "none"] /\ todo = <<>> /\ last = "none" /\ cwd = "top"
  /\ brewing = "no" /\ grammar = NoFile
  /\ bench = NoBench /\ verdicts = <<>> /\ failed = <<>>

-----------------------------------------------------------------------------
(* Sessions *)

Step(do) == [do |-> do]

BuildGrammar == <<Step("brew"), Step("antlrJava"), Step("javac"), Step("antlrCpp")>>
BuildCaramel == <<Step("enter"), Step("cmake"), Step("make")>>

(* As a bug: the old assembly is assembled before the new one is written.     *)
PhasesSwapped(stage) ==
  CASE stage = "grammar"  -> <<"grun">>
    [] stage = "semantic" -> <<"analyse">>
    [] OTHER              -> <<"gcc", "reference", "assemble", "compile", "run">>

(* The steps of one test, as execute of its class takes them.                 *)
Phases(stage) ==
  CASE stage = "grammar"  -> <<"grun">>
    [] stage = "semantic" -> <<"analyse">>
    [] OTHER              -> <<"gcc", "reference", "compile", "assemble", "run">>

TestSteps(stage, test) ==
  [i \in DOMAIN Phases(stage) |->
     [do |-> Phases(stage)[i], stage |-> stage, test |-> test, gui |-> FALSE]]

(* As a bug: every stage builds what the stage of the grammar builds.         *)
StageStepsOfGrammar(stage, build) ==
  (IF build THEN BuildGrammar ELSE <<>>)
  \o <<Step("check")>>
  \o FlattenSeq([i \in DOMAIN Suites[stage] |-> TestSteps(stage, Suites[stage][i])])

(* test_grammar, test_semantic, test_backend and test_programs                *)
StageSteps(stage, build) ==
  (IF build THEN BuildGrammar \o (IF stage = "grammar" THEN <<>> ELSE BuildCaramel) ELSE <<>>)
  \o <<Step("check")>>
  \o FlattenSeq([i \in DOMAIN Suites[stage] |-> TestSteps(stage, Suites[stage][i])])

Steps(s) ==
  CASE s.kind = "build" -> (IF s.grammar THEN BuildGrammar ELSE <<>>)
                           \o (IF s.caramel THEN BuildCaramel ELSE <<>>)
    [] s.kind = "test"  -> FlattenSeq([i \in DOMAIN s.stages |-> StageSteps(s.stages[i], s.build)])
    [] s.kind = "clean" -> <<Step("clean")>>
    [] s.kind = "hand"  -> <<Step("call")>>

Running == last = "running"

Ask(s) ==
  /\ ~Running /\ count < MaxSessions
  /\ session' = s /\ todo' = Steps(s) /\ last' = "running" /\ count' = count + 1
  /\ cwd' = IF s.kind = "hand" THEN "bin" ELSE "top"
  /\ bench' = NoBench /\ verdicts' = <<>> /\ failed' = <<>>
  /\ UNCHANGED <<disk, clock, brewing, grammar, stops, faults>>

Doing(do) == Running /\ todo # <<>> /\ Head(todo).do = do
Continue == todo' = Tail(todo) /\ UNCHANGED <<session, last, count, stops>>
Fail == last' = "failed" /\ todo' = <<>> /\ UNCHANGED <<session, count, stops>>
NoTest == UNCHANGED <<cwd, bench, verdicts, failed>>
NoBrewing == UNCHANGED <<brewing, grammar>>
Untouched == NoTest /\ NoBrewing

(* Two writes have different times.                                           *)
Tick == clock' = IF disk' = disk THEN clock ELSE clock + 1

(* exec_ calls a tool and ignores what it returns.                            *)
Exec(after) ==
  \/ disk' = after /\ faults' = faults
  \/ /\ stops + Cardinality(faults) < MaxMishaps
     /\ disk' = disk /\ faults' = faults \cup {<<count, Head(todo).do>>}


(* The Chef waits for a program and reads its pipes then: a program with more *)
(* to write than a pipe holds never ends.                                     *)
Fits(p) == Said[p].stdout <= PipeCapacity /\ Said[p].stderr <= PipeCapacity

-----------------------------------------------------------------------------
(* build and clean *)

(* brew_grammar_file reads the source, opens Caramel.g4 and writes it.  The   *)
(* source may be edited, and the session stopped, in between.                 *)
Brew ==
  /\ Doing("brew") /\ brewing = "no"
  /\ IF MustBrew(disk)
     THEN brewing' = "read" /\ grammar' = disk.source /\ UNCHANGED <<session, todo, last, count, stops>>
     ELSE Continue /\ NoBrewing
  /\ NoTest /\ UNCHANGED <<disk, clock, faults>>

OpenBrewed ==
  /\ Doing("brew") /\ brewing = "read"
  /\ brewing' = "opened" /\ disk' = Opened(disk, clock) /\ Tick
  /\ NoTest /\ UNCHANGED <<grammar, session, todo, last, count, stops, faults>>

WriteBrewed ==
  /\ Doing("brew") /\ brewing = "opened"
  /\ brewing' = "no" /\ disk' = Brewed(disk, grammar, clock) /\ Tick
  /\ Continue /\ NoTest /\ UNCHANGED <<grammar, faults>>

(* ANTLR makes nothing of a grammar that is wrong, or empty.                  *)
Accepted == disk.brewed.of \in Versions \ Unparsable

AntlrJava ==
  /\ Doing("antlrJava")
  /\ IF MustGenerateJava(disk)
     THEN Exec(IF Accepted THEN GeneratedJava(disk, clock) ELSE disk)
     ELSE UNCHANGED <<disk, faults>>
  /\ Tick
  /\ Continue /\ Untouched

(* os.listdir raises when ANTLR has left no directory.                        *)
Javac ==
  /\ Doing("javac")
  /\ IF MustCompileJava(disk) /\ ~IsThere(disk.java)
     THEN Fail /\ UNCHANGED <<disk, faults>>
     ELSE /\ Continue
          /\ IF MustCompileJava(disk)
             THEN Exec(CompiledJava(disk, clock)) ELSE UNCHANGED <<disk, faults>>
  /\ Tick
  /\ Untouched

AntlrCpp ==
  /\ Doing("antlrCpp")
  /\ IF MustGenerateCpp(disk)
     THEN Exec(IF Accepted THEN GeneratedCpp(disk, clock) ELSE disk)
     ELSE UNCHANGED <<disk, faults>>
  /\ Tick
  /\ Continue /\ Untouched

(* mkdir_and_cd, CMake and make                                               *)
Enter == Doing("enter") /\ disk' = Entered(disk) /\ Continue /\ Untouched /\ UNCHANGED <<clock, faults>>
CMake == Doing("cmake") /\ Exec(Configured(disk)) /\ Continue /\ Untouched /\ UNCHANGED clock
Make ==
  /\ Doing("make")
  /\ Exec(IF "cpp-bin" \in disk.dirs THEN Made(disk) ELSE disk)
  /\ Continue /\ Untouched /\ UNCHANGED clock

Clean ==
  /\ Doing("clean")
  /\ IF "build" \in disk.dirs
     THEN disk' = Cleaned(disk, NoResult) /\ Continue
     ELSE Fail /\ UNCHANGED disk
  /\ Untouched /\ UNCHANGED <<clock, faults>>

-----------------------------------------------------------------------------
(* test *)

CheckBuild ==
  /\ Doing("check")
  /\ IF "build" \in disk.dirs THEN Continue ELSE Fail
  /\ Untouched /\ UNCHANGED <<disk, clock, faults>>

(* The verdict on the test at hand; a failure is listed, and the test may run *)
(* once more with a window open.                                              *)
Succeeds(errors) == errors = Head(todo).test.invalid
Repeats(errors) == ~Succeeds(errors) /\ session.guiOnFailure /\ ~Head(todo).gui

(* As a bug: a repetition has no verdict, and is listed once more.            *)
JudgeOnce(errors, version) ==
  /\ verdicts' = IF Head(todo).gui THEN verdicts
                 ELSE Append(verdicts, [stage |-> Head(todo).stage, of |-> Head(todo).test,
                                        succeeded |-> Succeeds(errors), version |-> version])
  /\ failed' = IF Succeeds(errors) THEN failed ELSE Append(failed, Head(todo).test.name)

Judge(errors, version) ==
  /\ verdicts' = Append(verdicts, [stage |-> Head(todo).stage, of |-> Head(todo).test,
                                   succeeded |-> Succeeds(errors), version |-> version])
  /\ failed' = IF Succeeds(errors) THEN failed ELSE Append(failed, Head(todo).test.name)
Further(errors) ==
  IF Repeats(errors) THEN <<[Head(todo) EXCEPT !.gui = TRUE]>> \o Tail(todo) ELSE Tail(todo)

(* GrammarTest: an error is something on stderr, a missing parser too.        *)
Grun ==
  LET p == Head(todo).test.name
      version == disk.class.of
      errors == version = 0 \/ ~Parsed(Fate[p][version])
  IN  /\ Doing("grun") /\ Fits(p)
      /\ Judge(errors, version) /\ todo' = Further(errors)
      /\ NoBrewing /\ UNCHANGED <<disk, clock, session, last, cwd, bench, count, stops, faults>>

CaramelIsThere == disk.caramel # 0

(* A call of Caramel in a directory                                           *)
Called(flags, p, dir) ==
  IF WritesAssembly(Config(flags), Fate[p][disk.caramel])
  THEN [disk EXCEPT !.assembly[dir] = Result(p, disk.caramel)] ELSE disk

(* SemanticTest: an error is a return code.                                   *)
Analyse ==
  LET p == Head(todo).test.name
      errors == ~ReturnsZero(Config({"good-defaults"}), Fate[p][disk.caramel])
  IN  /\ Doing("analyse")
      /\ IF cwd = "top" /\ CaramelIsThere
         THEN /\ Fits(p)
              /\ disk' = Called({"good-defaults"}, p, "top")
              /\ Judge(errors, disk.caramel) /\ todo' = Further(errors)
              /\ UNCHANGED <<session, last, count, stops>>
         ELSE Fail /\ UNCHANGED <<disk, verdicts, failed>>
      /\ NoBrewing /\ UNCHANGED <<clock, cwd, bench, faults>>

(* BackendTest: the program that gcc makes, which runs first; only from the   *)
(* directory of the project are the paths right.                              *)
GccBuild ==
  LET p == Head(todo).test.name
  IN  /\ Doing("gcc")
      /\ Exec(IF cwd = "top" /\ "cpp-bin" \in disk.dirs /\ p \notin GccRejects
              THEN [disk EXCEPT !.reference = [of |-> p, as |-> "good"]] ELSE disk)
      /\ Continue /\ Untouched /\ UNCHANGED clock

Prints(result) == IF result.as = "good" THEN Output[result.of] ELSE "something else"

RunReference ==
  /\ Doing("reference")
  /\ IF cwd = "top" /\ disk.reference # NoResult
     THEN /\ Fits(disk.reference.of)
          /\ bench' = [bench EXCEPT !.reference = Prints(disk.reference)]
          /\ Continue
     ELSE Fail /\ UNCHANGED bench
  /\ NoBrewing /\ UNCHANGED <<disk, clock, cwd, verdicts, failed, faults>>

(* The return code of Caramel is kept and not looked at.                      *)
Compile ==
  LET p == Head(todo).test.name
  IN  /\ Doing("compile")
      /\ cwd' = "bin"
      /\ IF CaramelIsThere
         THEN /\ Fits(p)
              /\ disk' = Called({"good-defaults"}, p, "bin")
              /\ bench' = [bench EXCEPT !.compiler = disk.caramel]
              /\ Continue
         ELSE Fail /\ UNCHANGED <<disk, bench>>
      /\ NoBrewing /\ UNCHANGED <<clock, verdicts, failed, faults>>

(* gcc on ./assembly.s; the assembler leaves an older program where it is,    *)
(* the linker removes it.                                                     *)
Linked ==
  IF disk.assembly["bin"].as = "refused"
  THEN {disk, [disk EXCEPT !.program = NoResult]}
  ELSE IF disk.assembly["bin"] = NoResult
  THEN {disk} ELSE {[disk EXCEPT !.program = disk.assembly["bin"]]}

Assemble ==
  /\ Doing("assemble")
  /\ \E after \in Linked : Exec(after)
  /\ Continue /\ Untouched /\ UNCHANGED clock

(* As a bug: os.chdir(initial_cwd) is missing.                                *)
RunAndStay ==
  LET errors == Prints(disk.program) # bench.reference
  IN  /\ Doing("run")
      /\ IF disk.program # NoResult
         THEN /\ Fits(disk.program.of)
              /\ Judge(errors, bench.compiler)
              /\ IF Repeats(errors) THEN Fail ELSE Continue
         ELSE Fail /\ UNCHANGED <<verdicts, failed>>
      /\ NoBrewing /\ UNCHANGED <<disk, clock, cwd, bench, faults>>

(* A failed test is repeated from within build/cpp-bin, where the repetition  *)
(* finds no program of gcc: what it raises ends the session.                  *)
Run ==
  LET errors == Prints(disk.program) # bench.reference
  IN  /\ Doing("run")
      /\ IF disk.program # NoResult
         THEN /\ Fits(disk.program.of)
              /\ Judge(errors, bench.compiler)
              /\ IF Repeats(errors) THEN Fail /\ UNCHANGED cwd ELSE Continue /\ cwd' = "top"
         ELSE Fail /\ UNCHANGED <<cwd, verdicts, failed>>
      /\ NoBrewing /\ UNCHANGED <<disk, clock, bench, faults>>

Finish ==
  /\ Running /\ todo = <<>> /\ last' = "done"
  /\ Untouched /\ UNCHANGED <<disk, clock, session, todo, count, stops, faults>>

-----------------------------------------------------------------------------
(* By hand *)

(* Caramel in build/cpp-bin; with --assemble it calls gcc as a test does.     *)
Call ==
  LET c == Config(session.flags)
      fate == Fate[session.program][disk.caramel]
  IN  /\ Doing("call")
      /\ IF CaramelIsThere
         THEN /\ disk' = Called(session.flags, session.program, "bin")
              /\ todo' = IF Assembles(c, fate) THEN <<Step("assemble")>> ELSE <<>>
              /\ UNCHANGED <<session, last, count, stops>>
         ELSE Fail /\ UNCHANGED disk
      /\ Untouched /\ UNCHANGED <<clock, faults>>

Interrupt ==
  /\ Running /\ stops + Cardinality(faults) < MaxMishaps
  /\ last' = "interrupted" /\ todo' = <<>> /\ brewing' = "no" /\ stops' = stops + 1
  /\ NoTest /\ UNCHANGED <<disk, clock, session, grammar, count, faults>>

(* Somebody edits the grammar.                                                *)
Edit ==
  /\ disk.source.of < MaxVersion
  /\ disk' = [disk EXCEPT !.source = [of |-> @.of + 1, time |-> clock]]
  /\ clock' = clock + 1
  /\ Untouched /\ UNCHANGED <<session, todo, last, count, stops, faults>>

ChefNext ==
  \/ Brew \/ OpenBrewed \/ WriteBrewed \/ AntlrJava \/ Javac \/ AntlrCpp \/ Enter \/ CMake \/ Make \/ Clean
  \/ CheckBuild \/ Grun \/ Analyse \/ GccBuild \/ RunReference \/ Compile \/ Assemble \/ Run
  \/ Call \/ Finish

Next == ChefNext \/ Interrupt \/ Edit \/ (\E s \in Sessions : Ask(s))

(* The session waits for what may never end: somebody has to close a window   *)
(* or to type, or the program loops, as one compiled wrongly may.             *)
MayNotEnd ==
  \/ Doing("grun") /\ Head(todo).gui
  \/ Doing("reference") /\ disk.reference.of \in Endless
  \/ Doing("run") /\ (disk.program.of \in Endless \/ disk.program.as = "wrong")

(* The Chef goes on, and the tools that it calls end; people need do nothing. *)
Spec == Init /\ [][Next]_vars /\ WF_vars(ChefNext /\ ~MayNotEnd)
-----------------------------------------------------------------------------
(* Properties *)

(* The files are versions or results, and what is dated is dated in the past. *)
Files == [of : 0..MaxVersion, time : 0..(clock - 1)]
TornFiles == [of : {Torn}, time : 0..(clock - 1)]
Results == {NoResult} \cup [of : Programs, as : Fates]
TypeOK ==
  /\ {disk.source, grammar, disk.java, disk.class, disk.cpp} \subseteq Files
  /\ disk.brewed \in Files \/ disk.brewed \in TornFiles
  /\ brewing \in {"no", "read", "opened"}
  /\ disk.caramel \in 0..MaxVersion /\ disk.dirs \subseteq {"build", "cpp-bin"}
  /\ {disk.reference, disk.assembly.top, disk.assembly.bin, disk.program} \subseteq Results
  /\ last \in {"none", "running", "done", "failed", "interrupted"}
  /\ cwd \in {"top", "bin"} /\ bench.compiler \in 0..MaxVersion
  /\ Len(failed) <= Len(verdicts) /\ faults \subseteq (1..count) \X Tools

Faulty(n, tools) == \E tool \in tools : <<n, tool>> \in faults

(* Whatever was interrupted, failed, cleaned or edited in between, the times  *)
(* tell what is out of date: a parser that is not of the brewed grammar is    *)
(* older than it, and so is the brewed grammar than the source it is not made *)
(* of, but for two races, which no later build repairs: Ctrl-C between        *)
(* opening and writing it, and a source that was saved after it was read and  *)
(* before what was read was written.                                          *)
StaleIsSeen ==
  /\ disk.brewed.of # disk.source.of =>
       \/ MustBrew(disk)
       \/ disk.brewed.of = Torn /\ (brewing = "opened" \/ stops > 0)
       \/ grammar # disk.source /\ disk.source.time < disk.brewed.time
  /\ disk.java.of # disk.brewed.of => MustGenerateJava(disk)
  /\ disk.cpp.of # disk.brewed.of => MustGenerateCpp(disk)

(* A test of a session that builds (-b) is a test of what was brewed last,    *)
(* also when an earlier session was stopped half-way: neither a stale class   *)
(* nor a stale Caramel judges it.  Excepted are grammars that ANTLR rejects,  *)
(* and runs after ANTLR failed for Java only: javac has then compiled the old *)
(* parser and dated its classes now, which build.py:159 takes for new.        *)
BuildsAreCurrent ==
  [][ /\ Len(verdicts') > Len(verdicts) /\ session.build /\ Accepted
      /\ ~Faulty(count, Tools) /\ (\A n \in 1..count : ~Faulty(n, {"antlrJava"}))
      => Last(verdicts').version = disk.brewed.of ]_vars

(* The verdict on a back-end test is on its own program, though assembly.s,   *)
(* gcc.out and caramel.out are those of whoever was there before: if Caramel  *)
(* compiles it, whichever tests failed or stopped earlier, it succeeds just   *)
(* when it prints what the program means.                                     *)
OwnVerdicts ==
  \A i \in DOMAIN verdicts :
    LET v == verdicts[i]
        fate == Fate[v.of.name][v.version]
    IN  /\ v.stage \in {"backend", "programs"} /\ fate \in {"wrong", "good"}
        /\ v.of.name \notin GccRejects /\ ~Faulty(count, {"gcc", "assemble"})
        => v.succeeded = (v.of.invalid = (fate = "wrong"))

(* A session of tests ends early only for a cause: something it needs was     *)
(* never built, a tool failed, a back-end test has no program or reference,   *)
(* or it failed under -G, where the repetition raises.  Otherwise the end of  *)
(* one test, in build/cpp-bin, leaves the next one all it needs.              *)
StopsForCause ==
  last = "failed" /\ session.kind = "test" =>
    \/ disk.dirs = {}
    \/ ~IsThere(disk.java) /\ session.build
    \/ disk.caramel = 0 /\ session.stages # <<"grammar">>
    \/ disk.reference = NoResult
    \/ disk.program = NoResult
    \/ session.guiOnFailure /\ verdicts # <<>>
       /\ Last(verdicts).stage \in {"backend", "programs"} /\ ~Last(verdicts).succeeded

(* A session that never ends waits for somebody to close a window or to type, *)
(* for a program that loops, or for one whose output fills a pipe, which the  *)
(* Chef empties only when the program has ended.  It never waits at any other *)
(* step, nor for a program for which the pipes have room.                     *)
AwaitsOne(p) ==
  \/ Doing("reference") /\ disk.reference.of = p
  \/ Doing("run") /\ disk.program.of = p
  \/ (Doing("grun") \/ Doing("analyse") \/ Doing("compile")) /\ Head(todo).test.name = p
FillsAPipe ==
  \E p \in Programs, pipe \in {"stdout", "stderr"} : AwaitsOne(p) /\ Said[p][pipe] > PipeCapacity
=============================================================================
