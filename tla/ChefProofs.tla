----------------------------- MODULE ChefProofs -----------------------------
(***************************************************************************)
(* The safety properties of the Chef, proved for any number of sessions,   *)
(* interrupts, failures and edits, and any tests, programs and grammars.   *)
(*                                                                         *)
(* The invariants are proved in layers, each from those before it:         *)
(*                                                                         *)
(*   TimesInv  the times tell what is out of date                          *)
(*   PlanInv   the steps left are what the session may consist of, those   *)
(*             of one test and of one build in a row                       *)
(*   TypeInv   the files, the verdicts and the failures have their types   *)
(*   DirsInv   no file without its directory                               *)
(*   CwdInv    which directory a session of tests is in                    *)
(*   BenchInv  what a back-end test compares is of its own program         *)
(*   JavaInv, AgeInv, BuiltInv                                             *)
(*             before each step that uses what is brewed comes the step    *)
(*             that makes it, or what is there is fresh                    *)
(***************************************************************************)
EXTENDS Chef, WellFoundedInduction, TLAPS

Fields == {"source", "brewed", "java", "class", "cpp", "caramel", "dirs",
           "reference", "assembly", "program"}

(* The files that steps look at the times of, but for the classes             *)
Dated == {"source", "brewed", "java", "cpp"}

IsDisk(d) == d = [field \in Fields |-> d[field]]

(* A file that is written is newer than all the others, and a source that is  *)
(* written makes all that is made of it older.                                *)
InThePast(d, now) ==
  \A file \in Dated : d[file].of \in Int /\ d[file].time \in Nat /\ d[file].time < now

TimesInv ==
  /\ IsDisk(disk) /\ clock \in Nat /\ stops \in Nat /\ grammar.of \in Int
  /\ disk["source"].of \in Nat /\ InThePast(disk, clock) /\ StaleIsSeen

-----------------------------------------------------------------------------
(* What a step may do to the dated files *)

SameDated == \A file \in Dated : disk'[file] = disk[file]
Later == clock' \in {clock, clock + 1}
Steady == UNCHANGED <<brewing, grammar, stops>>

(* None of them is written, or the source or a parser; cleaning removes the   *)
(* parsers.                                                                   *)
Keeping == SameDated
Editing ==
  /\ disk'["source"].of \in Nat \ {0} /\ disk'["source"].time = clock
  /\ \A file \in Dated \ {"source"} : disk'[file] = disk[file]
Generating(parser) ==
  /\ disk'[parser] = [of |-> disk["brewed"].of, time |-> clock]
  /\ \A file \in Dated \ {parser} : disk'[file] = disk[file]
Cleaning ==
  /\ disk'["java"] = NoFile /\ disk'["cpp"] = NoFile
  /\ \A file \in {"source", "brewed"} : disk'[file] = disk[file]

(* The brewed grammar is written in three steps, or an interrupt ends them.   *)
Reading == MustBrew(disk) /\ grammar' = disk["source"] /\ stops' = stops
Opening ==
  /\ disk'["brewed"] = [of |-> Torn, time |-> clock] /\ brewing' = "opened"
  /\ grammar' = grammar /\ stops' = stops
  /\ \A file \in Dated \ {"brewed"} : disk'[file] = disk[file]
Writing ==
  /\ disk'["brewed"] = [of |-> grammar.of, time |-> clock]
  /\ grammar' = grammar /\ stops' = stops
  /\ \A file \in Dated \ {"brewed"} : disk'[file] = disk[file]
Stopping == stops' = stops + 1 /\ grammar' = grammar

Forms ==
  /\ IsDisk(disk')
  /\ \/ Steady /\ Later /\ Keeping
     \/ Steady /\ clock' = clock + 1 /\ (Editing \/ Generating("java") \/ Generating("cpp"))
     \/ Steady /\ clock' = clock /\ Cleaning
     \/ UNCHANGED <<disk, clock>> /\ (Reading \/ Stopping)
     \/ clock' = clock + 1 /\ (Opening \/ Writing)

(* Each kind keeps the invariant.                                             *)
LEMMA FormsKeep ==
  ASSUME TimesInv, Forms
  PROVE  TimesInv'
<1> USE DEF TimesInv, Forms, InThePast, Dated, StaleIsSeen, MustBrew, MustGenerateJava,
            MustGenerateCpp, TimeOr, IsThere, Steady
<1>1. CASE Steady /\ Later /\ Keeping
  BY <1>1 DEF Later, Keeping, SameDated
<1>2. CASE Steady /\ clock' = clock + 1 /\ Editing
  BY <1>2 DEF Editing
<1>3. CASE Steady /\ clock' = clock + 1 /\ Generating("java")
  BY <1>3 DEF Generating
<1>4. CASE Steady /\ clock' = clock + 1 /\ Generating("cpp")
  BY <1>4 DEF Generating
<1>5. CASE Steady /\ clock' = clock /\ Cleaning
  BY <1>5 DEF Cleaning, NoFile
<1>6. CASE UNCHANGED <<disk, clock>> /\ Reading
  BY <1>6 DEF Reading
<1>7. CASE UNCHANGED <<disk, clock>> /\ Stopping
  BY <1>7 DEF Stopping
<1>8. CASE clock' = clock + 1 /\ Opening
  BY <1>8 DEF Opening, Torn
<1>9. CASE clock' = clock + 1 /\ Writing
  BY <1>9 DEF Writing
<1> QED BY <1>1, <1>2, <1>3, <1>4, <1>5, <1>6, <1>7, <1>8, <1>9

-----------------------------------------------------------------------------
(* Each step is of one of the kinds *)

Others ==
  \/ AntlrJava \/ Javac \/ AntlrCpp \/ Enter \/ CMake \/ Make \/ Clean
  \/ CheckBuild \/ Grun \/ Analyse \/ GccBuild \/ RunReference \/ Compile \/ Assemble \/ Run
  \/ Call \/ Finish

LEMMA StepForms ==
  ASSUME TimesInv, ChefNext \/ Interrupt \/ Edit \/ (\E s \in Sessions : Ask(s))
  PROVE  Forms
<1> USE DEF TimesInv, IsDisk, Fields, Dated
<1>steady. Others \/ Edit \/ (\E s \in Sessions : Ask(s)) => Steady
  BY DEF Others, AntlrJava, Javac, AntlrCpp, Enter, CMake, Make, Clean, CheckBuild, Grun, Analyse,
     GccBuild, RunReference, Compile, Assemble, Run, Call, Finish, Edit, Ask, Continue, Fail,
     Untouched, NoBrewing, Steady
<1>tick. Tick => Later
  BY DEF Tick, Later
<1>same. ASSUME Steady, disk' = disk, clock' \in {clock, clock + 1} PROVE Forms
  BY <1>same DEF Forms, Later, Keeping, SameDated
<1> USE DEF Others
<1>1. CASE Brew \/ OpenBrewed \/ WriteBrewed
  <2>1. CASE Brew
    BY <1>same, <2>1 DEF Brew, Continue, NoBrewing, Steady, Forms, Reading
  <2>2. CASE OpenBrewed
    <3>1. Opened(disk, clock)["brewed"].time # disk["brewed"].time
      BY DEF Opened, InThePast
    <3>2. clock' = clock + 1
      BY <2>2, <3>1 DEF OpenBrewed, Tick
    <3> QED BY <2>2, <3>2 DEF OpenBrewed, Opened, Forms, Opening
  <2>3. CASE WriteBrewed
    <3>1. Brewed(disk, grammar, clock)["brewed"].time # disk["brewed"].time
      BY DEF Brewed, InThePast
    <3>2. clock' = clock + 1
      BY <2>3, <3>1 DEF WriteBrewed, Tick
    <3> QED BY <2>3, <3>2 DEF WriteBrewed, Brewed, Continue, Forms, Writing
  <2> QED BY <1>1, <2>1, <2>2, <2>3
<1>2. CASE AntlrJava
  <2>1. CASE disk' = disk
    BY <1>2, <2>1, <1>tick, <1>same, <1>steady DEF AntlrJava, Later
  <2>2. CASE disk' # disk
    <3>1. disk' = GeneratedJava(disk, clock)
      BY <1>2, <2>2 DEF AntlrJava, Exec
    <3> QED BY <1>2, <2>2, <3>1, <1>steady DEF AntlrJava, GeneratedJava, Forms, Generating, Tick
  <2> QED BY <2>1, <2>2
<1>3. CASE AntlrCpp
  <2>1. CASE disk' = disk
    BY <1>3, <2>1, <1>tick, <1>same, <1>steady DEF AntlrCpp, Later
  <2>2. CASE disk' # disk
    <3>1. disk' = GeneratedCpp(disk, clock)
      BY <1>3, <2>2 DEF AntlrCpp, Exec
    <3> QED BY <1>3, <2>2, <3>1, <1>steady DEF AntlrCpp, GeneratedCpp, Forms, Generating, Tick
  <2> QED BY <2>1, <2>2
<1>4. CASE Javac
  <2>1. disk' = disk \/ disk' = CompiledJava(disk, clock)
    BY <1>4 DEF Javac, Exec, Fail
  <2>2. Later
    BY <1>4, <1>tick DEF Javac
  <2> QED BY <1>4, <2>1, <2>2, <1>steady DEF CompiledJava, Forms, Keeping, SameDated
<1>5. CASE Enter \/ CMake \/ Make
  <2>1. clock' = clock
    BY <1>5 DEF Enter, CMake, Make
  <2>2. disk' \in {disk, Entered(disk), Configured(disk), Made(disk)}
    BY <1>5 DEF Enter, CMake, Make, Exec
  <2>3. IsDisk(disk') /\ SameDated
    BY <2>2 DEF Entered, Configured, Made, SameDated
  <2> QED BY <1>5, <2>1, <2>3, <1>steady DEF Forms, Keeping, Later
<1>6. CASE Clean
  <2>1. clock' = clock /\ disk' \in {disk, Cleaned(disk, NoResult)}
    BY <1>6 DEF Clean
  <2>2. CASE disk' = Cleaned(disk, NoResult)
    BY <1>6, <2>1, <2>2, <1>steady DEF Cleaned, Forms, Cleaning
  <2> QED BY <1>6, <2>1, <2>2, <1>same, <1>steady
<1>7. CASE Analyse \/ GccBuild \/ Compile \/ Assemble \/ Call
  <2>1. clock' = clock
    BY <1>7 DEF Analyse, GccBuild, Compile, Assemble, Call
  <2>2. IsDisk(disk') /\ SameDated
    <3>1. CASE Analyse \/ Compile \/ Call
      BY <3>1 DEF Analyse, Compile, Call, Called, SameDated
    <3>2. CASE GccBuild
      BY <3>2 DEF GccBuild, Exec, SameDated
    <3>3. CASE Assemble
      <4>1. PICK after \in Linked : Exec(after)
        BY <3>3 DEF Assemble
      <4>2. IsDisk(after) /\ \A file \in Dated : after[file] = disk[file]
        BY DEF Linked
      <4> QED BY <4>1, <4>2 DEF Exec, SameDated
    <3> QED BY <1>7, <3>1, <3>2, <3>3
  <2> QED BY <1>7, <2>1, <2>2, <1>steady DEF Forms, Keeping, Later
<1>8. CASE CheckBuild \/ Grun \/ RunReference \/ Run \/ Finish
           \/ (\E s \in Sessions : Ask(s))
  BY <1>8, <1>same, <1>steady DEF CheckBuild, Grun, RunReference, Run, Finish, Ask
<1>9. CASE Edit
  BY <1>9, <1>steady DEF Edit, InThePast, Forms, Editing
<1>10. CASE Interrupt
  BY <1>10 DEF Interrupt, Forms, Stopping
<1> QED BY <1>1, <1>2, <1>3, <1>4, <1>5, <1>6, <1>7, <1>8, <1>9, <1>10 DEF ChefNext

-----------------------------------------------------------------------------
LEMMA TimesInvariant == Spec => []TimesInv
<1>1. Init => TimesInv
  <2> SUFFICES ASSUME Init PROVE TimesInv
    OBVIOUS
  <2>1. IsDisk(disk)
    BY DEF Init, IsDisk, Fields
  <2>2. /\ disk.source = [of |-> 1, time |-> 0] /\ disk.brewed = NoFile
        /\ disk.java = NoFile /\ disk.cpp = NoFile /\ clock = 1 /\ grammar = NoFile /\ stops = 0
    BY DEF Init
  <2> QED BY <2>1, <2>2 DEF TimesInv, InThePast, Dated, StaleIsSeen, NoFile, MustBrew,
                           MustGenerateJava, MustGenerateCpp, TimeOr, IsThere
<1>2. TimesInv /\ [Next]_vars => TimesInv'
  <2> SUFFICES ASSUME TimesInv, [Next]_vars PROVE TimesInv'
    OBVIOUS
  <2>1. CASE Next
    BY <2>1, StepForms, FormsKeep DEF Next
  <2>2. CASE UNCHANGED vars
    BY <2>2 DEF vars, TimesInv, IsDisk, InThePast, StaleIsSeen, MustBrew, MustGenerateJava,
                MustGenerateCpp, TimeOr, IsThere
  <2> QED BY <2>1, <2>2
<1> QED BY <1>1, <1>2, PTL DEF Spec

(* However sessions are stopped and tools fail, a parser that is not of the   *)
(* brewed grammar is older than it, and a brewed grammar that is not of the   *)
(* source is older than the source, so that the next build makes it again     *)
(* (build.py:78, 123, 149): unless the source was saved after build.py:80     *)
(* read it and before build.py:104 wrote, or Ctrl-C came in between the two   *)
(* that open and write it (101-104).  In these two cases it may stay.         *)
THEOREM OutOfDateIsSeen == Spec => []StaleIsSeen
  BY TimesInvariant, PTL DEF TimesInv
-----------------------------------------------------------------------------
(* The steps of a session *)

(* A set with 0 and the successor of each of its numbers holds all numbers.   *)
LEMMA Induction ==
  ASSUME NEW P, 0 \in P, \A n \in Nat : n \in P => n + 1 \in P
  PROVE  Nat \subseteq P
<1> SUFFICES ASSUME Nat \ P # {} PROVE FALSE
  OBVIOUS
<1>1. PICK x \in Nat \ P : \A y \in Nat \ P : <<y, x>> \notin OpToRel(<, Nat)
  BY WFMin, NatLessThanWellFounded
<1>2. x - 1 \in Nat /\ x - 1 < x
  OBVIOUS
<1>3. <<x - 1, x>> \in Nat \X Nat /\ <<x - 1, x>>[1] < <<x - 1, x>>[2]
  BY <1>2
<1>4. x - 1 \in P
  BY <1>1, <1>2, <1>3 DEF OpToRel
<1> QED BY <1>2, <1>4

(* What is closed under concatenation has what its sequences flatten to.      *)
LEMMA Flattened ==
  ASSUME NEW T, <<>> \in T, \A p, q \in T : p \o q \in T, NEW s \in Seq(T)
  PROVE  FlattenSeq(s) \in T
<1> DEFINE n == Len(s)
           Next1(g, i) == IF i = 1 THEN s[i] ELSE g[i - 1] \o s[i]
           Eq(g) == g = [i \in 1..n |-> Next1(g, i)]
           G(m) == {g \in [1..m -> T] : \A i \in 1..m : g[i] = Next1(g, i)}
<1>1. n \in Nat /\ \A i \in 1..n : s[i] \in T
  OBVIOUS
<1>2. CASE n = 0
  <2>1. s = <<>>
    BY <1>2
  <2> QED BY <1>2, <2>1 DEF FlattenSeq
<1>3. CASE n # 0
  <2>1. G(n) # {}
    <3> DEFINE P == {m \in Nat : m <= n => G(m) # {}}
    <3>1. 0 \in P
      <4>1. [i \in 1..0 |-> <<>>] \in G(0)
        OBVIOUS
      <4> QED BY <4>1
    <3>2. ASSUME NEW m \in Nat, m \in P PROVE m + 1 \in P
      <4> SUFFICES ASSUME m + 1 <= n PROVE G(m + 1) # {}
        OBVIOUS
      <4>1. PICK g \in G(m) : TRUE
        BY <1>1, <3>2
      <4> DEFINE last1 == Next1(g, m + 1)
                 h == [i \in 1..(m + 1) |-> IF i = m + 1 THEN last1 ELSE g[i]]
      <4>2. last1 \in T
        <5>1. s[m + 1] \in T
          BY <1>1
        <5>2. CASE m = 0
          BY <5>1, <5>2
        <5>3. CASE m # 0
          <6>1. g[m] \in T
            BY <4>1, <5>3
          <6>2. (m + 1) - 1 = m /\ m + 1 # 1
            BY <5>3
          <6>3. last1 = g[m] \o s[m + 1]
            BY <6>2, Zenon
          <6> HIDE DEF last1
          <6> QED BY <5>1, <6>1, <6>3
        <5> QED BY <5>2, <5>3
      <4> HIDE DEF last1
      <4>3. h \in [1..(m + 1) -> T]
        BY <4>1, <4>2
      <4>4. ASSUME NEW i \in 1..(m + 1) PROVE h[i] = Next1(h, i)
        <5>1. CASE i = m + 1
          <6>1. i # 1 => h[i - 1] = g[m] /\ i - 1 = m
            BY <5>1
          <6>2. h[i] = last1
            BY <5>1
          <6> QED BY <5>1, <6>1, <6>2 DEF last1
        <5>2. CASE i # m + 1
          <6>1. i \in 1..m /\ (i # 1 => i - 1 \in 1..(m + 1) /\ i - 1 # m + 1)
            BY <5>2
          <6>2. h[i] = g[i] /\ (i # 1 => h[i - 1] = g[i - 1])
            BY <5>2, <6>1
          <6>3. g[i] = Next1(g, i)
            BY <4>1, <6>1
          <6> QED BY <6>2, <6>3
        <5> QED BY <5>1, <5>2
      <4> HIDE DEF h
      <4> QED BY <4>3, <4>4
    <3> HIDE DEF P
    <3>3. Nat \subseteq P
      BY <3>1, <3>2, Induction
    <3>4. n \in P
      BY <1>1, <3>3
    <3> QED BY <1>1, <3>4 DEF P
  <2> DEFINE flatten == CHOOSE g : Eq(g)
  <2>2. FlattenSeq(s) = flatten[n]
    BY <1>3 DEF FlattenSeq
  <2>3. Eq(flatten)
    <3>1. PICK g \in G(n) : TRUE
      BY <2>1
    <3>2. Eq(g)
      BY <3>1
    <3> HIDE DEF Eq
    <3> QED BY <3>2
  <2> HIDE DEF flatten
  <2> DEFINE P == {m \in Nat : m + 1 <= n => flatten[m + 1] \in T}
  <2>4. 0 \in P
    <3>1. flatten[1] = s[1]
      BY <1>1, <1>3, <2>3
    <3> QED BY <1>1, <3>1
  <2>5. ASSUME NEW m \in Nat, m \in P PROVE m + 1 \in P
    <3> SUFFICES ASSUME (m + 1) + 1 <= n PROVE flatten[(m + 1) + 1] \in T
      OBVIOUS
    <3>1. (m + 1) + 1 \in 1..n /\ (m + 1) + 1 # 1 /\ ((m + 1) + 1) - 1 = m + 1
      BY <1>1
    <3>2. flatten[(m + 1) + 1] = flatten[m + 1] \o s[(m + 1) + 1]
      BY <2>3, <3>1
    <3>3. flatten[m + 1] \in T /\ s[(m + 1) + 1] \in T
      BY <1>1, <2>5, <3>1
    <3> QED BY <3>2, <3>3
  <2> HIDE DEF P
  <2>6. Nat \subseteq P
    BY <2>4, <2>5, Induction
  <2>7. n - 1 \in P /\ (n - 1) + 1 = n
    BY <1>1, <1>3, <2>6
  <2> QED BY <1>1, <2>2, <2>7 DEF P
<1> QED BY <1>2, <1>3
-----------------------------------------------------------------------------
(* Plans *)

Cases == [name : Programs, invalid : BOOLEAN]
BuildActs == {"brew", "antlrJava", "javac", "antlrCpp", "enter", "cmake", "make"}
PhaseSteps(stage) ==
  [do : {Phases(stage)[i] : i \in DOMAIN Phases(stage)}, stage : {stage}, test : Cases, gui : BOOLEAN]

(* What a session may consist of.                                             *)
Allowed(s) ==
  CASE s.kind = "build" -> {Step(d) : d \in BuildActs}
    [] s.kind = "clean" -> {Step("clean")}
    [] s.kind = "hand"  -> {Step("call"), Step("assemble")}
    [] s.kind = "test"  ->
         {Step("check")} \cup {Step(d) : d \in IF s.build THEN BuildActs ELSE {}}
         \cup UNION {PhaseSteps(s.stages[i]) : i \in DOMAIN s.stages}
    [] OTHER -> {}

(* The steps of one test follow each other, and so do those of one call of    *)
(* build_caramel.                                                             *)
Joined(a, b) ==
  /\ a.do = "enter" <=> b.do = "cmake"
  /\ a.do = "cmake" <=> b.do = "make"
  /\ a.do = "gcc" <=> b.do = "reference"
  /\ a.do = "reference" <=> b.do = "compile"
  /\ a.do = "compile" <=> b.do = "assemble"
  /\ a.do = "assemble" <=> b.do = "run"
  /\ a.do \in {"gcc", "reference", "compile", "assemble"} => b.test = a.test
Openers == {"enter", "cmake", "gcc", "reference", "compile", "assemble"}
Followers == {"cmake", "make", "reference", "compile", "assemble", "run"}

Chained(q) ==
  /\ \A i \in 1..(Len(q) - 1) : Joined(q[i], q[i + 1])
  /\ q # <<>> => q[Len(q)].do \notin Openers
Starts(q) == q # <<>> => q[1].do \notin Followers

(* Before each of its users comes a maker, after each brew in between.        *)
Supplied(q, users, maker) ==
  \A i \in 1..Len(q) : q[i].do \in users => \E j \in 1..(i - 1) : q[j].do = maker
Renewed(q, users, maker) ==
  \A i \in 1..Len(q) : q[i].do \in users =>
    \A k \in 1..(i - 1) : q[k].do = "brew" => \E j \in (k + 1)..(i - 1) : q[j].do = maker
Prepared(q, users, maker) == Supplied(q, users, maker) /\ Renewed(q, users, maker)

LEMMA Concatenation ==
  ASSUME NEW S, NEW p \in Seq(S), NEW q \in Seq(S)
  PROVE  /\ p \o q \in Seq(S) /\ Len(p \o q) = Len(p) + Len(q)
         /\ \A i \in 1..Len(p) : (p \o q)[i] = p[i]
         /\ \A i \in 1..Len(q) : (p \o q)[Len(p) + i] = q[i]
OBVIOUS

LEMMA ChainedAppend ==
  ASSUME NEW S, NEW p \in Seq(S), NEW q \in Seq(S), Chained(p), Chained(q), Starts(q)
  PROVE  Chained(p \o q) /\ (Starts(p) => Starts(p \o q))
<1> DEFINE r == p \o q
<1>1. /\ r \in Seq(S) /\ Len(p) \in Nat /\ Len(q) \in Nat /\ Len(r) = Len(p) + Len(q)
      /\ \A i \in 1..Len(p) : r[i] = p[i]
      /\ \A i \in 1..Len(q) : r[Len(p) + i] = q[i]
      /\ (p = <<>>) = (Len(p) = 0) /\ (q = <<>>) = (Len(q) = 0)
  OBVIOUS
<1>2. \A i \in (Len(p) + 1)..Len(r) : i - Len(p) \in 1..Len(q) /\ r[i] = q[i - Len(p)]
  BY <1>1
<1> HIDE DEF r
<1>3. ASSUME NEW i \in 1..(Len(r) - 1) PROVE Joined(r[i], r[i + 1])
  <2>1. CASE i < Len(p)
    <3>1. r[i] = p[i] /\ r[i + 1] = p[i + 1] /\ i \in 1..(Len(p) - 1)
      BY <1>1, <2>1
    <3> QED BY <3>1 DEF Chained
  <2>2. CASE i = Len(p)
    <3>1. r[i] = p[Len(p)] /\ r[i + 1] = q[1] /\ p # <<>> /\ q # <<>>
      BY <1>1, <1>2, <2>2
    <3>2. r[i].do \notin Openers /\ r[i + 1].do \notin Followers
      BY <3>1 DEF Chained, Starts
    <3> QED BY <3>2 DEF Joined, Openers, Followers
  <2>3. CASE i > Len(p)
    <3>1. r[i] = q[i - Len(p)] /\ r[i + 1] = q[(i - Len(p)) + 1] /\ i - Len(p) \in 1..(Len(q) - 1)
      BY <1>1, <1>2, <2>3
    <3> QED BY <3>1 DEF Chained
  <2> QED BY <1>1, <2>1, <2>2, <2>3
<1>4. r # <<>> => r[Len(r)].do \notin Openers
  <2>1. CASE q # <<>>
    BY <1>1, <1>2, <2>1 DEF Chained
  <2>2. CASE q = <<>>
    BY <1>1, <2>2 DEF Chained
  <2> QED BY <2>1, <2>2
<1>5. Starts(p) => Starts(r)
  <2>1. CASE p # <<>>
    BY <1>1, <2>1 DEF Starts
  <2>2. CASE p = <<>>
    BY <1>1, <1>2, <2>2 DEF Starts
  <2> QED BY <2>1, <2>2
<1> QED BY <1>3, <1>4, <1>5 DEF Chained, r

(* A sequence whose last maker is after its last brew prepares what follows.  *)
Leaves(p, maker) ==
  \E j \in 1..Len(p) : p[j].do = maker /\ \A k \in j..Len(p) : p[k].do # "brew"

LEMMA PreparedAppend ==
  ASSUME NEW S, NEW p \in Seq(S), NEW q \in Seq(S), NEW users, NEW maker,
         Prepared(p, users, maker),
         \/ Prepared(q, users, maker)
         \/ Leaves(p, maker) /\ \A i \in 1..Len(q) : q[i].do # "brew"
  PROVE  Prepared(p \o q, users, maker)
<1> DEFINE r == p \o q
<1>1. /\ r \in Seq(S) /\ Len(p) \in Nat /\ Len(q) \in Nat /\ Len(r) = Len(p) + Len(q)
      /\ \A i \in 1..Len(p) : r[i] = p[i]
      /\ \A i \in 1..Len(q) : r[Len(p) + i] = q[i]
  OBVIOUS
<1>2. \A i \in (Len(p) + 1)..Len(r) : i - Len(p) \in 1..Len(q) /\ r[i] = q[i - Len(p)]
  BY <1>1
<1> HIDE DEF r
<1> SUFFICES ASSUME NEW i \in 1..Len(r), r[i].do \in users
             PROVE  /\ \E j \in 1..(i - 1) : r[j].do = maker
                    /\ \A k \in 1..(i - 1) : r[k].do = "brew" =>
                         \E j \in (k + 1)..(i - 1) : r[j].do = maker
  BY DEF r, Prepared, Supplied, Renewed
<1>3. CASE i <= Len(p)
  <2>1. i \in 1..Len(p) /\ \A j \in 1..i : r[j] = p[j]
    BY <1>1, <1>3
  <2>2. PICK j \in 1..(i - 1) : p[j].do = maker
    BY <2>1 DEF Prepared, Supplied
  <2>3. ASSUME NEW k \in 1..(i - 1), r[k].do = "brew"
        PROVE  \E h \in (k + 1)..(i - 1) : r[h].do = maker
    <3>1. PICK h \in (k + 1)..(i - 1) : p[h].do = maker
      BY <2>1, <2>3 DEF Prepared, Renewed
    <3> QED BY <2>1, <3>1
  <2> QED BY <2>1, <2>2, <2>3
<1>4. CASE i > Len(p) /\ Prepared(q, users, maker)
  <2>1. i - Len(p) \in 1..Len(q) /\ r[i] = q[i - Len(p)]
    BY <1>1, <1>2, <1>4
  <2>2. PICK j \in 1..((i - Len(p)) - 1) : q[j].do = maker
    BY <1>4, <2>1 DEF Prepared, Supplied
  <2>3. Len(p) + j \in (Len(p) + 1)..(i - 1) /\ j \in 1..Len(q) /\ r[Len(p) + j].do = maker
    BY <1>1, <2>1, <2>2
  <2>4. ASSUME NEW k \in 1..(i - 1), r[k].do = "brew"
        PROVE  \E h \in (k + 1)..(i - 1) : r[h].do = maker
    <3>1. CASE k <= Len(p)
      BY <1>1, <2>3, <3>1
    <3>2. CASE k > Len(p)
      <4>1. k - Len(p) \in 1..((i - Len(p)) - 1) /\ q[k - Len(p)].do = "brew"
        BY <1>1, <1>2, <2>4, <3>2
      <4>2. PICK h \in ((k - Len(p)) + 1)..((i - Len(p)) - 1) : q[h].do = maker
        BY <1>4, <2>1, <4>1 DEF Prepared, Renewed
      <4>3. Len(p) + h \in (k + 1)..(i - 1) /\ h \in 1..Len(q)
        BY <1>1, <2>1, <4>1, <4>2
      <4> QED BY <1>1, <4>2, <4>3
    <3> QED BY <1>1, <3>1, <3>2
  <2>5. Len(p) + j \in 1..(i - 1)
    BY <1>1, <2>2, <2>3
  <2> QED BY <2>3, <2>4, <2>5
<1>5. CASE i > Len(p) /\ Leaves(p, maker) /\ \A h \in 1..Len(q) : q[h].do # "brew"
  <2>1. PICK j \in 1..Len(p) : p[j].do = maker /\ \A k \in j..Len(p) : p[k].do # "brew"
    BY <1>5 DEF Leaves
  <2>2. j \in 1..(i - 1) /\ r[j].do = maker
    BY <1>1, <1>5, <2>1
  <2>3. ASSUME NEW k \in 1..(i - 1), r[k].do = "brew" PROVE k < j
    <3>1. CASE k <= Len(p)
      BY <1>1, <2>1, <2>3, <3>1
    <3>2. CASE k > Len(p)
      <4>1. k - Len(p) \in 1..Len(q) /\ r[k] = q[k - Len(p)]
        BY <1>1, <1>2, <3>2
      <4> QED BY <1>5, <2>3, <4>1
    <3> QED BY <1>1, <3>1, <3>2
  <2>4. \A k \in 1..(i - 1) : k < j => j \in (k + 1)..(i - 1)
    BY <1>1, <2>2
  <2> QED BY <2>2, <2>3, <2>4
<1> QED BY <1>1, <1>3, <1>4, <1>5

(* What the steps left keep when the first is done, or when it is repeated.   *)
LEMMA TailFacts ==
  ASSUME NEW S, NEW q \in Seq(S), q # <<>>
  PROVE  /\ Head(q) \in S /\ Tail(q) \in Seq(S)
         /\ Chained(q) => /\ Chained(Tail(q))
                          /\ Tail(q) # <<>> => Joined(Head(q), Head(Tail(q)))
                          /\ Tail(q) = <<>> => Head(q).do \notin Openers
<1> DEFINE r == Tail(q)
<1>1. /\ Len(q) \in Nat \ {0} /\ r \in Seq(S) /\ Len(r) = Len(q) - 1 /\ Head(q) = q[1] /\ q[1] \in S
      /\ \A i \in 1..Len(r) : r[i] = q[i + 1]
  OBVIOUS
<1> HIDE DEF r
<1>3. (r = <<>> <=> Len(r) = 0) /\ (r # <<>> => Head(r) = r[1])
  BY <1>1
<1>2. ASSUME Chained(q)
      PROVE  Chained(r) /\ (r # <<>> => Joined(q[1], r[1])) /\ (r = <<>> => q[1].do \notin Openers)
  <2>1. ASSUME NEW i \in 1..(Len(r) - 1) PROVE Joined(r[i], r[i + 1])
    <3>1. r[i] = q[i + 1] /\ r[i + 1] = q[(i + 1) + 1] /\ i + 1 \in 1..(Len(q) - 1)
      BY <1>1
    <3> QED BY <1>2, <3>1 DEF Chained
  <2>2. r # <<>> => r[Len(r)] = q[Len(q)] /\ 1 \in 1..(Len(q) - 1) /\ r[1] = q[1 + 1]
    BY <1>1, <1>3
  <2>3. r = <<>> => q[1] = q[Len(q)]
    BY <1>1, <1>3
  <2>4. q[Len(q)].do \notin Openers
    BY <1>2 DEF Chained
  <2> QED BY <1>2, <2>1, <2>2, <2>3, <2>4 DEF Chained
<1> QED BY <1>1, <1>2, <1>3 DEF r

LEMMA TailPrepared ==
  ASSUME NEW S, NEW q \in Seq(S), q # <<>>, NEW users, NEW maker, Renewed(q, users, maker)
  PROVE  /\ Renewed(Tail(q), users, maker)
         /\ Head(q).do = "brew" => Supplied(Tail(q), users, maker)
         /\ Supplied(q, users, maker) =>
              Head(q).do \notin users /\ (Head(q).do # maker => Supplied(Tail(q), users, maker))
<1> DEFINE r == Tail(q)
<1>1. /\ Len(q) \in Nat \ {0} /\ r \in Seq(S) /\ Len(r) = Len(q) - 1 /\ Head(q) = q[1]
      /\ \A i \in 1..Len(r) : r[i] = q[i + 1]
  OBVIOUS
<1> HIDE DEF r
<1>2. ASSUME NEW i \in 1..Len(r), r[i].do \in users
      PROVE  i + 1 \in 1..Len(q) /\ q[i + 1].do \in users /\ (i + 1) - 1 = i
  BY <1>1, <1>2
<1>3. ASSUME NEW i \in 1..Len(r), r[i].do \in users, NEW k \in 1..(i - 1), r[k].do = "brew"
      PROVE  \E j \in (k + 1)..(i - 1) : r[j].do = maker
  <2>1. k + 1 \in 1..i /\ q[k + 1].do = "brew"
    BY <1>1, <1>3
  <2>2. PICK j \in ((k + 1) + 1)..i : q[j].do = maker
    BY <1>2, <1>3, <2>1 DEF Renewed
  <2>3. j - 1 \in (k + 1)..(i - 1) /\ r[j - 1] = q[j]
    BY <1>1, <2>1, <2>2
  <2> QED BY <2>2, <2>3
<1>4. ASSUME NEW i \in 1..Len(r), r[i].do \in users, NEW j \in 2..i, q[j].do = maker
      PROVE  \E h \in 1..(i - 1) : r[h].do = maker
  <2>1. j - 1 \in 1..(i - 1) /\ r[j - 1] = q[j]
    BY <1>1
  <2> QED BY <1>4, <2>1
<1>5. ASSUME q[1].do = "brew" PROVE Supplied(r, users, maker)
  <2> SUFFICES ASSUME NEW i \in 1..Len(r), r[i].do \in users
               PROVE  \E h \in 1..(i - 1) : r[h].do = maker
    BY DEF Supplied
  <2>1. 1 \in 1..i
    OBVIOUS
  <2>2. PICK j \in (1 + 1)..i : q[j].do = maker
    BY <1>2, <1>5, <2>1 DEF Renewed
  <2> QED BY <1>4, <2>2
<1>6. ASSUME Supplied(q, users, maker), q[1].do # maker PROVE Supplied(r, users, maker)
  <2> SUFFICES ASSUME NEW i \in 1..Len(r), r[i].do \in users
               PROVE  \E h \in 1..(i - 1) : r[h].do = maker
    BY DEF Supplied
  <2>1. PICK j \in 1..i : q[j].do = maker
    BY <1>2, <1>6 DEF Supplied
  <2>2. j \in 2..i
    BY <1>6, <2>1
  <2> QED BY <1>4, <2>1, <2>2
<1>7. Supplied(q, users, maker) => q[1].do \notin users
  <2>1. 1 \in 1..Len(q) /\ ~\E j \in 1..(1 - 1) : TRUE
    BY <1>1
  <2> QED BY <2>1 DEF Supplied
<1> QED BY <1>1, <1>3, <1>5, <1>6, <1>7 DEF Renewed, r

LEMMA SameSteps ==
  ASSUME NEW S, NEW q \in Seq(S), q # <<>>, Head(q).do \notin Openers \cup Followers,
         NEW h \in S, h.do = Head(q).do
  PROVE  LET r == <<h>> \o Tail(q)
         IN  /\ r \in Seq(S) /\ r # <<>> /\ Head(r) = h
             /\ Chained(q) => Chained(r)
             /\ \A users, maker :
                  /\ Supplied(q, users, maker) => Supplied(r, users, maker)
                  /\ Renewed(q, users, maker) => Renewed(r, users, maker)
<1> DEFINE r == <<h>> \o Tail(q)
<1>1. /\ r \in Seq(S) /\ Len(r) = Len(q) /\ r # <<>> /\ Head(r) = h /\ r[1] = h /\ Head(q) = q[1]
      /\ \A i \in 2..Len(q) : r[i] = q[i]
      /\ Len(q) \in Nat \ {0}
  OBVIOUS
<1> HIDE DEF r
<1>2. \A i \in 1..Len(q) : r[i].do = q[i].do
  BY <1>1
<1>3. ASSUME Chained(q) PROVE Chained(r)
  <2>1. ASSUME NEW i \in 1..(Len(r) - 1) PROVE Joined(r[i], r[i + 1])
    <3>1. Joined(q[i], q[i + 1])
      BY <1>1, <1>3 DEF Chained
    <3>2. CASE i = 1
      <4>1. r[2] = q[2] /\ r[1].do = q[1].do /\ i + 1 = 2 /\ r[1].do \notin Openers
        BY <1>1, <3>2
      <4> QED BY <3>1, <3>2, <4>1 DEF Joined, Openers
    <3>3. CASE i # 1
      BY <1>1, <3>1, <3>3
    <3> QED BY <3>2, <3>3
  <2>2. r[Len(r)].do = q[Len(q)].do
    BY <1>1, <1>2
  <2> QED BY <1>3, <2>1, <2>2 DEF Chained
<1>4. ASSUME NEW users, NEW maker
      PROVE  /\ Supplied(q, users, maker) => Supplied(r, users, maker)
             /\ Renewed(q, users, maker) => Renewed(r, users, maker)
  <2>1. \A i \in 1..Len(q) : \A j \in 1..(i - 1) : r[j].do = q[j].do
    BY <1>1, <1>2
  <2>2. Supplied(q, users, maker) => Supplied(r, users, maker)
    BY <1>1, <1>2, <2>1 DEF Supplied
  <2>3. ASSUME Renewed(q, users, maker) PROVE Renewed(r, users, maker)
    <3> SUFFICES ASSUME NEW i \in 1..Len(r), r[i].do \in users, NEW k \in 1..(i - 1), r[k].do = "brew"
                 PROVE  \E j \in (k + 1)..(i - 1) : r[j].do = maker
      BY DEF Renewed
    <3>1. PICK j \in (k + 1)..(i - 1) : q[j].do = maker
      BY <1>1, <1>2, <2>1, <2>3 DEF Renewed
    <3>2. j \in 1..(i - 1)
      BY <3>1
    <3> QED BY <1>1, <2>1, <3>1, <3>2
  <2> QED BY <2>2, <2>3
<1> QED BY <1>1, <1>3, <1>4 DEF r

(* What a session that tests is made of: no test before what it needs is      *)
(* made of what was brewed last.                                              *)
Rebuilding(q) ==
  /\ Prepared(q, {"make"}, "antlrCpp") /\ Prepared(q, {"grun"}, "javac")
  /\ Prepared(q, {"analyse", "compile"}, "make")
Blocks(s) ==
  {q \in Seq(Allowed(s)) :
     /\ Chained(q) /\ Starts(q) /\ Prepared(q, {"javac"}, "antlrJava")
     /\ s.build => Rebuilding(q)}
TestBlocks(stage) == {q \in Seq(PhaseSteps(stage)) : Chained(q) /\ Starts(q)}

LEMMA BlocksAppend ==
  ASSUME NEW s PROVE <<>> \in Blocks(s) /\ \A p, q \in Blocks(s) : p \o q \in Blocks(s)
<1>1. <<>> \in Blocks(s)
  <2>1. <<>> \in Seq(Allowed(s)) /\ Len(<<>>) = 0
    OBVIOUS
  <2>2. 1..0 = {} /\ 1..(0 - 1) = {}
    OBVIOUS
  <2> QED BY <2>1, <2>2 DEF Blocks, Chained, Starts, Prepared, Supplied, Renewed, Rebuilding
<1>2. ASSUME NEW p \in Blocks(s), NEW q \in Blocks(s) PROVE p \o q \in Blocks(s)
  <2>1. p \in Seq(Allowed(s)) /\ q \in Seq(Allowed(s)) /\ p \o q \in Seq(Allowed(s))
    BY DEF Blocks
  <2>2. Chained(p \o q) /\ Starts(p \o q)
    BY <2>1, ChainedAppend DEF Blocks
  <2>3. \A users, maker : Prepared(p, users, maker) /\ Prepared(q, users, maker)
                          => Prepared(p \o q, users, maker)
    BY <2>1, PreparedAppend
  <2> QED BY <2>1, <2>2, <2>3 DEF Blocks, Rebuilding
<1> QED BY <1>1, <1>2

LEMMA TestBlock ==
  ASSUME NEW stage \in Stages, NEW test \in Cases
  PROVE  TestSteps(stage, test) \in TestBlocks(stage)
<1> DEFINE q == TestSteps(stage, test)
           D == DOMAIN Phases(stage)
<1>1. ASSUME NEW n \in Nat, D = 1..n
      PROVE  q \in Seq(PhaseSteps(stage)) /\ Len(q) = n
             /\ \A i \in 1..n : q[i].do = Phases(stage)[i] /\ q[i].test = test
  <2>1. q = [i \in 1..n |-> [do |-> Phases(stage)[i], stage |-> stage, test |-> test, gui |-> FALSE]]
    BY <1>1 DEF TestSteps
  <2>2. \A i \in 1..n : q[i] \in PhaseSteps(stage)
    BY <1>1, <2>1 DEF PhaseSteps
  <2>3. q \in [1..n -> PhaseSteps(stage)]
    BY <2>1, <2>2
  <2> QED BY <2>1, <2>3
<1> HIDE DEF q
<1>2. CASE stage \in {"grammar", "semantic"}
  <2>1. Phases(stage) = <<IF stage = "grammar" THEN "grun" ELSE "analyse">>
    BY <1>2 DEF Phases
  <2>2. D = 1..1
    BY <2>1
  <2>3. q \in Seq(PhaseSteps(stage)) /\ Len(q) = 1 /\ q[1].do \in {"grun", "analyse"}
    BY <1>1, <2>1, <2>2
  <2>4. 1..(1 - 1) = {}
    OBVIOUS
  <2> QED BY <2>3, <2>4 DEF TestBlocks, Chained, Starts, Openers, Followers, q
<1>3. CASE stage \in {"backend", "programs"}
  <2>1. Phases(stage) = <<"gcc", "reference", "compile", "assemble", "run">>
    BY <1>3 DEF Phases
  <2>2. D = 1..5
    BY <2>1
  <2>3. /\ q \in Seq(PhaseSteps(stage)) /\ Len(q) = 5
        /\ q[1].do = "gcc" /\ q[2].do = "reference" /\ q[3].do = "compile"
        /\ q[4].do = "assemble" /\ q[5].do = "run" /\ \A i \in 1..5 : q[i].test = test
    BY <1>1, <2>1, <2>2
  <2>4. ASSUME NEW i \in 1..(5 - 1) PROVE Joined(q[i], q[i + 1])
    <3>1. i = 1 \/ i = 2 \/ i = 3 \/ i = 4
      OBVIOUS
    <3>2. q[i].test = test /\ q[i + 1].test = test
      BY <2>3
    <3> QED BY <2>3, <3>1, <3>2 DEF Joined
  <2> QED BY <2>3, <2>4 DEF TestBlocks, Chained, Starts, Openers, Followers, q
<1> QED BY <1>2, <1>3 DEF Stages

(* The tests of one stage.                                                    *)
LEMMA TestsBlock ==
  ASSUME NEW stage \in Stages
  PROVE  FlattenSeq([i \in DOMAIN Suites[stage] |-> TestSteps(stage, Suites[stage][i])])
           \in TestBlocks(stage)
<1> DEFINE T == TestBlocks(stage)
           suite == Suites[stage]
           tests == [i \in DOMAIN suite |-> TestSteps(stage, suite[i])]
<1>1. suite \in Seq(Cases) /\ \A i \in DOMAIN suite : suite[i] \in Cases
  <2>1. suite \in Seq(Cases)
    BY ProgramsAssumption, Zenon DEF Cases
  <2> QED BY <2>1
<1>2. \A i \in DOMAIN suite : TestSteps(stage, suite[i]) \in T
  BY <1>1, TestBlock
<1> HIDE DEF T
<1>3. tests \in Seq(T)
  <2>1. DOMAIN suite = 1..Len(suite) /\ Len(suite) \in Nat
    BY <1>1
  <2> QED BY <1>2, <2>1
<1>4. <<>> \in T
  <2>1. <<>> \in Seq(PhaseSteps(stage)) /\ Len(<<>>) = 0 /\ 1..(0 - 1) = {}
    OBVIOUS
  <2> QED BY <2>1 DEF T, TestBlocks, Chained, Starts
<1>5. \A p, q \in T : p \o q \in T
  BY ChainedAppend DEF T, TestBlocks
<1> QED BY <1>3, <1>4, <1>5, Flattened DEF T

LEMMA StageBlock ==
  ASSUME NEW s, s.kind = "test", s.stages \in Seq(Stages), s.build \in BOOLEAN,
         NEW n \in DOMAIN s.stages
  PROVE  StageSteps(s.stages[n], s.build) \in Blocks(s)
<1> DEFINE stage == s.stages[n]
           S == Allowed(s)
           q == FlattenSeq([i \in DOMAIN Suites[stage] |-> TestSteps(stage, Suites[stage][i])])
           p == (IF s.build THEN BuildGrammar \o (IF stage = "grammar" THEN <<>> ELSE BuildCaramel)
                 ELSE <<>>) \o <<Step("check")>>
<1>1. stage \in Stages
  OBVIOUS
<1>2. q \in TestBlocks(stage)
  BY <1>1, TestsBlock
<1> HIDE DEF q
<1>3. /\ \A d \in BuildActs : s.build => Step(d) \in S
      /\ Step("check") \in S /\ PhaseSteps(stage) \subseteq S
  BY DEF Allowed
<1>4. StageSteps(stage, s.build) = p \o q
  BY DEF StageSteps, q
<1>5. q \in Seq(S) /\ Chained(q) /\ Starts(q)
  BY <1>2, <1>3 DEF TestBlocks
<1>6. \A i \in 1..Len(q) : q[i].do \in
        IF stage = "grammar" THEN {"grun"}
        ELSE {"analyse", "gcc", "reference", "compile", "assemble", "run"}
  <2>1. ASSUME NEW i \in 1..Len(q)
        PROVE  q[i].do \in {Phases(stage)[j] : j \in DOMAIN Phases(stage)}
    <3>1. q[i] \in PhaseSteps(stage)
      BY <1>2 DEF TestBlocks
    <3> QED BY <3>1, Zenon DEF PhaseSteps
  <2>2. CASE stage = "grammar"
    BY <2>1, <2>2 DEF Phases
  <2>3. CASE stage = "semantic"
    BY <2>1, <2>3 DEF Phases
  <2>4. CASE stage \in {"backend", "programs"}
    BY <2>1, <2>4 DEF Phases
  <2> QED BY <1>1, <2>2, <2>3, <2>4 DEF Stages
<1>7. Prepared(q, {"javac"}, "antlrJava") /\ Prepared(q, {"make"}, "antlrCpp")
  BY <1>6 DEF Prepared, Supplied, Renewed
<1> HIDE DEF S, p
<1>8. /\ p \in Seq(S) /\ Chained(p) /\ Starts(p) /\ Prepared(p, {"javac"}, "antlrJava")
      /\ s.build => /\ Rebuilding(p) /\ Leaves(p, "javac")
                    /\ stage # "grammar" => Leaves(p, "make")
  <2>1. CASE ~s.build
    <3>1. p = <<Step("check")>>
      BY <2>1 DEF p
    <3> QED BY <1>3, <2>1, <3>1 DEF Chained, Starts, Prepared, Supplied, Renewed, Step, Openers, Followers
  <2>2. CASE s.build /\ stage = "grammar"
    <3> DEFINE g == BuildGrammar
               e == <<Step("check")>>
    <3>1. g \in Seq(S) /\ e \in Seq(S)
      BY <1>3, <2>2 DEF BuildGrammar, BuildActs
    <3>2. /\ Len(g) = 4 /\ g[1].do = "brew" /\ g[2].do = "antlrJava" /\ g[3].do = "javac"
          /\ g[4].do = "antlrCpp" /\ Len(e) = 1 /\ e[1].do = "check"
      BY DEF BuildGrammar, Step
    <3> HIDE DEF e
    <3>3. p = g \o e
      <4>1. g \o <<>> = g
        BY <3>1
      <4> QED BY <2>2, <4>1 DEF p, e
    <3>4. /\ p \in Seq(S) /\ Len(p) = Len(g) + Len(e) /\ (\A i \in 1..Len(g) : p[i] = g[i])
          /\ \A i \in 1..Len(e) : p[Len(g) + i] = e[i]
      BY <3>1, <3>3, Concatenation
    <3>5. /\ Len(p) = 5 /\ p[1].do = "brew" /\ p[2].do = "antlrJava"
          /\ p[3].do = "javac" /\ p[4].do = "antlrCpp" /\ p[4 + 1].do = "check"
      BY <3>2, <3>4
    <3>6. p[5].do = "check"
      BY <3>5
    <3>7. \A i \in 1..Len(p) : i = 1 \/ i = 2 \/ i = 3 \/ i = 4 \/ i = 5
      BY <3>5
    <3>8. Chained(p) /\ Starts(p)
      BY <3>5, <3>6, <3>7 DEF Chained, Starts, Joined, Openers, Followers
    <3>9. Prepared(p, {"javac"}, "antlrJava") /\ Prepared(p, {"make"}, "antlrCpp")
          /\ Prepared(p, {"grun"}, "javac") /\ Prepared(p, {"analyse", "compile"}, "make")
      BY <3>5, <3>6, <3>7 DEF Prepared, Supplied, Renewed
    <3>10. Leaves(p, "javac")
      BY <3>5, <3>6, <3>7 DEF Leaves
    <3> QED BY <2>2, <3>4, <3>8, <3>9, <3>10 DEF Rebuilding
  <2>3. CASE s.build /\ stage # "grammar"
    <3> DEFINE g == BuildGrammar
               c == BuildCaramel
               b == g \o c
               e == <<Step("check")>>
    <3>1. g \in Seq(S) /\ c \in Seq(S) /\ e \in Seq(S)
      BY <1>3, <2>3 DEF BuildGrammar, BuildCaramel, BuildActs
    <3>2. /\ Len(g) = 4 /\ g[1].do = "brew" /\ g[2].do = "antlrJava" /\ g[3].do = "javac"
          /\ g[4].do = "antlrCpp"
          /\ Len(c) = 3 /\ c[1].do = "enter" /\ c[2].do = "cmake" /\ c[3].do = "make"
          /\ Len(e) = 1 /\ e[1].do = "check"
      BY DEF BuildGrammar, BuildCaramel, Step
    <3>3. b \in Seq(S)
      BY <3>1, Concatenation
    <3>4. /\ Len(b) = Len(g) + Len(c) /\ (\A i \in 1..Len(g) : b[i] = g[i])
          /\ \A i \in 1..Len(c) : b[Len(g) + i] = c[i]
      BY <3>1, Concatenation
    <3> HIDE DEF b, e
    <3>5. p = b \o e
      BY <2>3 DEF p, b, e
    <3>6. /\ p \in Seq(S) /\ Len(p) = Len(b) + Len(e) /\ (\A i \in 1..Len(b) : p[i] = b[i])
          /\ \A i \in 1..Len(e) : p[Len(b) + i] = e[i]
      BY <3>1, <3>3, <3>5, Concatenation
    <3>7. /\ Len(b) = 7 /\ b[1] = g[1] /\ b[2] = g[2] /\ b[3] = g[3] /\ b[4] = g[4]
          /\ b[4 + 1] = c[1] /\ b[4 + 2] = c[2] /\ b[4 + 3] = c[3]
      BY <3>2, <3>4
    <3>8. /\ Len(p) = 8 /\ p[1] = b[1] /\ p[2] = b[2] /\ p[3] = b[3] /\ p[4] = b[4]
          /\ p[5] = b[5] /\ p[6] = b[6] /\ p[7] = b[7] /\ p[7 + 1] = e[1]
      BY <3>2, <3>6, <3>7
    <3>9. /\ p[1].do = "brew" /\ p[2].do = "antlrJava" /\ p[3].do = "javac"
          /\ p[4].do = "antlrCpp" /\ p[5].do = "enter" /\ p[6].do = "cmake"
          /\ p[7].do = "make" /\ p[8].do = "check"
      BY <3>2, <3>7, <3>8
    <3>10. \A i \in 1..Len(p) :
             i = 1 \/ i = 2 \/ i = 3 \/ i = 4 \/ i = 5 \/ i = 6 \/ i = 7 \/ i = 8
      BY <3>8
    <3>11. Len(p) = 8
      BY <3>8
    <3>12. Chained(p) /\ Starts(p)
      BY <3>9, <3>10, <3>11 DEF Chained, Starts, Joined, Openers, Followers
    <3>13. Prepared(p, {"javac"}, "antlrJava") /\ Prepared(p, {"make"}, "antlrCpp")
           /\ Prepared(p, {"grun"}, "javac") /\ Prepared(p, {"analyse", "compile"}, "make")
      BY <3>9, <3>10, <3>11 DEF Prepared, Supplied, Renewed
    <3>14. Leaves(p, "javac") /\ Leaves(p, "make")
      BY <3>9, <3>10, <3>11 DEF Leaves
    <3> QED BY <2>3, <3>6, <3>12, <3>13, <3>14 DEF Rebuilding
  <2> QED BY <2>1, <2>2, <2>3
<1>9. p \o q \in Seq(S) /\ Chained(p \o q) /\ Starts(p \o q)
  BY <1>5, <1>8, ChainedAppend
<1>10. Prepared(p \o q, {"javac"}, "antlrJava")
  BY <1>5, <1>7, <1>8, PreparedAppend
<1>11. ASSUME s.build PROVE Rebuilding(p \o q)
  <2>1. \A i \in 1..Len(q) : q[i].do # "brew"
    BY <1>6
  <2>2. Rebuilding(p) /\ Leaves(p, "javac")
    BY <1>8, <1>11
  <2>3. Prepared(p \o q, {"make"}, "antlrCpp")
    BY <1>5, <1>7, <1>8, <2>2, PreparedAppend DEF Rebuilding
  <2>4. Prepared(p \o q, {"grun"}, "javac")
    BY <1>5, <1>8, <2>1, <2>2, PreparedAppend DEF Rebuilding
  <2>5. Prepared(p \o q, {"analyse", "compile"}, "make")
    <3>1. CASE stage = "grammar"
      <4>1. Prepared(q, {"analyse", "compile"}, "make")
        BY <1>6, <3>1 DEF Prepared, Supplied, Renewed
      <4> QED BY <1>5, <1>8, <2>2, <4>1, PreparedAppend DEF Rebuilding
    <3>2. CASE stage # "grammar"
      BY <1>5, <1>8, <1>11, <2>1, <2>2, <3>2, PreparedAppend DEF Rebuilding
    <3> QED BY <3>1, <3>2
  <2> QED BY <2>3, <2>4, <2>5 DEF Rebuilding
<1> QED BY <1>4, <1>9, <1>10, <1>11 DEF Blocks, S

LEMMA SessionSteps ==
  ASSUME NEW s \in Sessions
  PROVE  /\ Steps(s) \in Seq(Allowed(s)) /\ Prepared(Steps(s), {"javac"}, "antlrJava")
         /\ s.kind # "hand" => Chained(Steps(s)) /\ Starts(Steps(s))
         /\ s.kind = "test" /\ s.build => Rebuilding(Steps(s))
<1> DEFINE q == Steps(s)
<1>1. CASE s.kind = "test"
  <2>1. s.stages \in Seq(Stages) /\ s.build \in BOOLEAN
    BY <1>1, SessionsAssumption
  <2> DEFINE stages == [i \in DOMAIN s.stages |-> StageSteps(s.stages[i], s.build)]
  <2>2. q = FlattenSeq(stages)
    BY <1>1 DEF Steps
  <2>3. \A i \in DOMAIN s.stages : StageSteps(s.stages[i], s.build) \in Blocks(s)
    BY <1>1, <2>1, StageBlock
  <2>4. stages \in Seq(Blocks(s))
    <3>1. DOMAIN s.stages = 1..Len(s.stages) /\ Len(s.stages) \in Nat
      BY <2>1
    <3> QED BY <2>3, <3>1
  <2> HIDE DEF stages
  <2>5. q \in Blocks(s)
    BY <2>2, <2>4, BlocksAppend, Flattened
  <2> QED BY <1>1, <2>5 DEF Blocks
<1>2. CASE s.kind = "clean"
  <2>1. q = <<Step("clean")>> /\ Allowed(s) = {Step("clean")}
    BY <1>2 DEF Steps, Allowed
  <2> QED BY <1>2, <2>1 DEF Chained, Starts, Prepared, Supplied, Renewed, Step, Openers, Followers
<1>3. CASE s.kind = "hand"
  <2>1. q = <<Step("call")>> /\ Allowed(s) = {Step("call"), Step("assemble")}
    BY <1>3 DEF Steps, Allowed
  <2> QED BY <1>3, <2>1 DEF Prepared, Supplied, Renewed, Step
<1>4. CASE s.kind = "build"
  <2> DEFINE S == Allowed(s)
             g == IF s.grammar THEN BuildGrammar ELSE <<>>
             c == IF s.caramel THEN BuildCaramel ELSE <<>>
  <2>1. q = g \o c /\ S = {Step(d) : d \in BuildActs}
    BY <1>4 DEF Steps, Allowed
  <2>2. \A d \in BuildActs : Step(d) \in S
    BY <2>1
  <2>3. s.grammar \in BOOLEAN /\ s.caramel \in BOOLEAN
    BY <1>4, SessionsAssumption
  <2> HIDE DEF S, g, c
  <2>4. g \in Seq(S) /\ Chained(g) /\ Starts(g) /\ Prepared(g, {"javac"}, "antlrJava")
    <3>1. CASE s.grammar
      <4>1. g = <<Step("brew"), Step("antlrJava"), Step("javac"), Step("antlrCpp")>>
        BY <3>1 DEF g, BuildGrammar
      <4>2. g \in Seq(S)
        BY <2>2, <4>1 DEF BuildActs
      <4>3. /\ Len(g) = 4 /\ g[1].do = "brew" /\ g[2].do = "antlrJava"
            /\ g[3].do = "javac" /\ g[4].do = "antlrCpp"
        BY <4>1 DEF Step
      <4> HIDE <4>1
      <4>4. \A i \in 1..Len(g) : i = 1 \/ i = 2 \/ i = 3 \/ i = 4
        BY <4>3
      <4>5. Chained(g) /\ Starts(g)
        BY <4>3, <4>4 DEF Chained, Starts, Joined, Openers, Followers
      <4> QED BY <4>2, <4>3, <4>4, <4>5 DEF Prepared, Supplied, Renewed
    <3>2. CASE ~s.grammar
      BY <3>2 DEF g, Chained, Starts, Prepared, Supplied, Renewed
    <3> QED BY <2>3, <3>1, <3>2
  <2>5. c \in Seq(S) /\ Chained(c) /\ Starts(c) /\ Prepared(c, {"javac"}, "antlrJava")
    <3>1. CASE s.caramel
      <4>1. c = <<Step("enter"), Step("cmake"), Step("make")>>
        BY <3>1 DEF c, BuildCaramel
      <4>2. c \in Seq(S)
        BY <2>2, <4>1 DEF BuildActs
      <4>3. Len(c) = 3 /\ c[1].do = "enter" /\ c[2].do = "cmake" /\ c[3].do = "make"
        BY <4>1 DEF Step
      <4> HIDE <4>1
      <4>4. \A i \in 1..Len(c) : i = 1 \/ i = 2 \/ i = 3
        BY <4>3
      <4>5. Chained(c) /\ Starts(c)
        BY <4>3, <4>4 DEF Chained, Starts, Joined, Openers, Followers
      <4> QED BY <4>2, <4>3, <4>4, <4>5 DEF Prepared, Supplied, Renewed
    <3>2. CASE ~s.caramel
      BY <3>2 DEF c, Chained, Starts, Prepared, Supplied, Renewed
    <3> QED BY <2>3, <3>1, <3>2
  <2>6. Chained(g \o c) /\ Starts(g \o c) /\ Prepared(g \o c, {"javac"}, "antlrJava") /\ g \o c \in Seq(S)
    BY <2>4, <2>5, ChainedAppend, PreparedAppend
  <2> QED BY <1>4, <2>1, <2>6 DEF S
<1> QED BY <1>1, <1>2, <1>3, <1>4, SessionsAssumption
-----------------------------------------------------------------------------
(* Types *)

Acts == {"grun", "analyse", "gcc", "reference", "compile", "assemble", "run"}

Before(now) == [of : 0..MaxVersion, time : 0..(now - 1)]
TornBefore(now) == [of : {Torn}, time : 0..(now - 1)]
Parsers == {"java", "class", "cpp"}
Typed(d, now) ==
  /\ IsDisk(d) /\ now \in Nat
  /\ \A file \in Parsers \cup {"source"} : d[file] \in Before(now)
  /\ d["brewed"] \in Before(now) \cup TornBefore(now)
  /\ d["source"].of # 0
  /\ d["caramel"] \in 0..MaxVersion /\ d["dirs"] \subseteq {"build", "cpp-bin"}
  /\ d["reference"] \in Results /\ d["program"] \in Results
  /\ d["assembly"] \in [{"top", "bin"} -> Results]

Verdicts == [stage : Stages, of : Cases, succeeded : BOOLEAN, version : 0..MaxVersion]
TypeInv ==
  /\ Typed(disk, clock)
  /\ grammar \in Before(clock) /\ brewing \in {"no", "read", "opened"}
  /\ last \in {"none", "running", "done", "failed", "interrupted"}
  /\ cwd \in {"top", "bin"} /\ DOMAIN bench = {"reference", "compiler"}
  /\ bench.compiler \in 0..MaxVersion
  /\ verdicts \in Seq(Verdicts) /\ failed \in Seq(Programs) /\ Len(failed) <= Len(verdicts)
  /\ count \in Nat /\ (Running => count > 0)
  /\ faults \subseteq (1..count) \X Tools

(* Only what the session may consist of is left to do.                        *)
NoSession == [kind |-> "none"]
PlanInv ==
  /\ session \in Sessions \cup {NoSession}
  /\ todo \in Seq(Allowed(session)) /\ (~Running => todo = <<>>)
  /\ session.kind # "hand" => Chained(todo)

LEMMA TypedWrites ==
  ASSUME NEW d, NEW now, Typed(d, now)
  PROVE  /\ Typed(d, now + 1)
         /\ Typed(Opened(d, now), now + 1)
         /\ \A g \in Before(now) : Typed(Brewed(d, g, now), now + 1)
         /\ d["brewed"].of \in Versions => /\ Typed(GeneratedJava(d, now), now + 1)
                                          /\ Typed(GeneratedCpp(d, now), now + 1)
         /\ Typed(CompiledJava(d, now), now + 1)
         /\ Typed(Entered(d), now) /\ Typed(Configured(d), now) /\ Typed(Made(d), now)
         /\ Typed(Cleaned(d, NoResult), now)
<1>1. /\ now \in Nat /\ now - 1 \in Nat /\ now \in 0..((now + 1) - 1) /\ 0 \in 0..(now - 1)
      /\ Before(now) \subseteq Before(now + 1) /\ TornBefore(now) \subseteq TornBefore(now + 1)
  <2>1. now \in Nat /\ d["source"].time \in 0..(now - 1)
    BY DEF Typed, Before
  <2> QED BY <2>1 DEF Before, TornBefore
<1>2. /\ \A v \in 0..MaxVersion : [of |-> v, time |-> now] \in Before(now + 1)
      /\ [of |-> Torn, time |-> now] \in TornBefore(now + 1)
      /\ NoFile \in Before(now) /\ NoResult \in Results
  BY <1>1, BoundsAssumption DEF Before, TornBefore, NoFile, Results
<1>3. /\ \A file \in Parsers \cup {"source"} : d[file].of \in 0..MaxVersion
      /\ now + 1 \in Nat /\ 0 \in 0..MaxVersion /\ Versions \subseteq 0..MaxVersion
  BY <1>1, BoundsAssumption DEF Typed, Before, Versions
<1>4. Typed(d, now + 1)
  BY <1>1 DEF Typed
<1> USE DEF IsDisk, Fields, Parsers
<1>5. Typed(Opened(d, now), now + 1) /\ \A g \in Before(now) : Typed(Brewed(d, g, now), now + 1)
  <2>1. \A g \in Before(now) : g.of \in 0..MaxVersion
    BY DEF Before
  <2> QED BY <1>2, <1>3, <1>4, <2>1 DEF Typed, Opened, Brewed
<1>6. ASSUME d["brewed"].of \in Versions
      PROVE  Typed(GeneratedJava(d, now), now + 1) /\ Typed(GeneratedCpp(d, now), now + 1)
  BY <1>2, <1>3, <1>4, <1>6 DEF Typed, GeneratedJava, GeneratedCpp
<1>7. Typed(CompiledJava(d, now), now + 1)
  BY <1>2, <1>3, <1>4 DEF Typed, CompiledJava
<1>8. Typed(Entered(d), now) /\ Typed(Configured(d), now)
  BY DEF Typed, Entered, Configured
<1>9. Typed(Made(d), now)
  BY <1>3 DEF Typed, Made
<1>10. Typed(Cleaned(d, NoResult), now)
  BY <1>2, <1>3 DEF Typed, Cleaned
<1> QED BY <1>4, <1>5, <1>6, <1>7, <1>8, <1>9, <1>10

(* What the step at hand is                                                   *)
LEMMA HeadFacts ==
  ASSUME PlanInv, todo # <<>>
  PROVE  /\ Running /\ session \in Sessions
         /\ Head(todo) \in Allowed(session) /\ Tail(todo) \in Seq(Allowed(session))
         /\ Head(todo).do \in Acts \ {"assemble"} => session.kind = "test"
         /\ Head(todo).do = "assemble" => session.kind \in {"test", "hand"}
         /\ Head(todo).do \in BuildActs =>
              \/ session.kind = "build"
              \/ session.kind = "test" /\ session.build
         /\ Head(todo).do = "check" => session.kind = "test"
         /\ Head(todo).do = "call" => session.kind = "hand"
         /\ Head(todo).do = "clean" => session.kind = "clean"
         /\ session.kind = "test" /\ Head(todo).do \in Acts =>
              /\ session.stages \in Seq(Stages)
              /\ \E i \in DOMAIN session.stages : Head(todo).stage = session.stages[i]
              /\ Head(todo) \in PhaseSteps(Head(todo).stage) /\ Head(todo).stage \in Stages
<1>1. Head(todo) \in Allowed(session) /\ Tail(todo) \in Seq(Allowed(session)) /\ Running
  BY DEF PlanInv
<1>2. session \in Sessions
  <2>1. session.kind # "none"
    BY <1>1 DEF Allowed
  <2> QED BY <2>1 DEF PlanInv, NoSession
<1>3. session.kind \in {"build", "test", "clean", "hand"}
  BY <1>2, SessionsAssumption
<1> DEFINE h == Head(todo)
<1> HIDE DEF h
<1>4. CASE session.kind = "build"
  BY <1>1, <1>2, <1>4 DEF Allowed, Step, BuildActs, Acts, h
<1>5. CASE session.kind = "clean"
  BY <1>1, <1>2, <1>5 DEF Allowed, Step, BuildActs, Acts, h
<1>6. CASE session.kind = "hand"
  BY <1>1, <1>2, <1>6 DEF Allowed, Step, BuildActs, Acts, h
<1>7. CASE session.kind = "test"
  <2>1. session.stages \in Seq(Stages)
    BY <1>2, <1>7, SessionsAssumption
  <2>2. \/ h = Step("check")
        \/ session.build /\ \E d \in BuildActs : h = Step(d)
        \/ \E i \in DOMAIN session.stages : h \in PhaseSteps(session.stages[i])
    BY <1>1, <1>7 DEF Allowed, h
  <2>3. CASE h = Step("check")
    BY <1>1, <1>2, <1>7, <2>3 DEF Step, Acts, BuildActs, h
  <2>4. CASE session.build /\ \E d \in BuildActs : h = Step(d)
    BY <1>1, <1>2, <1>7, <2>4 DEF Step, Acts, BuildActs, h
  <2>5. CASE \E i \in DOMAIN session.stages : h \in PhaseSteps(session.stages[i])
    <3>1. PICK i \in DOMAIN session.stages : h \in PhaseSteps(session.stages[i])
      BY <2>5
    <3>2. session.stages[i] \in Stages
      BY <2>1
    <3>3. h.stage = session.stages[i] /\ h.do \in Acts
      BY <3>1, <3>2 DEF PhaseSteps, Phases, Stages, Acts
    <3> QED BY <1>1, <1>2, <1>7, <2>1, <3>1, <3>2, <3>3 DEF Acts, BuildActs, h
  <2> QED BY <2>2, <2>3, <2>4, <2>5
<1> QED BY <1>3, <1>4, <1>5, <1>6, <1>7
-----------------------------------------------------------------------------
(* What a step makes of the steps that are left *)

Same == UNCHANGED <<session, last, count>>
Continued == todo # <<>> /\ todo' = Tail(todo) /\ Same
Repeated ==
  /\ todo # <<>> /\ session.kind = "test" /\ Head(todo).do \in {"grun", "analyse"}
  /\ todo' = <<[Head(todo) EXCEPT !.gui = TRUE]>> \o Tail(todo) /\ Same
Stopped == todo' = <<>> /\ ~Running' /\ UNCHANGED <<session, count>>
Followed ==
  /\ session.kind = "hand" /\ Running /\ todo' \in {<<>>, <<Step("assemble")>>} /\ Same
Waited == UNCHANGED todo /\ Same
Moved == Continued \/ Repeated \/ Stopped \/ Followed \/ Waited

LEMMA Moves ==
  ASSUME PlanInv, ChefNext \/ Interrupt \/ Edit
  PROVE  Moved
<1> USE DEF Moved, Same, Doing, Running
<1>1. CASE AntlrJava \/ Javac \/ AntlrCpp \/ Enter \/ CMake \/ Make \/ Clean
  BY <1>1 DEF AntlrJava, Javac, AntlrCpp, Enter, CMake, Make, Clean,
              Continue, Fail, Continued, Stopped
<1>2. CASE CheckBuild \/ GccBuild \/ RunReference \/ Compile \/ Assemble \/ Run
  BY <1>2 DEF CheckBuild, GccBuild, RunReference, Compile, Assemble, Run,
              Continue, Fail, Continued, Stopped
<1>3. CASE Grun \/ Analyse
  <2>1. todo # <<>> /\ Head(todo).do \in {"grun", "analyse"}
    BY <1>3 DEF Grun, Analyse
  <2>2. session.kind = "test"
    BY <2>1, HeadFacts DEF Acts
  <2>3. \A errors : Further(errors) \in {<<[Head(todo) EXCEPT !.gui = TRUE]>> \o Tail(todo), Tail(todo)}
    BY DEF Further
  <2>4. \/ Stopped
        \/ todo' \in {<<[Head(todo) EXCEPT !.gui = TRUE]>> \o Tail(todo), Tail(todo)} /\ Same
    BY <1>3, <2>3 DEF Grun, Analyse, Fail, Stopped
  <2> QED BY <2>1, <2>2, <2>4 DEF Repeated, Continued
<1>4. CASE Call
  <2>1. session.kind = "hand"
    BY <1>4, HeadFacts DEF Call
  <2> QED BY <1>4, <2>1 DEF Call, Fail, Followed, Stopped
<1>5. CASE Finish \/ Interrupt
  BY <1>5 DEF Finish, Interrupt, Stopped
<1>6. CASE Edit \/ Brew \/ OpenBrewed \/ WriteBrewed
  BY <1>6 DEF Edit, Brew, OpenBrewed, WriteBrewed, Continue, Waited, Continued
<1> QED BY <1>1, <1>2, <1>3, <1>4, <1>5, <1>6 DEF ChefNext

(* The step at hand as it is when it is repeated                              *)
LEMMA Again ==
  ASSUME PlanInv, Repeated
  PROVE  LET h == [Head(todo) EXCEPT !.gui = TRUE]
         IN  /\ h \in Allowed(session) /\ h.do = Head(todo).do
             /\ Head(todo).do \notin Openers \cup Followers
<1> DEFINE h == [Head(todo) EXCEPT !.gui = TRUE]
           S == Head(todo).stage
<1>1. todo # <<>> /\ session.kind = "test" /\ Head(todo).do \in {"grun", "analyse"}
  BY DEF Repeated
<1>2. PICK i \in DOMAIN session.stages : S = session.stages[i] /\ Head(todo) \in PhaseSteps(S)
  BY <1>1, HeadFacts DEF Acts
<1>3. h \in PhaseSteps(S) /\ h.do = Head(todo).do
  BY <1>2 DEF PhaseSteps
<1>4. h \in Allowed(session)
  BY <1>1, <1>2, <1>3 DEF Allowed
<1> QED BY <1>1, <1>3, <1>4 DEF Openers, Followers

LEMMA PlanStep ==
  ASSUME PlanInv, [Next]_vars
  PROVE  PlanInv'
<1>1. CASE Continued
  <2>1. todo \in Seq(Allowed(session)) /\ todo # <<>> /\ Running
    BY <1>1 DEF PlanInv, Continued
  <2> QED BY <1>1, <2>1, TailFacts DEF PlanInv, Continued, Same, Running
<1>2. CASE Repeated
  <2> DEFINE h == [Head(todo) EXCEPT !.gui = TRUE]
  <2>1. h \in Allowed(session) /\ h.do = Head(todo).do /\ Head(todo).do \notin Openers \cup Followers
    BY <1>2, Again
  <2>2. todo \in Seq(Allowed(session)) /\ todo # <<>> /\ Running
    BY <1>2 DEF PlanInv, Repeated
  <2>3. todo' = <<h>> \o Tail(todo) /\ Same
    BY <1>2 DEF Repeated
  <2> HIDE DEF h
  <2>4. todo' \in Seq(Allowed(session)) /\ (Chained(todo) => Chained(todo'))
    BY <2>1, <2>2, <2>3, SameSteps
  <2> QED BY <2>2, <2>3, <2>4 DEF PlanInv, Same, Running
<1>3. CASE Stopped
  BY <1>3 DEF PlanInv, Stopped, Chained, Running
<1>4. CASE Followed
  <2>1. Allowed(session) = {Step("call"), Step("assemble")}
    BY <1>4 DEF Followed, Allowed
  <2>2. Step("assemble") \in Allowed(session)
    BY <2>1
  <2> HIDE <2>1
  <2>3. <<>> \in Seq(Allowed(session)) /\ <<Step("assemble")>> \in Seq(Allowed(session))
    BY <2>2
  <2>4. todo' \in Seq(Allowed(session))
    BY <1>4, <2>3 DEF Followed
  <2> QED BY <1>4, <2>4 DEF PlanInv, Followed, Same, Running
<1>5. CASE Waited \/ UNCHANGED vars
  BY <1>5 DEF PlanInv, Waited, Same, vars, Running
<1>6. CASE \E s \in Sessions : Ask(s)
  BY <1>6, SessionSteps DEF Ask, PlanInv, Running
<1> QED BY <1>1, <1>2, <1>3, <1>4, <1>5, <1>6, Moves DEF Moved, Next

LEMMA PlanInvariant == Spec => []PlanInv
<1>1. Init => PlanInv
  BY DEF Init, PlanInv, NoSession, Chained, Running
<1> QED BY <1>1, PlanStep, PTL DEF Spec
-----------------------------------------------------------------------------
(* The test at hand *)

Hand == Head(todo).test

LEMMA HandFacts ==
  ASSUME PlanInv, todo # <<>>, session.kind = "test", Head(todo).do \in Acts
  PROVE  /\ Hand \in Cases /\ Hand.name \in Programs /\ Hand.invalid \in BOOLEAN
         /\ Head(todo).stage \in Stages /\ Head(todo).gui \in BOOLEAN
         /\ Head(todo).do = "grun" <=> Head(todo).stage = "grammar"
         /\ Head(todo).do = "analyse" <=> Head(todo).stage = "semantic"
         /\ Head(todo).do # "grun" => session.stages # <<"grammar">>
<1> DEFINE S == Head(todo).stage
<1>1. Head(todo) \in PhaseSteps(S) /\ S \in Stages
  BY HeadFacts
<1>2. PICK i \in DOMAIN session.stages : S = session.stages[i]
  BY HeadFacts
<1>3. /\ Hand \in Cases /\ Head(todo).gui \in BOOLEAN
      /\ Head(todo).do \in {Phases(S)[j] : j \in DOMAIN Phases(S)}
  BY <1>1 DEF PhaseSteps, Hand
<1> HIDE DEF S
<1>4. S = "grammar" => Head(todo).do = "grun"
  BY <1>3 DEF Phases
<1>5. S = "semantic" => Head(todo).do = "analyse"
  BY <1>3 DEF Phases
<1>6. S \notin {"grammar", "semantic"} => Head(todo).do \in {"gcc", "reference", "compile", "assemble", "run"}
  BY <1>3 DEF Phases
<1>7. session.stages = <<"grammar">> => S = "grammar"
  BY <1>2
<1>8. Hand.name \in Programs /\ Hand.invalid \in BOOLEAN
  BY <1>3 DEF Cases
<1> QED BY <1>1, <1>3, <1>4, <1>5, <1>6, <1>7, <1>8 DEF S

LEMMA Writes ==
  ASSUME NEW d, NEW now, Typed(d, now)
  PROVE  /\ \A r \in Results : Typed([d EXCEPT !.reference = r], now)
         /\ \A r \in Results : Typed([d EXCEPT !.program = r], now)
         /\ \A r \in Results, dir \in {"top", "bin"} : Typed([d EXCEPT !.assembly[dir] = r], now)
<1> USE DEF Typed, IsDisk, Fields, Parsers
<1>1. \A r \in Results : Typed([d EXCEPT !.reference = r], now)
  OBVIOUS
<1>2. \A r \in Results : Typed([d EXCEPT !.program = r], now)
  OBVIOUS
<1>3. \A r \in Results, dir \in {"top", "bin"} : Typed([d EXCEPT !.assembly[dir] = r], now)
  OBVIOUS
<1> QED BY <1>1, <1>2, <1>3

LEMMA CalledTyped ==
  ASSUME TypeInv, CaramelIsThere, NEW flags, NEW p \in Programs, NEW dir \in {"top", "bin"}
  PROVE  Typed(Called(flags, p, dir), clock) /\ Result(p, disk.caramel) \in Results
<1>1. disk.caramel \in Versions
  BY BoundsAssumption DEF TypeInv, Typed, CaramelIsThere, Versions
<1>2. Fate[p][disk.caramel] \in Fates
  BY <1>1, ProgramsAssumption
<1>3. Result(p, disk.caramel) \in Results
  BY <1>2 DEF Result, Results
<1> QED BY <1>3, Writes DEF TypeInv, Called

LEMMA DiskTyped ==
  ASSUME TypeInv, PlanInv, [Next]_vars
  PROVE  Typed(disk', clock')
<1>0. Typed(disk, clock) /\ Typed(disk, clock + 1)
  BY TypedWrites DEF TypeInv
<1> USE DEF Doing
<1>1. ASSUME Tick, disk' = disk \/ Typed(disk', clock + 1) PROVE Typed(disk', clock')
  BY <1>0, <1>1 DEF Tick
<1>2. CASE Brew \/ OpenBrewed \/ WriteBrewed
  BY <1>0, <1>1, <1>2, TypedWrites DEF Brew, OpenBrewed, WriteBrewed, TypeInv
<1>3. CASE AntlrJava
  BY <1>0, <1>1, <1>3, TypedWrites DEF AntlrJava, Accepted, Exec
<1>4. CASE Javac
  BY <1>0, <1>1, <1>4, TypedWrites DEF Javac, Exec
<1>5. CASE AntlrCpp
  BY <1>0, <1>1, <1>5, TypedWrites DEF AntlrCpp, Accepted, Exec
<1>6. CASE Enter \/ CMake \/ Make
  BY <1>0, <1>6, TypedWrites DEF Enter, CMake, Make, Exec
<1>7. CASE Clean
  BY <1>0, <1>7, TypedWrites DEF Clean
<1>8. CASE Analyse \/ Compile
  <2>1. Hand.name \in Programs
    BY <1>8, HeadFacts, HandFacts DEF Analyse, Compile, Acts
  <2>2. clock' = clock /\ (CaramelIsThere \/ disk' = disk)
    BY <1>8 DEF Analyse, Compile
  <2>3. disk' \in {disk, Called({"good-defaults"}, Hand.name, "top"), Called({"good-defaults"}, Hand.name, "bin")}
    BY <1>8 DEF Analyse, Compile, Hand
  <2> QED BY <1>0, <2>1, <2>2, <2>3, CalledTyped
<1>9. CASE Call
  <2>1. session \in Sessions /\ session.kind = "hand"
    BY <1>9, HeadFacts DEF Call
  <2>2. session.program \in Programs
    BY <2>1, SessionsAssumption
  <2> QED BY <1>0, <1>9, <2>2, CalledTyped DEF Call
<1>10. CASE GccBuild
  <2>1. Hand.name \in Programs
    BY <1>10, HeadFacts, HandFacts DEF GccBuild, Acts
  <2>2. [of |-> Hand.name, as |-> "good"] \in Results
    BY <2>1 DEF Results, Fates
  <2>3. clock' = clock /\ disk' \in {disk, [disk EXCEPT !.reference = [of |-> Hand.name, as |-> "good"]]}
    BY <1>10 DEF GccBuild, Exec, Hand
  <2> QED BY <1>0, <2>2, <2>3, Writes
<1>11. CASE Assemble
  <2>1. disk.assembly["bin"] \in Results /\ NoResult \in Results
    BY <1>0 DEF Typed, Results
  <2>2. \A after \in Linked : Typed(after, clock)
    BY <1>0, <2>1, Writes DEF Linked
  <2>3. PICK after \in Linked : Exec(after) /\ clock' = clock
    BY <1>11 DEF Assemble
  <2> QED BY <1>0, <2>2, <2>3 DEF Exec
<1>12. CASE Edit
  <2>1. /\ clock \in Nat /\ clock' = clock + 1 /\ disk["source"].of \in Nat
        /\ disk' = [disk EXCEPT !.source = [of |-> disk["source"].of + 1, time |-> clock]]
        /\ disk["source"].of + 1 \in 0..MaxVersion /\ disk["source"].of + 1 # 0
        /\ IsDisk(disk)
    BY <1>0, <1>12, BoundsAssumption DEF Edit, Typed, Before, IsDisk, Fields
  <2>2. [of |-> disk["source"].of + 1, time |-> clock] \in Before(clock + 1)
    BY <2>1 DEF Before
  <2> DEFINE file == [of |-> disk["source"].of + 1, time |-> clock]
  <2>3. file.of # 0 /\ disk' = [disk EXCEPT !.source = file] /\ file \in Before(clock + 1)
    BY <2>1, <2>2
  <2> HIDE DEF file
  <2>4. Typed([disk EXCEPT !.source = file], clock + 1)
    BY <1>0, <2>3 DEF Typed, IsDisk, Fields, Parsers
  <2> QED BY <2>1, <2>3, <2>4
<1>13. CASE CheckBuild \/ Grun \/ RunReference \/ Run \/ Finish \/ Interrupt
            \/ (\E s \in Sessions : Ask(s)) \/ UNCHANGED vars
  <2>1. disk' = disk /\ clock' = clock
    BY <1>13 DEF CheckBuild, Grun, RunReference, Run, Finish, Interrupt, Ask, vars
  <2> QED BY <1>0, <2>1
<1> QED BY <1>2, <1>3, <1>4, <1>5, <1>6, <1>7, <1>8, <1>9, <1>10, <1>11, <1>12, <1>13
        DEF Next, ChefNext

(* What a verdict adds to the lists                                           *)
LEMMA Judged ==
  ASSUME TypeInv, PlanInv, todo # <<>>, session.kind = "test", Head(todo).do \in Acts,
         NEW errors, NEW version \in 0..MaxVersion, Judge(errors, version)
  PROVE  LET v == [stage |-> Head(todo).stage, of |-> Hand,
                   succeeded |-> Succeeds(errors), version |-> version]
         IN  /\ verdicts' \in Seq(Verdicts) /\ failed' \in Seq(Programs)
             /\ Len(failed') <= Len(verdicts')
             /\ verdicts' = Append(verdicts, v) /\ v \in Verdicts
             /\ Len(verdicts') = Len(verdicts) + 1 /\ Last(verdicts') = v
             /\ \A i \in 1..Len(verdicts) : verdicts'[i] = verdicts[i]
             /\ verdicts'[Len(verdicts) + 1] = v
<1> DEFINE v == [stage |-> Head(todo).stage, of |-> Hand,
                 succeeded |-> Succeeds(errors), version |-> version]
<1>1. v \in Verdicts /\ Hand.name \in Programs
  BY HandFacts DEF Verdicts, Succeeds
<1>2. verdicts' = Append(verdicts, v) /\ failed' \in {failed, Append(failed, Hand.name)}
  BY DEF Judge, Hand
<1>3. verdicts \in Seq(Verdicts) /\ failed \in Seq(Programs) /\ Len(failed) <= Len(verdicts)
  BY DEF TypeInv
<1> HIDE DEF v
<1>4. /\ verdicts' \in Seq(Verdicts) /\ Len(verdicts') = Len(verdicts) + 1
      /\ \A i \in 1..Len(verdicts) : verdicts'[i] = verdicts[i]
      /\ verdicts'[Len(verdicts) + 1] = v /\ Len(verdicts) \in Nat
  BY <1>1, <1>2, <1>3
<1>5. Last(verdicts') = v
  BY <1>4 DEF Last
<1>6. failed' \in Seq(Programs) /\ Len(failed') <= Len(failed) + 1 /\ Len(failed) \in Nat
  <2> DEFINE name == Hand.name
  <2>1. name \in Programs /\ failed' \in {failed, Append(failed, name)}
    BY <1>1, <1>2
  <2> HIDE DEF name
  <2>2. CASE failed' = failed
    BY <1>3, <2>2
  <2>3. CASE failed' = Append(failed, name)
    <3>1. failed \in Seq(Programs)
      BY <1>3
    <3>2. Append(failed, name) \in Seq(Programs) /\ Len(Append(failed, name)) = Len(failed) + 1
      BY <2>1, <3>1
    <3> QED BY <1>3, <2>3, <3>2
  <2> QED BY <2>1, <2>2, <2>3
<1>7. Len(failed') \in Nat /\ Len(failed') <= Len(verdicts')
  BY <1>3, <1>4, <1>6
<1> QED BY <1>1, <1>2, <1>4, <1>5, <1>6, <1>7 DEF v

Lists == verdicts \in Seq(Verdicts) /\ failed \in Seq(Programs) /\ Len(failed) <= Len(verdicts)
Bench == DOMAIN bench = {"reference", "compiler"} /\ bench.compiler \in 0..MaxVersion
Failures == faults \subseteq (1..count) \X Tools

LEMMA TypeStep ==
  ASSUME TypeInv, PlanInv, [Next]_vars
  PROVE  TypeInv'
<1>1. Typed(disk', clock')
  BY DiskTyped
<1> USE DEF Running, Doing
<1>2. /\ last' \in {"none", "running", "done", "failed", "interrupted"}
      /\ count' \in Nat /\ (Running' => count' > 0)
  <2>1. CASE ChefNext \/ Interrupt \/ Edit
    BY <2>1, Moves, HeadFacts DEF TypeInv, Moved, Continued, Repeated, Stopped, Followed, Waited,
       Same, Interrupt, Edit, ChefNext, Brew, OpenBrewed, WriteBrewed, AntlrJava, Javac, AntlrCpp,
       Enter, CMake, Make, Clean, CheckBuild, Grun, Analyse, GccBuild, RunReference, Compile,
       Assemble, Run, Call, Finish, Continue, Fail
  <2>2. CASE \E s \in Sessions : Ask(s)
    BY <2>2 DEF TypeInv, Ask
  <2>3. CASE UNCHANGED vars
    BY <2>3 DEF TypeInv, vars
  <2> QED BY <2>1, <2>2, <2>3 DEF Next
<1>3. cwd' \in {"top", "bin"}
  BY DEF TypeInv, Next, vars, Ask, Interrupt, Edit, ChefNext, Brew, OpenBrewed, WriteBrewed,
     AntlrJava, Javac, AntlrCpp, Enter, CMake, Make, Clean, CheckBuild, Grun, Analyse, GccBuild,
     RunReference, Compile, Assemble, Run, Call, Finish, Untouched, NoTest
<1>4. Bench'
  <2>1. Bench /\ disk.caramel \in 0..MaxVersion
    BY DEF TypeInv, Typed, Bench
  <2>2. CASE bench' = bench
    BY <2>1, <2>2 DEF Bench
  <2>3. CASE RunReference \/ Compile
    BY <2>1, <2>3 DEF RunReference, Compile, Bench
  <2>4. CASE \E s \in Sessions : Ask(s)
    BY <2>4, BoundsAssumption DEF Ask, NoBench, Bench
  <2>5. bench' = bench \/ RunReference \/ Compile \/ \E s \in Sessions : Ask(s)
    BY DEF Next, vars, Interrupt, Edit, ChefNext, Brew, OpenBrewed, WriteBrewed, AntlrJava, Javac,
       AntlrCpp, Enter, CMake, Make, Clean, CheckBuild, Grun, Analyse, GccBuild, Assemble, Run,
       Call, Finish, Untouched, NoTest
  <2> QED BY <2>2, <2>3, <2>4, <2>5
<1>5. Lists'
  <2>1. Lists
    BY DEF TypeInv, Lists
  <2>2. CASE UNCHANGED <<verdicts, failed>>
    BY <2>1, <2>2 DEF Lists
  <2>3. CASE Grun \/ Analyse \/ Run
    <3>1. /\ disk.class.of \in 0..MaxVersion /\ disk.caramel \in 0..MaxVersion
          /\ bench.compiler \in 0..MaxVersion
      BY DEF TypeInv, Typed, Before, Parsers
    <3>2. todo # <<>> /\ Head(todo).do \in Acts /\ session.kind = "test"
      BY <2>3, HeadFacts DEF Grun, Analyse, Run, Acts
    <3>3. \/ UNCHANGED <<verdicts, failed>>
          \/ \E errors, version : version \in 0..MaxVersion /\ Judge(errors, version)
      BY <2>3, <3>1 DEF Grun, Analyse, Run
    <3> QED BY <2>2, <3>2, <3>3, Judged DEF Lists
  <2>4. CASE \E s \in Sessions : Ask(s)
    BY <2>4 DEF Ask, Lists
  <2>5. UNCHANGED <<verdicts, failed>> \/ Grun \/ Analyse \/ Run \/ \E s \in Sessions : Ask(s)
    BY DEF Next, vars, Interrupt, Edit, ChefNext, Brew, OpenBrewed, WriteBrewed, AntlrJava, Javac,
       AntlrCpp, Enter, CMake, Make, Clean, CheckBuild, GccBuild, RunReference, Compile, Assemble,
       Call, Finish, Untouched, NoTest
  <2> QED BY <2>2, <2>3, <2>4, <2>5
<1>6. Failures'
  <2>1. Failures /\ count \in Nat
    BY DEF TypeInv, Failures
  <2>2. CASE faults' = faults /\ count' \in {count, count + 1}
    BY <2>1, <2>2 DEF Failures
  <2>3. CASE \E after : Exec(after) /\ todo # <<>> /\ Head(todo).do \in Tools /\ count' = count
    <3>1. count \in 1..count
      BY <2>3, HeadFacts DEF TypeInv
    <3> QED BY <2>1, <2>3, <3>1 DEF Exec, Failures
  <2>4. CASE AntlrJava \/ Javac \/ AntlrCpp \/ CMake \/ Make \/ GccBuild \/ Assemble
    <3>1. todo # <<>> /\ Head(todo).do \in Tools /\ count' = count
      BY <2>4 DEF AntlrJava, Javac, AntlrCpp, CMake, Make, GccBuild, Assemble, Continue, Fail, Tools
    <3>2. faults' = faults \/ \E after : Exec(after)
      BY <2>4 DEF AntlrJava, Javac, AntlrCpp, CMake, Make, GccBuild, Assemble
    <3> QED BY <2>2, <2>3, <3>1, <3>2
  <2>5. CASE ~(AntlrJava \/ Javac \/ AntlrCpp \/ CMake \/ Make \/ GccBuild \/ Assemble)
    BY <2>2, <2>5 DEF Next, vars, Ask, Interrupt, Edit, ChefNext, Brew, OpenBrewed, WriteBrewed,
       Enter, Clean, CheckBuild, Grun, Analyse, RunReference, Compile, Run, Call, Finish,
       Continue, Fail
  <2> QED BY <2>4, <2>5
<1>7. grammar' \in Before(clock') /\ brewing' \in {"no", "read", "opened"}
  <2>1. /\ clock \in Nat /\ clock' \in {clock, clock + 1}
        /\ grammar \in Before(clock) /\ disk["source"] \in Before(clock)
    BY DEF TypeInv, Typed, Next, vars, Ask, Interrupt, Edit, ChefNext, Brew, OpenBrewed,
       WriteBrewed, AntlrJava, Javac, AntlrCpp, Enter, CMake, Make, Clean, CheckBuild, Grun,
       Analyse, GccBuild, RunReference, Compile, Assemble, Run, Call, Finish, Tick
  <2>2. Before(clock) \subseteq Before(clock')
    BY <2>1 DEF Before
  <2>3. /\ grammar' \in {grammar, disk["source"]}
        /\ brewing' \in {brewing, "no", "read", "opened"}
    BY DEF Next, vars, Ask, Interrupt, Edit, ChefNext, Brew, OpenBrewed, WriteBrewed,
       AntlrJava, Javac, AntlrCpp, Enter, CMake, Make, Clean, CheckBuild, Grun, Analyse, GccBuild,
       RunReference, Compile, Assemble, Run, Call, Finish, Untouched, NoBrewing
  <2> QED BY <2>1, <2>2, <2>3 DEF TypeInv
<1> QED BY <1>1, <1>2, <1>3, <1>4, <1>5, <1>6, <1>7 DEF TypeInv, Bench, Lists, Failures

LEMMA TypeInvariant == Spec => []TypeInv
<1>1. Init => TypeInv
  <2> SUFFICES ASSUME Init PROVE TypeInv
    OBVIOUS
  <2>1. IsDisk(disk)
    BY DEF Init, IsDisk, Fields
  <2>2. Typed(disk, clock)
    BY <2>1, BoundsAssumption DEF Init, Typed, Parsers, Before, NoFile, Results
  <2>3. verdicts \in Seq(Verdicts) /\ failed \in Seq(Programs) /\ Len(failed) <= Len(verdicts)
    BY DEF Init
  <2>4. grammar \in Before(clock)
    BY BoundsAssumption DEF Init, Before, NoFile
  <2> QED BY <2>2, <2>3, <2>4, BoundsAssumption DEF Init, TypeInv, NoBench, Running
<1> QED BY <1>1, TypeStep, PlanInvariant, PTL DEF Spec

(* The files are versions or results, dated in the past; the lists and the    *)
(* failures are those of the sessions so far (test.py, build.py).             *)
THEOREM TypeCorrect == Spec => []TypeOK
<1>1. TypeInv => TypeOK
  <2> SUFFICES ASSUME TypeInv PROVE TypeOK
    OBVIOUS
  <2>1. disk.reference \in Results /\ disk.assembly.top \in Results
        /\ disk.assembly.bin \in Results /\ disk.program \in Results
    BY DEF TypeInv, Typed
  <2>2. /\ {disk.source, grammar, disk.java, disk.class, disk.cpp} \subseteq Files
        /\ disk.brewed \in Files \/ disk.brewed \in TornFiles
    BY DEF TypeInv, Typed, Before, TornBefore, Files, TornFiles, Parsers
  <2> QED BY <2>1, <2>2 DEF TypeInv, TypeOK, Typed
<1> QED BY <1>1, TypeInvariant, PTL
-----------------------------------------------------------------------------
(* Directories *)

(* How the step at hand after a step relates to the one before.               *)
Following ==
  \/ Continued /\ todo' = Tail(todo) /\ (session.kind # "hand" => Joined(Head(todo), Head(todo')))
  \/ Repeated /\ Head(todo') = [Head(todo) EXCEPT !.gui = TRUE]
     /\ Head(todo').do = Head(todo).do /\ Head(todo').test = Hand
  \/ Followed
  \/ Waited
  \/ /\ \E s \in Sessions : Ask(s)
     /\ session'.kind # "hand" => Head(todo').do \notin Followers

LEMMA RepeatedHead ==
  ASSUME PlanInv, Repeated
  PROVE  /\ todo' # <<>> /\ Head(todo') = [Head(todo) EXCEPT !.gui = TRUE]
         /\ Head(todo').do = Head(todo).do /\ Head(todo').test = Hand
<1> DEFINE h == [Head(todo) EXCEPT !.gui = TRUE]
<1>1. h \in Allowed(session) /\ h.do = Head(todo).do /\ Head(todo).do \notin Openers \cup Followers
  BY Again
<1>2. todo \in Seq(Allowed(session)) /\ todo # <<>> /\ todo' = <<h>> \o Tail(todo)
  BY DEF PlanInv, Repeated
<1>3. h.test = Hand
  BY DEF Hand
<1> HIDE DEF h
<1>4. todo' # <<>> /\ Head(todo') = h
  BY <1>1, <1>2, SameSteps
<1> QED BY <1>1, <1>3, <1>4 DEF h

LEMMA Shorter ==
  ASSUME PlanInv, todo # <<>> PROVE Tail(todo) # todo
<1>1. todo \in Seq(Allowed(session))
  BY DEF PlanInv
<1> DEFINE r == Tail(todo)
<1>2. Len(r) = Len(todo) - 1 /\ Len(todo) \in Nat
  BY <1>1
<1> HIDE DEF r
<1>3. r # todo
  BY <1>2
<1> QED BY <1>3 DEF r

LEMMA Follows ==
  ASSUME PlanInv, [Next]_vars, todo' # <<>>
  PROVE  Following
<1>1. CASE Continued
  <2>1. todo \in Seq(Allowed(session)) /\ todo # <<>>
    BY <1>1 DEF PlanInv, Continued
  <2>2. session.kind # "hand" => Joined(Head(todo), Head(Tail(todo)))
    BY <1>1, <2>1, TailFacts DEF PlanInv, Continued
  <2> QED BY <1>1, <2>2 DEF Following, Continued
<1>2. CASE Repeated
  BY <1>2, RepeatedHead DEF Following
<1>3. CASE Stopped
  BY <1>3 DEF Stopped
<1>4. CASE Followed
  BY <1>4 DEF Following
<1>5. CASE Waited \/ UNCHANGED vars
  BY <1>5 DEF Following, Waited, Same, vars
<1>6. CASE \E s \in Sessions : Ask(s)
  <2>1. PICK s \in Sessions : Ask(s)
    BY <1>6
  <2>2. todo' = Steps(s) /\ session' = s
    BY <2>1 DEF Ask
  <2>3. s.kind # "hand" => Steps(s)[1].do \notin Followers /\ Head(todo') = todo'[1]
    BY <2>2, SessionSteps DEF Starts
  <2> QED BY <1>6, <2>2, <2>3 DEF Following
<1> QED BY <1>1, <1>2, <1>3, <1>4, <1>5, <1>6, Moves DEF Moved, Next

(* CMake's directory is in build, gcc's program in CMake's directory.         *)
DirsInv ==
  /\ "cpp-bin" \in disk["dirs"] => "build" \in disk["dirs"]
  /\ disk["reference"] # NoResult => "cpp-bin" \in disk["dirs"]
  /\ todo # <<>> /\ Head(todo).do \in {"cmake", "make"} => "build" \in disk["dirs"]
  /\ todo # <<>> /\ Head(todo).do = "make" /\ ~Faulty(count, {"cmake"})
       => "cpp-bin" \in disk["dirs"]

Growing ==
  /\ disk["dirs"] \subseteq disk'["dirs"]
  /\ "cpp-bin" \in disk'["dirs"] \ disk["dirs"] => Head(todo).do = "cmake" /\ todo # <<>>
  /\ disk'["reference"] = disk["reference"] \/ "cpp-bin" \in disk["dirs"]
Emptied ==
  /\ disk'["dirs"] = {} /\ disk'["reference"] = NoResult
  /\ session.kind = "clean" /\ UNCHANGED session

LEMMA DirsForms ==
  ASSUME TypeInv, PlanInv, DirsInv, [Next]_vars
  PROVE  Growing \/ Emptied
<1>1. IsDisk(disk)
  BY DEF TypeInv, Typed
<1> USE <1>1 DEF IsDisk, Fields, Growing, Doing
<1>2. CASE Brew \/ OpenBrewed \/ WriteBrewed
  BY <1>2 DEF Brew, OpenBrewed, WriteBrewed, Opened, Brewed
<1>3. CASE AntlrJava
  <2>1. disk' = disk \/ disk' = GeneratedJava(disk, clock)
    BY <1>3 DEF AntlrJava, Exec
  <2>2. /\ GeneratedJava(disk, clock)["dirs"] = disk["dirs"] \cup {"build"}
        /\ GeneratedJava(disk, clock)["reference"] = disk["reference"]
    BY DEF GeneratedJava
  <2> QED BY <2>1, <2>2
<1>4. CASE Javac
  BY <1>4 DEF Javac, Exec, CompiledJava
<1>5. CASE AntlrCpp
  <2>1. disk' = disk \/ disk' = GeneratedCpp(disk, clock)
    BY <1>5 DEF AntlrCpp, Exec
  <2>2. /\ GeneratedCpp(disk, clock)["dirs"] = disk["dirs"] \cup {"build"}
        /\ GeneratedCpp(disk, clock)["reference"] = disk["reference"]
    BY DEF GeneratedCpp
  <2> QED BY <2>1, <2>2
<1>6. CASE Enter
  BY <1>6 DEF Enter, Entered
<1>7. CASE CMake
  BY <1>7 DEF CMake, Exec, Configured
<1>8. CASE Make
  BY <1>8 DEF Make, Exec, Made
<1>9. CASE Clean
  <2>1. session.kind = "clean"
    BY <1>9, HeadFacts DEF Clean
  <2>2. UNCHANGED session
    BY <1>9 DEF Clean, Continue, Fail
  <2> QED BY <1>9, <2>1, <2>2 DEF Clean, Cleaned, Emptied
<1>10. CASE Analyse \/ Compile \/ Call
  BY <1>10 DEF Analyse, Compile, Call, Called
<1>11. CASE GccBuild
  BY <1>11 DEF GccBuild, Exec
<1>12. CASE Assemble
  <2>1. PICK after \in Linked : Exec(after)
    BY <1>12 DEF Assemble
  <2>2. after["dirs"] = disk["dirs"] /\ after["reference"] = disk["reference"]
    BY DEF Linked
  <2> QED BY <2>1, <2>2 DEF Exec
<1>13. CASE Edit
  BY <1>13 DEF Edit
<1>14. CASE CheckBuild \/ Grun \/ RunReference \/ Run \/ Finish \/ Interrupt
            \/ (\E s \in Sessions : Ask(s)) \/ UNCHANGED vars
  BY <1>14 DEF CheckBuild, Grun, RunReference, Run, Finish, Interrupt, Ask, vars
<1> QED BY <1>2, <1>3, <1>4, <1>5, <1>6, <1>7, <1>8, <1>9, <1>10, <1>11, <1>12, <1>13, <1>14
        DEF Next, ChefNext

(* The action of the step at hand                                             *)
LEMMA WhoseStep ==
  ASSUME PlanInv, [Next]_vars, Continued
  PROVE  /\ Head(todo).do = "enter" => Enter
         /\ Head(todo).do = "cmake" => CMake
         /\ Head(todo).do = "gcc" => GccBuild
         /\ Head(todo).do = "reference" => RunReference
         /\ Head(todo).do = "compile" => Compile
         /\ Head(todo).do = "assemble" => Assemble
         /\ Head(todo).do = "run" => Run
         /\ Head(todo).do = "antlrJava" => AntlrJava
         /\ Head(todo).do = "antlrCpp" => AntlrCpp
         /\ Head(todo).do = "javac" => Javac
         /\ Head(todo).do = "make" => Make
<1>1. todo # <<>> /\ todo' = Tail(todo) /\ last' = last /\ todo' # todo
  BY Shorter DEF Continued, Same
<1>2. ChefNext
  <2>1. last = "running"
    BY <1>1, HeadFacts DEF Running
  <2>2. ~Interrupt /\ ~Edit /\ ~(\E s \in Sessions : Ask(s)) /\ ~UNCHANGED vars
    BY <1>1, <2>1 DEF Interrupt, Edit, Ask, Running, vars
  <2> QED BY <2>2 DEF Next
<1> QED BY <1>1, <1>2 DEF ChefNext, Doing, Brew, OpenBrewed, WriteBrewed, AntlrJava, Javac,
           AntlrCpp, Enter, CMake, Make, Clean, CheckBuild, Grun, Analyse, GccBuild, RunReference,
           Compile, Assemble, Run, Call, Finish

LEMMA FaultsGrow ==
  ASSUME [Next]_vars PROVE faults \subseteq faults'
BY DEF Next, vars, Ask, Interrupt, Edit, ChefNext, Brew, OpenBrewed, WriteBrewed, AntlrJava,
   Javac, AntlrCpp, Enter, CMake, Make, Clean, CheckBuild, Grun, Analyse, GccBuild, RunReference,
   Compile, Assemble, Run, Call, Finish, Exec

LEMMA DirsStep ==
  ASSUME TypeInv, PlanInv, DirsInv, [Next]_vars
  PROVE  DirsInv'
<1>1. CASE Emptied
  <2>1. ASSUME todo' # <<>> PROVE Head(todo').do \notin {"cmake", "make"}
    <3>1. todo' \in Seq(Allowed(session')) /\ session'.kind = "clean"
      BY <1>1, PlanStep DEF PlanInv, Emptied
    <3>2. Head(todo') \in Allowed(session')
      BY <2>1, <3>1
    <3> QED BY <3>1, <3>2 DEF Allowed, Step
  <2> QED BY <1>1, <2>1 DEF Emptied, DirsInv
<1>2. CASE Growing
  <2>1. /\ "cpp-bin" \in disk'["dirs"] => "build" \in disk'["dirs"]
        /\ disk'["reference"] # NoResult => "cpp-bin" \in disk'["dirs"]
    BY <1>2 DEF Growing, DirsInv
  <2>2. ASSUME todo' # <<>>, Head(todo').do \in {"cmake", "make"}
        PROVE  /\ "build" \in disk'["dirs"]
               /\ Head(todo').do = "make" /\ ~Faulty(count, {"cmake"})' => "cpp-bin" \in disk'["dirs"]
    <3>1. session'.kind # "hand" /\ Head(todo') \in Allowed(session')
      <4>1. PlanInv'
        BY PlanStep
      <4>2. Head(todo') \in Allowed(session')
        BY <2>2, <4>1 DEF PlanInv
      <4> QED BY <2>2, <4>2 DEF Allowed, Step
    <3>2. Following
      BY <2>2, Follows
    <3>3. CASE Continued
      <4>1. Joined(Head(todo), Head(todo'))
        BY <3>1, <3>2, <3>3, <2>2 DEF Following, Continued, Repeated, Followed, Waited, Same, Ask, Step, PlanInv, Running
      <4>2. CASE Head(todo').do = "cmake"
        <5>1. Enter
          BY <3>3, <4>1, <4>2, WhoseStep DEF Joined
        <5> QED BY <4>2, <5>1 DEF Enter, Entered, TypeInv, Typed, IsDisk, Fields
      <4>3. CASE Head(todo').do = "make"
        <5>1. CMake /\ Head(todo).do = "cmake" /\ todo # <<>> /\ count' = count
          BY <3>3, <4>1, <4>3, WhoseStep DEF Joined, Continued, Same
        <5>2. "build" \in disk'["dirs"]
          BY <1>2, <5>1 DEF DirsInv, Growing
        <5>3. ~Faulty(count, {"cmake"})' => disk' = Configured(disk)
          BY <5>1 DEF CMake, Exec, Faulty
        <5>4. "cpp-bin" \in Configured(disk)["dirs"]
          BY DEF Configured, TypeInv, Typed, IsDisk, Fields
        <5> QED BY <5>2, <5>3, <5>4
      <4> QED BY <2>2, <4>2, <4>3
    <3>4. CASE Waited
      <4>1. todo' = todo /\ count' = count /\ (Faulty(count, {"cmake"}) => Faulty(count, {"cmake"})')
        BY <3>4, FaultsGrow DEF Waited, Same, Faulty
      <4> QED BY <1>2, <2>2, <4>1 DEF DirsInv, Growing
    <3>5. CASE ~Continued /\ ~Waited
      BY <2>2, <3>1, <3>2, <3>5 DEF Following, Repeated, Followed, Same, Step, Followers
    <3> QED BY <3>3, <3>4, <3>5
  <2> QED BY <2>1, <2>2 DEF DirsInv
<1> QED BY <1>1, <1>2, DirsForms

LEMMA DirsInvariant == Spec => []DirsInv
<1>1. Init => DirsInv
  BY DEF Init, DirsInv, NoResult
<1> QED BY <1>1, DirsStep, TypeInvariant, PlanInvariant, PTL DEF Spec
-----------------------------------------------------------------------------
(* Where a session of tests is                                                *)

InBin == todo # <<>> /\ Head(todo).do \in {"assemble", "run"}
CwdInv == session.kind = "test" /\ Running => cwd = IF InBin THEN "bin" ELSE "top"

(* What has a successor is not the last step.                                 *)
LEMMA Ends ==
  ASSUME PlanInv, Continued, session.kind # "hand", todo' = <<>>
  PROVE  Head(todo).do \notin Openers
<1>1. todo \in Seq(Allowed(session)) /\ todo # <<>> /\ todo' = Tail(todo) /\ Chained(todo)
  BY DEF PlanInv, Continued
<1> QED BY <1>1, TailFacts

LEMMA CwdStep ==
  ASSUME TypeInv, PlanInv, CwdInv, [Next]_vars
  PROVE  CwdInv'
<1> SUFFICES ASSUME session'.kind = "test", Running' PROVE cwd' = IF InBin' THEN "bin" ELSE "top"
  BY DEF CwdInv
<1>0. cwd' = cwd \/ Compile \/ Run \/ \E s \in Sessions : Ask(s)
  BY DEF Next, vars, Interrupt, Edit, ChefNext, Brew, OpenBrewed, WriteBrewed, AntlrJava, Javac,
     AntlrCpp, Enter, CMake, Make, Clean, CheckBuild, Grun, Analyse, GccBuild, RunReference,
     Assemble, Call, Finish, Untouched, NoTest
<1>1. CASE Continued
  <2>1. session.kind = "test" /\ Running /\ todo # <<>> /\ session' = session
    BY <1>1 DEF Continued, Same, Running
  <2>2. cwd = IF Head(todo).do \in {"assemble", "run"} THEN "bin" ELSE "top"
    BY <2>1 DEF CwdInv, InBin
  <2>3. Running /\ ~(\E s \in Sessions : Ask(s))
    BY <2>1 DEF Ask
  <2>4. todo' = <<>> => Head(todo).do \notin {"compile", "assemble"}
    BY <1>1, <2>1, Ends DEF Openers
  <2>5. todo' # <<>> => Joined(Head(todo), Head(todo'))
    <3>1. todo \in Seq(Allowed(session)) /\ Chained(todo) /\ todo' = Tail(todo)
      BY <1>1, <2>1 DEF PlanInv, Continued
    <3> QED BY <2>1, <3>1, TailFacts
  <2>6. CASE Head(todo).do = "compile"
    <3>1. cwd' = "bin"
      BY <1>1, <2>6, WhoseStep DEF Compile
    <3> QED BY <2>4, <2>5, <2>6, <3>1 DEF Joined, InBin
  <2>7. CASE Head(todo).do = "run"
    <3>1. cwd' = "top"
      BY <1>1, <2>1, <2>7, WhoseStep DEF Run, Fail, Running
    <3> QED BY <2>5, <2>7, <3>1 DEF Joined, InBin
  <2>8. CASE Head(todo).do \notin {"compile", "run"}
    <3>1. cwd' = cwd
      BY <1>0, <2>3, <2>8 DEF Compile, Run, Doing
    <3> QED BY <2>2, <2>4, <2>5, <2>8, <3>1 DEF Joined, InBin
  <2> QED BY <2>6, <2>7, <2>8
<1>2. CASE Repeated
  <2>1. session.kind = "test" /\ Running /\ todo # <<>> /\ Head(todo).do \in {"grun", "analyse"}
    BY <1>2 DEF Repeated, Same, Running
  <2>2. cwd' = cwd
    BY <1>0, <2>1 DEF Compile, Run, Doing, Ask
  <2>3. cwd' = "top"
    BY <2>1, <2>2 DEF CwdInv, InBin
  <2> QED BY <1>2, <2>1, <2>3, RepeatedHead DEF InBin
<1>3. CASE Stopped
  BY <1>3 DEF Stopped
<1>4. CASE Followed
  BY <1>4 DEF Followed, Same
<1>5. CASE Waited \/ UNCHANGED vars
  <2>1. todo' = todo /\ session' = session /\ Running
    BY <1>5 DEF Waited, Same, vars, Running
  <2>2. ~(Compile \/ Run)
    BY <2>1, Shorter DEF Compile, Run, Doing, Continue, Fail, Running
  <2>3. cwd' = cwd
    BY <1>0, <2>1, <2>2 DEF Ask
  <2> QED BY <2>1, <2>3 DEF CwdInv, InBin
<1>6. CASE \E s \in Sessions : Ask(s)
  <2>1. cwd' = "top"
    BY <1>6 DEF Ask
  <2>2. todo' # <<>> => Head(todo').do \notin Followers
    <3>1. PICK s \in Sessions : Ask(s)
      BY <1>6
    <3>2. todo' = Steps(s) /\ session' = s
      BY <3>1 DEF Ask
    <3> QED BY <3>2, SessionSteps DEF Starts
  <2> QED BY <2>1, <2>2 DEF InBin, Followers
<1> QED BY <1>1, <1>2, <1>3, <1>4, <1>5, <1>6, Moves DEF Moved, Next

LEMMA CwdInvariant == Spec => []CwdInv
<1>1. Init => CwdInv
  BY DEF Init, CwdInv, Running
<1> QED BY <1>1, CwdStep, TypeInvariant, PlanInvariant, PTL DEF Spec
-----------------------------------------------------------------------------
(* What ends a session of tests early                                         *)

LEMMA FailsForCause ==
  ASSUME TypeInv, PlanInv, DirsInv, CwdInv, ChefNext, last' = "failed", session.kind = "test"
  PROVE  StopsForCause'
<1> USE DEF StopsForCause, Doing
<1>0. Running /\ last # "failed" /\ session' = session
  <2>1. Running
    BY HeadFacts DEF ChefNext, Brew, OpenBrewed, WriteBrewed, AntlrJava, Javac, AntlrCpp, Enter,
       CMake, Make, Clean, CheckBuild, Grun, Analyse, GccBuild, RunReference, Compile, Assemble,
       Run, Call, Finish
  <2>2. session' = session
    BY Moves, <2>1 DEF Moved, Continued, Repeated, Stopped, Followed, Waited, Same, Running
  <2> QED BY <2>1, <2>2 DEF Running
<1>1. todo # <<>> /\ last' # last
  BY <1>0 DEF ChefNext, Brew, OpenBrewed, WriteBrewed, AntlrJava, Javac, AntlrCpp, Enter, CMake,
     Make, Clean, CheckBuild, Grun, Analyse, GccBuild, RunReference, Compile, Assemble, Run, Call,
     Finish
<1>2. ~Brew /\ ~OpenBrewed /\ ~WriteBrewed /\ ~AntlrJava /\ ~AntlrCpp /\ ~Enter /\ ~CMake
      /\ ~Make /\ ~Grun /\ ~GccBuild /\ ~Assemble /\ ~Finish
  BY <1>1 DEF Brew, OpenBrewed, WriteBrewed, AntlrJava, AntlrCpp, Enter, CMake, Make, Grun,
     GccBuild, Assemble, Finish, Continue
<1>3. ~Clean /\ ~Call
  BY <1>1, HeadFacts DEF Clean, Call
<1>4. CASE Javac
  <2>1. session.build
    BY <1>1, <1>4, HeadFacts DEF Javac, BuildActs
  <2>2. ~IsThere(disk.java) /\ disk' = disk
    BY <1>1, <1>4 DEF Javac, Continue
  <2> QED BY <1>0, <2>1, <2>2
<1>5. CASE CheckBuild
  <2>1. "build" \notin disk["dirs"] /\ disk' = disk
    BY <1>1, <1>5 DEF CheckBuild, Continue
  <2>2. disk["dirs"] \subseteq {"build", "cpp-bin"} /\ ("cpp-bin" \in disk["dirs"] => "build" \in disk["dirs"])
    BY DEF TypeInv, Typed, DirsInv
  <2>3. disk["dirs"] = {}
    BY <2>1, <2>2
  <2> QED BY <2>1, <2>3
<1>6. CASE Analyse
  <2>1. cwd = "top"
    BY <1>0, <1>1, <1>6 DEF Analyse, CwdInv, InBin
  <2>2. disk.caramel = 0 /\ disk' = disk
    BY <1>1, <1>6, <2>1 DEF Analyse, CaramelIsThere
  <2>3. session.stages # <<"grammar">>
    BY <1>1, <1>6, HandFacts DEF Analyse, Acts
  <2> QED BY <1>0, <2>2, <2>3
<1>7. CASE RunReference
  <2>1. cwd = "top"
    BY <1>0, <1>1, <1>7 DEF RunReference, CwdInv, InBin
  <2>2. disk.reference = NoResult /\ disk' = disk
    BY <1>1, <1>7, <2>1 DEF RunReference, Continue
  <2> QED BY <2>2
<1>8. CASE Compile
  <2>1. disk.caramel = 0 /\ disk' = disk
    BY <1>1, <1>8 DEF Compile, CaramelIsThere, Continue
  <2>2. session.stages # <<"grammar">>
    BY <1>1, <1>8, HandFacts DEF Compile, Acts
  <2> QED BY <1>0, <2>1, <2>2
<1>9. CASE Run
  <2>1. disk' = disk
    BY <1>9 DEF Run
  <2>2. CASE disk.program = NoResult
    BY <2>1, <2>2
  <2>3. CASE disk.program # NoResult
    <3> DEFINE errors == Prints(disk.program) # bench.reference
    <3>1. Judge(errors, bench.compiler) /\ Repeats(errors)
      BY <1>1, <1>9, <2>3 DEF Run, Continue
    <3>2. Head(todo).do \in Acts /\ Head(todo).do = "run"
      BY <1>9 DEF Run, Acts
    <3>3. bench.compiler \in 0..MaxVersion
      BY DEF TypeInv
    <3> HIDE DEF errors
    <3>4. session.kind = "test" /\ todo # <<>>
      BY <1>1
    <3> DEFINE v == [stage |-> Head(todo).stage, of |-> Hand,
                     succeeded |-> Succeeds(errors), version |-> bench.compiler]
    <3>5. verdicts' \in Seq(Verdicts) /\ Len(verdicts') = Len(verdicts) + 1 /\ Last(verdicts') = v
      BY <3>1, <3>2, <3>3, <3>4, Judged
    <3>6. /\ verdicts' \in Seq(Verdicts) /\ Len(verdicts') = Len(verdicts) + 1
          /\ Last(verdicts').stage = Head(todo).stage /\ Last(verdicts').succeeded = Succeeds(errors)
      BY <3>5
    <3>7. Len(verdicts) \in Nat
      BY DEF TypeInv
    <3>8. verdicts' # <<>>
      BY <3>6, <3>7
    <3>9. Head(todo).stage \in {"backend", "programs"}
      BY <1>1, <3>2, HandFacts DEF Stages
    <3>10. session'.guiOnFailure /\ ~Succeeds(errors)
      BY <1>0, <3>1 DEF Repeats
    <3> QED BY <3>6, <3>8, <3>9, <3>10
  <2> QED BY <2>2, <2>3
<1> QED BY <1>2, <1>3, <1>4, <1>5, <1>6, <1>7, <1>8, <1>9 DEF ChefNext

(* A session of tests ends early only when something it needs was never       *)
(* built, a tool failed, a back-end test has no program or no reference, or   *)
(* the repetition of one raises (test.py:286-322).                            *)
THEOREM StopsHaveCauses == Spec => []StopsForCause
<1>1. Init => StopsForCause
  BY DEF Init, StopsForCause
<1>2. TypeInv /\ PlanInv /\ DirsInv /\ CwdInv /\ StopsForCause /\ [Next]_vars => StopsForCause'
  <2> SUFFICES ASSUME TypeInv, PlanInv, DirsInv, CwdInv, StopsForCause, [Next]_vars,
                      last' = "failed", session'.kind = "test"
               PROVE  StopsForCause'
    BY DEF StopsForCause
  <2>1. CASE ChefNext
    <3>1. session' = session
      BY <2>1, Moves DEF Moved, Continued, Repeated, Stopped, Followed, Waited, Same
    <3> QED BY <2>1, <3>1, FailsForCause
  <2>2. CASE Edit
    <3>1. IsDisk(disk) /\ UNCHANGED <<session, last, verdicts>>
      BY <2>2 DEF TypeInv, Typed, Edit, Untouched, NoTest
    <3>2. \A field \in Fields \ {"source"} : disk'[field] = disk[field]
      BY <2>2, <3>1 DEF Edit, IsDisk
    <3>3. /\ disk'.dirs = disk.dirs /\ disk'.java = disk.java /\ disk'.caramel = disk.caramel
          /\ disk'.reference = disk.reference /\ disk'.program = disk.program
      BY <3>2 DEF Fields
    <3> QED BY <3>1, <3>3 DEF StopsForCause
  <2>3. CASE UNCHANGED vars
    BY <2>3 DEF vars, StopsForCause
  <2>4. ~Interrupt /\ ~(\E s \in Sessions : Ask(s))
    BY DEF Interrupt, Ask
  <2> QED BY <2>1, <2>2, <2>3, <2>4 DEF Next
<1> QED BY <1>1, <1>2, TypeInvariant, PlanInvariant, DirsInvariant, CwdInvariant, PTL DEF Spec
-----------------------------------------------------------------------------
(* What a back-end test compares *)

Sound(p) == p \notin GccRejects /\ ~Faulty(count, {"gcc", "assemble"})
Compared == {"wrong", "good"}
HandDoes(acts) == todo # <<>> /\ Head(todo).do \in acts

(* The steps of a back-end test hand on what they made of its own program.    *)
BenchInv ==
  session.kind = "test" =>
    /\ HandDoes({"reference"}) /\ Sound(Hand.name) /\ disk["reference"] # NoResult
         => disk["reference"] = [of |-> Hand.name, as |-> "good"]
    /\ HandDoes({"compile", "assemble", "run"}) /\ Sound(Hand.name)
         => bench.reference = Output[Hand.name]
    /\ HandDoes({"assemble", "run"}) =>
         /\ bench.compiler # 0
         /\ Fate[Hand.name][bench.compiler] \in Compared =>
              /\ disk["assembly"]["bin"] = Result(Hand.name, bench.compiler)
              /\ HandDoes({"run"}) /\ Sound(Hand.name)
                   => disk["program"] = Result(Hand.name, bench.compiler)

LEMMA BenchEdited ==
  ASSUME TypeInv, PlanInv, BenchInv, [Next]_vars, Waited,
         HandDoes({"reference", "compile", "assemble", "run"})
  PROVE  BenchInv'
<1>1. todo' = todo /\ todo # <<>> /\ session' = session /\ count' = count /\ Running /\ last' = last
  BY HeadFacts DEF Waited, Same, HandDoes, Running
<1>2. ~ChefNext /\ ~Interrupt /\ ~(\E s \in Sessions : Ask(s))
  <2>1. Tail(todo) # todo
    BY <1>1, Shorter
  <2>2. ~Interrupt /\ ~(\E s \in Sessions : Ask(s))
    BY <1>1 DEF Interrupt, Ask, Running
  <2> QED BY <1>1, <2>1, <2>2 DEF HandDoes, ChefNext, Doing, Brew, OpenBrewed, WriteBrewed,
           AntlrJava, Javac, AntlrCpp, Enter, CMake, Make, Clean, CheckBuild, Grun, Analyse,
           GccBuild, RunReference, Compile, Assemble, Run, Call, Finish, Continue, Fail, Running
<1>3. Edit \/ UNCHANGED vars
  BY <1>2 DEF Next
<1>4. bench' = bench /\ faults' = faults
  BY <1>3 DEF Edit, Untouched, NoTest, vars
<1>5. /\ disk'["reference"] = disk["reference"] /\ disk'["assembly"] = disk["assembly"]
      /\ disk'["program"] = disk["program"]
  BY <1>3 DEF Edit, vars, TypeInv, Typed, IsDisk, Fields
<1>6. Hand' = Hand /\ \A p \in Programs : Sound(p)' = Sound(p)
  BY <1>1, <1>4 DEF Hand, Sound, Faulty
<1> QED BY <1>1, <1>4, <1>5, <1>6 DEF BenchInv, HandDoes, Hand, Sound, Faulty

LEMMA ReferenceIsBuilt ==
  ASSUME TypeInv, PlanInv, DirsInv, CwdInv, GccBuild, session.kind = "test",
         NEW p, p = Hand.name, p \notin GccRejects, ~Faulty(count, {"gcc", "assemble"})',
         count' = count, disk'["reference"] # NoResult
  PROVE  disk'["reference"] = [of |-> p, as |-> "good"]
<1>1. todo # <<>> /\ Head(todo).do = "gcc" /\ Running
  BY DEF GccBuild, Doing
<1>2. cwd = "top"
  BY <1>1 DEF CwdInv, InBin
<1>3. disk' = IF "cpp-bin" \in disk["dirs"]
              THEN [disk EXCEPT !.reference = [of |-> p, as |-> "good"]] ELSE disk
  BY <1>1, <1>2 DEF GccBuild, Exec, Faulty, Hand
<1>4. IsDisk(disk) /\ ("cpp-bin" \notin disk["dirs"] => disk["reference"] = NoResult)
  BY DEF TypeInv, Typed, DirsInv
<1> QED BY <1>3, <1>4 DEF IsDisk, Fields

(* What the good defaults write                                               *)
LEMMA CompiledRight ==
  ASSUME TypeInv, Compile, todo' # <<>>, NEW p, p = Hand.name,
         Fate[p][disk.caramel] \in Compared
  PROVE  disk'["assembly"]["bin"] = Result(p, disk.caramel)
<1>1. disk' = Called({"good-defaults"}, p, "bin")
  BY DEF Compile, Fail, Hand
<1>2. WritesAssembly(Config({"good-defaults"}), Fate[p][disk.caramel])
  BY DEF WritesAssembly, Analysed, Parsed, Config, Compared
<1>3. IsDisk(disk) /\ disk["assembly"] \in [{"top", "bin"} -> Results]
  BY DEF TypeInv, Typed
<1>4. disk' = [disk EXCEPT !.assembly["bin"] = Result(p, disk.caramel)]
  BY <1>1, <1>2 DEF Called
<1> QED BY <1>3, <1>4 DEF IsDisk, Fields

LEMMA LinkedRight ==
  ASSUME TypeInv, Assemble, ~Faulty(count, {"gcc", "assemble"})', count' = count,
         NEW r, r = disk["assembly"]["bin"], r.as \in Compared
  PROVE  disk'["program"] = r
<1>1. IsDisk(disk)
  BY DEF TypeInv, Typed
<1>2. r # NoResult /\ r.as # "refused"
  BY DEF NoResult, Compared
<1>3. Linked = {[disk EXCEPT !.program = r]}
  BY <1>2 DEF Linked
<1>4. PICK after \in Linked : Exec(after)
  BY DEF Assemble
<1>5. Head(todo).do = "assemble"
  BY DEF Assemble, Doing
<1>6. disk' = [disk EXCEPT !.program = r]
  BY <1>3, <1>4, <1>5 DEF Exec, Faulty
<1> QED BY <1>1, <1>6 DEF IsDisk, Fields

LEMMA BenchStep ==
  ASSUME TypeInv, PlanInv, DirsInv, CwdInv, BenchInv, [Next]_vars
  PROVE  BenchInv'
<1> SUFFICES ASSUME session'.kind = "test", todo' # <<>>,
                    Head(todo').do \in {"reference", "compile", "assemble", "run"}
             PROVE  BenchInv'
  BY DEF BenchInv, HandDoes
<1>1. Following
  BY Follows
<1>2. CASE Waited
  <2>1. HandDoes({"reference", "compile", "assemble", "run"})
    BY <1>2 DEF Waited, HandDoes
  <2> QED BY <1>2, <2>1, BenchEdited
<1>3. CASE Continued
  <2>1. session' = session /\ count' = count /\ todo # <<>> /\ session.kind = "test" /\ Running
    BY <1>3, HeadFacts DEF Continued, Same
  <2>2. Joined(Head(todo), Head(todo'))
    <3>1. todo \in Seq(Allowed(session)) /\ Chained(todo) /\ todo' = Tail(todo)
      BY <1>3, <2>1 DEF PlanInv, Continued
    <3> QED BY <2>1, <3>1, TailFacts
  <2>3. Head(todo).do \in {"gcc", "reference", "compile", "assemble"} /\ Head(todo').test = Head(todo).test
    BY <2>2 DEF Joined
  <2>4. PICK p \in Programs : p = Hand.name /\ Hand' = Hand
    <3>1. Hand.name \in Programs
      BY <2>1, <2>3, HandFacts DEF Acts
    <3> QED BY <2>3, <3>1 DEF Hand
  <2>5. /\ Faulty(count, {"gcc", "assemble"}) => Faulty(count, {"gcc", "assemble"})'
        /\ Sound(p)' <=> p \notin GccRejects /\ ~Faulty(count, {"gcc", "assemble"})'
        /\ Sound(p) <=> p \notin GccRejects /\ ~Faulty(count, {"gcc", "assemble"})
        /\ Sound(p)' => Sound(p)
    BY <2>1, FaultsGrow DEF Sound, Faulty
  <2>6. CASE Head(todo).do = "gcc"
    <3>1. GccBuild /\ Head(todo').do = "reference"
      BY <1>3, <2>2, <2>6, WhoseStep DEF Joined
    <3>2. Sound(p)' /\ disk'["reference"] # NoResult => disk'["reference"] = [of |-> p, as |-> "good"]
      BY <2>1, <2>4, <2>5, <3>1, ReferenceIsBuilt
    <3> QED BY <2>4, <3>1, <3>2 DEF BenchInv, HandDoes
  <2>7. CASE Head(todo).do = "reference"
    <3>1. RunReference /\ Head(todo').do = "compile"
      BY <1>3, <2>2, <2>7, WhoseStep DEF Joined
    <3>2. disk["reference"] # NoResult /\ bench' = [bench EXCEPT !.reference = Prints(disk.reference)]
      BY <2>1, <3>1 DEF RunReference, Fail, Continue, Running
    <3>3. bench'.reference = Prints(disk.reference)
      BY <3>2 DEF TypeInv
    <3>4. Sound(p)' => disk.reference = [of |-> p, as |-> "good"]
      BY <2>1, <2>4, <2>5, <2>7, <3>2 DEF BenchInv, HandDoes
    <3>5. Prints([of |-> p, as |-> "good"]) = Output[p]
      BY DEF Prints
    <3>6. Sound(p)' => bench'.reference = Output[p]
      BY <3>3, <3>4, <3>5
    <3> QED BY <2>4, <3>1, <3>6 DEF BenchInv, HandDoes
  <2>8. CASE Head(todo).do = "compile"
    <3>1. Compile /\ Head(todo').do = "assemble"
      BY <1>3, <2>2, <2>8, WhoseStep DEF Joined
    <3>2. disk.caramel # 0 /\ bench' = [bench EXCEPT !.compiler = disk.caramel]
      BY <3>1 DEF Compile, Fail, CaramelIsThere
    <3>3. bench'.reference = bench.reference /\ bench'.compiler = disk.caramel
      BY <3>2 DEF TypeInv
    <3>4. Sound(p)' => bench'.reference = Output[p]
      BY <2>1, <2>4, <2>5, <2>8, <3>3 DEF BenchInv, HandDoes
    <3>5. Fate[p][bench'.compiler] \in Compared => disk'["assembly"]["bin"] = Result(p, bench'.compiler)
      BY <2>4, <3>1, <3>3, CompiledRight
    <3> QED BY <2>4, <3>1, <3>2, <3>3, <3>4, <3>5 DEF BenchInv, HandDoes
  <2>9. CASE Head(todo).do = "assemble"
    <3>1. Assemble /\ Head(todo').do = "run"
      BY <1>3, <2>2, <2>9, WhoseStep DEF Joined
    <3>2. bench' = bench
      BY <3>1 DEF Assemble, Untouched, NoTest
    <3>3. Sound(p)' => bench'.reference = Output[p]
      BY <2>1, <2>4, <2>5, <2>9, <3>2 DEF BenchInv, HandDoes
    <3>4. /\ bench.compiler # 0
          /\ Fate[p][bench.compiler] \in Compared => disk["assembly"]["bin"] = Result(p, bench.compiler)
      BY <2>1, <2>4, <2>9 DEF BenchInv, HandDoes
    <3>5. disk'["assembly"] = disk["assembly"]
      <4>1. PICK after \in Linked : Exec(after)
        BY <3>1 DEF Assemble
      <4>2. IsDisk(disk)
        BY DEF TypeInv, Typed
      <4>3. after["assembly"] = disk["assembly"]
        BY <4>2 DEF Linked, IsDisk, Fields
      <4> QED BY <4>1, <4>3 DEF Exec
    <3>6. ASSUME Fate[p][bench.compiler] \in Compared, Sound(p)'
          PROVE  disk'["program"] = Result(p, bench.compiler)
      <4>1. Result(p, bench.compiler).as \in Compared
        BY <3>6 DEF Result
      <4> QED BY <2>1, <2>5, <3>1, <3>4, <3>6, <4>1, LinkedRight
    <3> QED BY <2>4, <3>1, <3>2, <3>3, <3>4, <3>5, <3>6 DEF BenchInv, HandDoes
  <2> QED BY <2>3, <2>6, <2>7, <2>8, <2>9
<1>4. CASE ~Continued /\ ~Waited
  BY <1>1, <1>4 DEF Following, Repeated, Followed, Same, Followers
<1> QED BY <1>2, <1>3, <1>4

LEMMA BenchInvariant == Spec => []BenchInv
<1>1. Init => BenchInv
  BY DEF Init, BenchInv
<1> QED BY <1>1, BenchStep, TypeInvariant, PlanInvariant, DirsInvariant, CwdInvariant, PTL DEF Spec
-----------------------------------------------------------------------------
(* Verdicts *)

GccWorks == ~Faulty(count, {"gcc", "assemble"})
OwnVerdict(v, works) ==
  /\ v.stage \in {"backend", "programs"} /\ Fate[v.of.name][v.version] \in Compared
  /\ v.of.name \notin GccRejects /\ works
  => v.succeeded = (v.of.invalid = (Fate[v.of.name][v.version] = "wrong"))

LEMMA RunsItsOwn ==
  ASSUME TypeInv, PlanInv, BenchInv, Run, session.kind = "test",
         NEW p, p = Hand.name, Sound(p), Fate[p][bench.compiler] \in Compared
  PROVE  (Prints(disk.program) # bench.reference) = (Fate[p][bench.compiler] = "wrong")
<1>1. todo # <<>> /\ Head(todo).do = "run"
  BY DEF Run, Doing
<1>2. bench.reference = Output[p] /\ disk.program = Result(p, bench.compiler)
  BY <1>1 DEF BenchInv, HandDoes
<1>3. Prints(disk.program) = IF Fate[p][bench.compiler] = "good" THEN Output[p] ELSE "something else"
  BY <1>2 DEF Prints, Result
<1>4. Output[p] # "something else"
  BY <1>1, HandFacts, ProgramsAssumption DEF Acts
<1> QED BY <1>2, <1>3, <1>4 DEF Compared

LEMMA NewVerdict ==
  ASSUME TypeInv, PlanInv, BenchInv, Grun \/ Analyse \/ Run,
         NEW errors, NEW version \in 0..MaxVersion, Judge(errors, version),
         Run => errors = (Prints(disk.program) # bench.reference) /\ version = bench.compiler
  PROVE  /\ verdicts' \in Seq(Verdicts) /\ Len(verdicts') = Len(verdicts) + 1
         /\ \A i \in 1..Len(verdicts) : verdicts'[i] = verdicts[i]
         /\ OwnVerdict(verdicts'[Len(verdicts) + 1], GccWorks)
<1>1. todo # <<>> /\ Head(todo).do \in Acts /\ session.kind = "test"
  BY HeadFacts DEF Grun, Analyse, Run, Doing, Acts
<1> DEFINE v == [stage |-> Head(todo).stage, of |-> Hand,
                 succeeded |-> Succeeds(errors), version |-> version]
<1>2. /\ verdicts' \in Seq(Verdicts) /\ Len(verdicts') = Len(verdicts) + 1
      /\ \A i \in 1..Len(verdicts) : verdicts'[i] = verdicts[i]
      /\ verdicts'[Len(verdicts) + 1] = v
  BY <1>1, Judged
<1>3. OwnVerdict(v, GccWorks)
  <2> SUFFICES ASSUME v.stage \in {"backend", "programs"}, Fate[v.of.name][v.version] \in Compared,
                      v.of.name \notin GccRejects, GccWorks
               PROVE  v.succeeded = (v.of.invalid = (Fate[v.of.name][v.version] = "wrong"))
    BY DEF OwnVerdict
  <2>1. Run
    BY <1>1, HandFacts DEF Grun, Analyse, Doing
  <2>2. errors = (Fate[Hand.name][bench.compiler] = "wrong") /\ version = bench.compiler
    <3>1. Sound(Hand.name) /\ Fate[Hand.name][bench.compiler] \in Compared
      BY <2>1 DEF Sound, GccWorks
    <3> QED BY <1>1, <2>1, <3>1, RunsItsOwn
  <2>3. v.succeeded = (errors = Hand.invalid)
    BY DEF Succeeds, Hand
  <2>4. Hand.invalid \in BOOLEAN
    BY <1>1, HandFacts
  <2> QED BY <2>2, <2>3, <2>4
<1> QED BY <1>2, <1>3

(* A back-end test is judged by its own program: whatever files were left in  *)
(* the directory, if Caramel compiles it, it succeeds just when it prints     *)
(* what the program means (test.py:286-322).                                  *)
THEOREM VerdictsAreOwn == Spec => []OwnVerdicts
<1>1. Init => OwnVerdicts
  BY DEF Init, OwnVerdicts
<1>3. TypeInv /\ PlanInv /\ BenchInv /\ OwnVerdicts /\ [Next]_vars => OwnVerdicts'
  <2> SUFFICES ASSUME TypeInv, PlanInv, BenchInv, OwnVerdicts, [Next]_vars PROVE OwnVerdicts'
    OBVIOUS
  <2>1. verdicts \in Seq(Verdicts) /\ Len(verdicts) \in Nat
    BY DEF TypeInv
  <2>2. \A i \in 1..Len(verdicts) : OwnVerdict(verdicts[i], GccWorks)
    BY <2>1 DEF OwnVerdicts, OwnVerdict, Compared, GccWorks
  <2>3. SUFFICES /\ verdicts' \in Seq(Verdicts)
                 /\ \A i \in 1..Len(verdicts') : OwnVerdict(verdicts'[i], GccWorks')
    BY DEF OwnVerdicts, OwnVerdict, Compared, GccWorks
  <2>4. CASE \E s \in Sessions : Ask(s)
    BY <2>4 DEF Ask
  <2>5. CASE ~\E s \in Sessions : Ask(s)
    <3>1. count' = count
      BY <2>5, Moves DEF Next, vars, Moved, Continued, Repeated, Stopped, Followed, Waited, Same
    <3>2. \A v : OwnVerdict(v, GccWorks) => OwnVerdict(v, GccWorks')
      <4>1. GccWorks' => GccWorks
        BY <3>1, FaultsGrow DEF GccWorks, Faulty
      <4> QED BY <4>1 DEF OwnVerdict
    <3>3. CASE verdicts' = verdicts
      BY <2>1, <2>2, <3>2, <3>3
    <3>4. CASE Grun \/ Analyse \/ Run
      <4>1. verdicts' = verdicts \/ \E errors, version :
              /\ version \in 0..MaxVersion /\ Judge(errors, version)
              /\ Run => errors = (Prints(disk.program) # bench.reference) /\ version = bench.compiler
        <5>1. /\ disk.class.of \in 0..MaxVersion /\ disk.caramel \in 0..MaxVersion
              /\ bench.compiler \in 0..MaxVersion
          BY DEF TypeInv, Typed, Before, Parsers
        <5> QED BY <3>4, <5>1 DEF Grun, Analyse, Run, Doing
      <4>2. CASE verdicts' # verdicts
        <5>1. /\ verdicts' \in Seq(Verdicts) /\ Len(verdicts') = Len(verdicts) + 1
              /\ \A i \in 1..Len(verdicts) : verdicts'[i] = verdicts[i]
              /\ OwnVerdict(verdicts'[Len(verdicts) + 1], GccWorks)
          BY <3>4, <4>1, <4>2, NewVerdict
        <5>2. ASSUME NEW i \in 1..Len(verdicts') PROVE OwnVerdict(verdicts'[i], GccWorks)
          BY <2>1, <2>2, <5>1
        <5> QED BY <3>2, <5>1, <5>2
      <4> QED BY <3>3, <4>2
    <3>5. verdicts' = verdicts \/ Grun \/ Analyse \/ Run
      BY <2>5 DEF Next, vars, Interrupt, Edit, ChefNext, Brew, OpenBrewed, WriteBrewed, AntlrJava,
         Javac, AntlrCpp, Enter, CMake, Make, Clean, CheckBuild, GccBuild, RunReference, Compile,
         Assemble, Call, Finish, Untouched, NoTest
    <3> QED BY <3>3, <3>4, <3>5
  <2> QED BY <2>4, <2>5
<1> QED BY <1>1, <1>3, TypeInvariant, PlanInvariant, BenchInvariant, PTL DEF Spec
-----------------------------------------------------------------------------
(* What is made is of what was brewed last                                    *)

(* While the grammar is brewed, each user is still to be preceded by a maker. *)
LEMMA BrewFirst ==
  ASSUME PlanInv, HandDoes({"brew"}), NEW users, "brew" \notin users, NEW maker,
         Renewed(todo, users, maker)
  PROVE  Supplied(todo, users, maker)
<1>1. todo \in Seq(Allowed(session)) /\ todo # <<>> /\ todo[1].do = "brew"
  BY DEF PlanInv, HandDoes
<1> SUFFICES ASSUME NEW i \in 1..Len(todo), todo[i].do \in users
             PROVE  \E j \in 1..(i - 1) : todo[j].do = maker
  BY DEF Supplied
<1>2. 1 \in 1..(i - 1)
  BY <1>1
<1>3. PICK j \in (1 + 1)..(i - 1) : todo[j].do = maker
  BY <1>1, <1>2 DEF Renewed
<1>4. j \in 1..(i - 1)
  BY <1>3
<1> QED BY <1>3, <1>4

(* A step of brewing: the steps left are the same until it is done.           *)
BrewedNow == (Continued \/ Waited) /\ HandDoes({"brew"})

(* Readiness lasts: each user of what is brewed is still to be preceded by    *)
(* its maker, or what the maker makes is fresh.                               *)
LEMMA ReadyStep ==
  ASSUME PlanInv, [Next]_vars, NEW users, NEW maker, {"assemble", "brew"} \cap users = {},
         NEW now \in BOOLEAN, NEW then \in BOOLEAN,
         Renewed(todo, users, maker), now \/ Supplied(todo, users, maker),
         Continued /\ Head(todo).do = maker => then,
         \/ now => then
         \/ BrewedNow
         \/ Prepared(todo', users, maker),
         (\E s \in Sessions : Ask(s)) => Prepared(todo', users, maker)
  PROVE  Renewed(todo', users, maker) /\ (then \/ Supplied(todo', users, maker))
<1>1. CASE Prepared(todo', users, maker)
  BY <1>1 DEF Prepared
<1>2. CASE Continued
  <2>1. todo \in Seq(Allowed(session)) /\ todo # <<>> /\ todo' = Tail(todo)
    BY <1>2 DEF PlanInv, Continued
  <2>2. /\ Renewed(todo', users, maker)
        /\ Head(todo).do = "brew" => Supplied(todo', users, maker)
        /\ Supplied(todo, users, maker) /\ Head(todo).do # maker => Supplied(todo', users, maker)
    BY <2>1, TailPrepared
  <2> QED BY <1>1, <1>2, <2>2 DEF BrewedNow, HandDoes
<1>3. CASE Repeated
  <2> DEFINE h == [Head(todo) EXCEPT !.gui = TRUE]
  <2>1. h \in Allowed(session) /\ h.do = Head(todo).do /\ Head(todo).do \notin Openers \cup Followers
    BY <1>3, Again
  <2>2. todo \in Seq(Allowed(session)) /\ todo # <<>> /\ todo' = <<h>> \o Tail(todo)
    BY <1>3 DEF PlanInv, Repeated
  <2> HIDE DEF h
  <2>3. /\ Renewed(todo', users, maker)
        /\ Supplied(todo, users, maker) => Supplied(todo', users, maker)
    BY <2>1, <2>2, SameSteps
  <2>4. ~HandDoes({"brew"})
    BY <1>3 DEF Repeated, HandDoes
  <2> QED BY <1>1, <2>3, <2>4 DEF BrewedNow
<1>4. CASE Stopped
  BY <1>4 DEF Stopped, Renewed, Supplied
<1>5. CASE Followed
  BY <1>5 DEF Followed, Renewed, Supplied, Step
<1>6. CASE (Waited \/ UNCHANGED vars) /\ ~Continued
  <2>1. todo' = todo
    BY <1>6 DEF Waited, vars
  <2>2. BrewedNow => Supplied(todo', users, maker)
    BY <2>1, BrewFirst DEF BrewedNow
  <2> QED BY <1>1, <1>6, <2>1, <2>2
<1>7. CASE \E s \in Sessions : Ask(s)
  BY <1>1, <1>7
<1> QED BY <1>2, <1>3, <1>4, <1>5, <1>6, <1>7, Moves DEF Moved, Next

(* Who writes what                                                            *)
LEMMA FileForms ==
  ASSUME TypeInv, PlanInv, [Next]_vars
  PROVE  /\ \/ disk'["brewed"] = disk["brewed"]
            \/ OpenBrewed /\ disk' = Opened(disk, clock)
            \/ WriteBrewed /\ disk' = Brewed(disk, grammar, clock)
         /\ disk'["java"] = disk["java"] \/ AntlrJava \/ Clean
         /\ disk'["class"] = disk["class"] \/ Javac \/ Clean
         /\ disk'["cpp"] = disk["cpp"] \/ AntlrCpp \/ Clean
         /\ disk'["caramel"] = disk["caramel"] \/ Make \/ Clean
<1>1. IsDisk(disk)
  BY DEF TypeInv, Typed
<1> USE <1>1 DEF IsDisk, Fields
<1>2. CASE Brew \/ OpenBrewed \/ WriteBrewed
  BY <1>2 DEF Brew, OpenBrewed, WriteBrewed, Opened, Brewed
<1>3. CASE AntlrJava
  <2>1. disk' = disk \/ disk' = GeneratedJava(disk, clock)
    BY <1>3 DEF AntlrJava, Exec
  <2> QED BY <1>3, <2>1 DEF GeneratedJava
<1>4. CASE Javac
  <2>1. disk' = disk \/ disk' = CompiledJava(disk, clock)
    BY <1>4 DEF Javac, Exec
  <2> QED BY <1>4, <2>1 DEF CompiledJava
<1>5. CASE AntlrCpp
  <2>1. disk' = disk \/ disk' = GeneratedCpp(disk, clock)
    BY <1>5 DEF AntlrCpp, Exec
  <2> QED BY <1>5, <2>1 DEF GeneratedCpp
<1>6. CASE Enter \/ CMake
  <2>1. disk' \in {disk, Entered(disk), Configured(disk)}
    BY <1>6 DEF Enter, CMake, Exec
  <2> QED BY <2>1 DEF Entered, Configured
<1>7. CASE Make
  <2>1. disk' = disk \/ disk' = Made(disk)
    BY <1>7 DEF Make, Exec
  <2> QED BY <1>7, <2>1 DEF Made
<1>8. CASE Clean
  <2>1. disk' = disk \/ disk' = Cleaned(disk, NoResult)
    BY <1>8 DEF Clean
  <2> QED BY <1>8, <2>1 DEF Cleaned
<1>9. CASE Analyse \/ Compile \/ Call
  BY <1>9 DEF Analyse, Compile, Call, Called
<1>10. CASE GccBuild
  BY <1>10 DEF GccBuild, Exec
<1>11. CASE Assemble
  <2>1. PICK after \in Linked : Exec(after)
    BY <1>11 DEF Assemble
  <2>2. \A field \in Fields \ {"program"} : after[field] = disk[field]
    BY DEF Linked
  <2> QED BY <2>1, <2>2 DEF Exec
<1>12. CASE Edit
  BY <1>12 DEF Edit
<1>13. CASE CheckBuild \/ Grun \/ RunReference \/ Run \/ Finish \/ Interrupt
            \/ (\E s \in Sessions : Ask(s)) \/ UNCHANGED vars
  BY <1>13 DEF CheckBuild, Grun, RunReference, Run, Finish, Interrupt, Ask, vars
<1> QED BY <1>2, <1>3, <1>4, <1>5, <1>6, <1>7, <1>8, <1>9, <1>10, <1>11, <1>12, <1>13
        DEF Next, ChefNext

Trusted == \A n \in 1..count : ~Faulty(n, {"antlrJava"})
Faultless == ~Faulty(count, Tools)
JavaFresh == Accepted /\ Trusted => disk["java"].of = disk["brewed"].of
CppFresh == Accepted /\ Faultless => disk["cpp"].of = disk["brewed"].of
ClassFresh == Accepted /\ Trusted /\ Faultless => disk["class"].of = disk["brewed"].of
CaramelFresh == Accepted /\ Faultless => disk["caramel"] = disk["brewed"].of

(* No failure is taken back.                                                  *)
LEMMA Failing ==
  ASSUME TypeInv, PlanInv, [Next]_vars
  PROVE  /\ Trusted' => Trusted
         /\ Faultless' => Faultless \/ \E s \in Sessions : Ask(s)
         /\ count' = count \/ \E s \in Sessions : Ask(s)
<1>1. count' = count \/ (count' = count + 1 /\ \E s \in Sessions : Ask(s))
  BY Moves DEF Next, vars, Moved, Continued, Repeated, Stopped, Followed, Waited, Same, Ask
<1>2. count \in Nat /\ 1..count \subseteq 1..count'
  BY <1>1 DEF TypeInv
<1> QED BY <1>1, <1>2, FaultsGrow DEF Trusted, Faultless, Faulty

LEMMA TypedFiles ==
  ASSUME TypeInv
  PROVE  /\ IsDisk(disk) /\ clock \in Nat
         /\ \A file \in Parsers \cup {"source", "brewed"} :
              disk[file].of \in Int /\ disk[file].time \in Nat /\ disk[file].time < clock
         /\ disk["source"].of # 0 /\ disk["caramel"] \in Nat
<1>1. clock \in Nat
  BY DEF TypeInv, Typed
<1>2. \A file \in Parsers \cup {"source", "brewed"} : disk[file] \in Before(clock) \cup TornBefore(clock)
  BY DEF TypeInv, Typed
<1>3. \A file \in Parsers \cup {"source", "brewed"} :
        disk[file].of \in Int /\ disk[file].time \in Nat /\ disk[file].time < clock
  BY <1>1, <1>2, BoundsAssumption DEF Before, TornBefore, Torn
<1> QED BY <1>1, <1>3, BoundsAssumption DEF TypeInv, Typed

(* The Java parser is of the brewed grammar when it is to be compiled.        *)
JavaInv ==
  Renewed(todo, {"javac"}, "antlrJava") /\ (JavaFresh \/ Supplied(todo, {"javac"}, "antlrJava"))

(* A session that cleans uses nothing.                                        *)
LEMMA CleansLast ==
  ASSUME PlanInv, Clean, [Next]_vars, NEW users, "clean" \notin users, NEW maker
  PROVE  Prepared(todo', users, maker) /\ session'.kind = "clean"
<1>1. session.kind = "clean" /\ session' = session
  BY HeadFacts DEF Clean, Doing, Continue, Fail
<1>2. todo' \in Seq(Allowed(session'))
  BY PlanStep DEF PlanInv
<1>3. \A i \in 1..Len(todo') : todo'[i].do = "clean"
  BY <1>1, <1>2 DEF Allowed, Step
<1> QED BY <1>1, <1>3 DEF Prepared, Supplied, Renewed

LEMMA ActsContinue ==
  ASSUME PlanInv
  PROVE  /\ AntlrJava \/ AntlrCpp \/ Make => Continued
         /\ OpenBrewed \/ WriteBrewed => BrewedNow /\ Head(todo).do = "brew"
         /\ AntlrJava => Head(todo).do = "antlrJava"
         /\ AntlrCpp => Head(todo).do = "antlrCpp"
         /\ Make => Head(todo).do = "make"
         /\ Javac => Head(todo).do = "javac" /\ (Continued \/ disk' = disk) /\ todo # <<>>
BY DEF OpenBrewed, WriteBrewed, AntlrJava, AntlrCpp, Make, Javac, Doing, Continue, Continued,
       Waited, Same, BrewedNow, HandDoes

LEMMA JavaGenerated ==
  ASSUME TypeInv, TimesInv, PlanInv, AntlrJava, [Next]_vars
  PROVE  JavaFresh'
<1> SUFFICES ASSUME Accepted', Trusted' PROVE disk'["java"].of = disk'["brewed"].of
  BY DEF JavaFresh
<1>1. disk'["brewed"] = disk["brewed"] /\ Accepted
  BY FileForms, ActsContinue DEF Accepted
<1>2. CASE MustGenerateJava(disk)
  <2>1. Head(todo).do = "antlrJava" /\ todo # <<>> /\ count' = count
    BY DEF AntlrJava, Doing, Continue
  <2>2. count \in 1..count
    BY <2>1, HeadFacts DEF TypeInv
  <2>3. <<count, "antlrJava">> \notin faults'
    BY <2>1, <2>2 DEF Trusted, Faulty
  <2>4. disk' = GeneratedJava(disk, clock)
    BY <1>1, <1>2, <2>1, <2>3 DEF AntlrJava, Exec
  <2> QED BY <2>4, TypedFiles DEF GeneratedJava, IsDisk, Fields
<1>3. CASE ~MustGenerateJava(disk)
  BY <1>1, <1>3 DEF AntlrJava, TimesInv, StaleIsSeen
<1> QED BY <1>2, <1>3

LEMMA JavaStep ==
  ASSUME TypeInv, TimesInv, PlanInv, JavaInv, [Next]_vars
  PROVE  JavaInv'
<1>1. Continued /\ Head(todo).do = "antlrJava" => JavaFresh'
  BY WhoseStep, JavaGenerated
<1>2. \/ JavaFresh => JavaFresh'
      \/ BrewedNow
      \/ Prepared(todo', {"javac"}, "antlrJava")
  <2>1. CASE OpenBrewed \/ WriteBrewed
    BY <2>1, ActsContinue
  <2>2. CASE AntlrJava
    BY <2>2, JavaGenerated
  <2>3. CASE Clean
    BY <2>3, CleansLast
  <2>4. CASE ~OpenBrewed /\ ~WriteBrewed /\ ~AntlrJava /\ ~Clean
    <3>1. disk'["brewed"] = disk["brewed"] /\ disk'["java"] = disk["java"]
      BY <2>4, FileForms
    <3> QED BY <3>1, Failing DEF JavaFresh, Accepted
  <2> QED BY <2>1, <2>2, <2>3, <2>4
<1>3. (\E s \in Sessions : Ask(s)) => Prepared(todo', {"javac"}, "antlrJava")
  BY SessionSteps DEF Ask
<1>4. JavaFresh \in BOOLEAN /\ JavaFresh' \in BOOLEAN
  BY DEF JavaFresh
<1> QED BY <1>1, <1>2, <1>3, <1>4, ReadyStep DEF JavaInv

LEMMA JavaInvariant == Spec => []JavaInv
<1>1. Init => JavaInv
  BY DEF Init, JavaInv, Renewed, Supplied
<1> QED BY <1>1, JavaStep, TypeInvariant, TimesInvariant, PlanInvariant, PTL DEF Spec

(* Classes of another grammar are older than the brewed one, unless ANTLR     *)
(* failed for Java.                                                           *)
AgeInv == disk["class"].of # disk["brewed"].of /\ Accepted /\ Trusted => MustCompileJava(disk)

LEMMA JavaReady ==
  ASSUME PlanInv, JavaInv, Javac PROVE JavaFresh
<1>1. todo \in Seq(Allowed(session)) /\ todo # <<>> /\ Head(todo).do = "javac"
  BY DEF PlanInv, Javac, Doing
<1> QED BY <1>1, TailPrepared DEF JavaInv

LEMMA AgeStep ==
  ASSUME TypeInv, PlanInv, JavaInv, AgeInv, [Next]_vars
  PROVE  AgeInv'
<1>0. /\ IsDisk(disk) /\ clock \in Nat
      /\ \A file \in {"brewed", "class"} : disk[file].time \in Nat /\ disk[file].time < clock
      /\ disk["source"].of # 0
  BY TypedFiles DEF Parsers
<1>1. ASSUME disk'["class"].of # disk'["brewed"].of, Accepted', Trusted'
      PROVE  MustCompileJava(disk')
  <2>0. Trusted
    BY <1>1, Failing
  <2>1. CASE disk' = Opened(disk, clock) \/ disk' = Brewed(disk, grammar, clock)
    <3>1. disk'["brewed"].time = clock /\ disk'["class"] = disk["class"]
      BY <1>0, <2>1 DEF Opened, Brewed, IsDisk, Fields
    <3> QED BY <1>0, <3>1 DEF MustCompileJava, TimeOr
  <2>2. CASE Javac
    <3>1. disk'["brewed"] = disk["brewed"]
      BY <2>2, FileForms DEF OpenBrewed, WriteBrewed, Javac, Doing
    <3>2. Accepted /\ disk["java"].of = disk["brewed"].of
      BY <1>1, <2>0, <2>2, <3>1, JavaReady DEF Accepted, JavaFresh
    <3>3. disk' # CompiledJava(disk, clock)
      BY <1>0, <1>1, <3>1, <3>2 DEF CompiledJava, IsDisk, Fields
    <3>4. disk' = disk
      BY <2>2, <3>3 DEF Javac, Exec
    <3> QED BY <1>1, <2>0, <3>2, <3>4 DEF AgeInv
  <2>3. CASE Clean
    <3>1. disk' = disk \/ disk' = Cleaned(disk, NoResult)
      BY <2>3 DEF Clean
    <3>2. CASE disk' = disk
      BY <1>1, <2>0, <3>2 DEF AgeInv, Accepted
    <3>3. CASE disk' = Cleaned(disk, NoResult)
      <4>1. disk'["class"] = NoFile /\ disk'["brewed"] = disk["brewed"]
        BY <1>0, <3>3 DEF Cleaned, IsDisk, Fields
      <4> QED BY <1>0, <4>1 DEF MustCompileJava, TimeOr, NoFile, IsThere
    <3> QED BY <3>1, <3>2, <3>3
  <2>4. CASE disk'["brewed"] = disk["brewed"] /\ ~Javac /\ ~Clean
    <3>1. disk'["class"] = disk["class"] /\ Accepted
      BY <1>1, <2>4, FileForms DEF Accepted
    <3> QED BY <1>1, <2>0, <2>4, <3>1 DEF AgeInv, MustCompileJava, TimeOr, IsThere
  <2> QED BY <2>1, <2>2, <2>3, <2>4, FileForms
<1> QED BY <1>1 DEF AgeInv

LEMMA AgeInvariant == Spec => []AgeInv
<1>1. Init => AgeInv
  BY DEF Init, AgeInv, NoFile
<1> QED BY <1>1, AgeStep, TypeInvariant, PlanInvariant, JavaInvariant, PTL DEF Spec

(* In a session that builds and tests, what is tested is fresh, or is still   *)
(* to be made.                                                                *)
Ready(fresh, users, maker) == Renewed(todo, users, maker) /\ (fresh \/ Supplied(todo, users, maker))
BuiltInv ==
  session.kind = "test" /\ session.build =>
    /\ Ready(CppFresh, {"make"}, "antlrCpp")
    /\ Ready(ClassFresh, {"grun"}, "javac")
    /\ Ready(CaramelFresh, {"analyse", "compile"}, "make")
    /\ HandDoes({"assemble", "run"}) /\ Accepted /\ Faultless => bench.compiler = disk["brewed"].of

(* Nobody fails the session's step in a session without failures.             *)
LEMMA NoFault ==
  ASSUME Faultless', count' = count, Head(todo).do \in Tools, NEW after, Exec(after)
  PROVE  disk' = after
BY DEF Faultless, Faulty, Exec

LEMMA ReadyHead ==
  ASSUME PlanInv, todo # <<>>, NEW fresh, NEW users, NEW maker, Ready(fresh, users, maker),
         Head(todo).do \in users
  PROVE  fresh
<1>1. todo \in Seq(Allowed(session))
  BY DEF PlanInv
<1> QED BY <1>1, TailPrepared DEF Ready

LEMMA CppGenerated ==
  ASSUME TypeInv, TimesInv, PlanInv, AntlrCpp, [Next]_vars
  PROVE  CppFresh'
<1> SUFFICES ASSUME Accepted', Faultless' PROVE disk'["cpp"].of = disk'["brewed"].of
  BY DEF CppFresh
<1>1. /\ disk'["brewed"] = disk["brewed"] /\ Accepted /\ count' = count
      /\ Head(todo).do \in Tools
  BY FileForms, ActsContinue DEF Accepted, AntlrCpp, Continue, Doing, Tools
<1>2. CASE MustGenerateCpp(disk)
  <2>1. disk' = GeneratedCpp(disk, clock)
    BY <1>1, <1>2, NoFault DEF AntlrCpp
  <2> QED BY <2>1, TypedFiles DEF GeneratedCpp, IsDisk, Fields
<1>3. CASE ~MustGenerateCpp(disk)
  BY <1>1, <1>3 DEF AntlrCpp, TimesInv, StaleIsSeen
<1> QED BY <1>2, <1>3

LEMMA ClassCompiled ==
  ASSUME TypeInv, PlanInv, JavaInv, AgeInv, Javac, Continued, [Next]_vars
  PROVE  ClassFresh'
<1> SUFFICES ASSUME Accepted', Trusted', Faultless' PROVE disk'["class"].of = disk'["brewed"].of
  BY DEF ClassFresh
<1>1. /\ disk'["brewed"] = disk["brewed"] /\ Accepted /\ count' = count /\ Trusted
      /\ Head(todo).do \in Tools
  BY FileForms, ActsContinue, Failing DEF Accepted, Javac, Continued, Same, Doing, Tools
<1>2. CASE MustCompileJava(disk)
  <2>1. ~(~IsThere(disk.java))
    BY <1>2, HeadFacts DEF Javac, Fail, Continued, Same, Running
  <2>2. disk' = CompiledJava(disk, clock)
    BY <1>1, <1>2, <2>1, NoFault DEF Javac
  <2>3. disk["java"].of = disk["brewed"].of
    BY <1>1, JavaReady DEF JavaFresh
  <2> QED BY <1>1, <2>2, <2>3, TypedFiles DEF CompiledJava, IsDisk, Fields
<1>3. CASE ~MustCompileJava(disk)
  BY <1>1, <1>3 DEF Javac, AgeInv
<1> QED BY <1>2, <1>3

LEMMA CaramelMade ==
  ASSUME TypeInv, PlanInv, DirsInv, CppFresh, Make, [Next]_vars
  PROVE  CaramelFresh'
<1> SUFFICES ASSUME Accepted', Faultless' PROVE disk'["caramel"] = disk'["brewed"].of
  BY DEF CaramelFresh
<1>1. /\ disk'["brewed"] = disk["brewed"] /\ Accepted /\ count' = count /\ todo # <<>>
      /\ Head(todo).do = "make" /\ Head(todo).do \in Tools
  BY FileForms, ActsContinue DEF Accepted, Make, Continue, Doing, Tools
<1>2. Faultless
  BY <1>1, FaultsGrow DEF Faultless, Faulty
<1>3. "cpp-bin" \in disk["dirs"]
  BY <1>1, <1>2 DEF DirsInv, Faultless, Faulty, Tools
<1>4. disk' = Made(disk)
  BY <1>1, <1>3, NoFault DEF Make
<1>5. disk["cpp"].of = disk["brewed"].of
  BY <1>1, <1>2 DEF CppFresh
<1>6. IsThere(disk.cpp)
  BY <1>1, <1>5 DEF Accepted, Versions, IsThere
<1> QED BY <1>1, <1>4, <1>5, <1>6, TypedFiles DEF Made, IsDisk, Fields

LEMMA BuiltStep ==
  ASSUME TypeInv, TimesInv, PlanInv, DirsInv, JavaInv, AgeInv, BuiltInv, [Next]_vars
  PROVE  BuiltInv'
<1> SUFFICES ASSUME session'.kind = "test", session'.build
             PROVE  /\ Ready(CppFresh, {"make"}, "antlrCpp")'
                    /\ Ready(ClassFresh, {"grun"}, "javac")'
                    /\ Ready(CaramelFresh, {"analyse", "compile"}, "make")'
                    /\ HandDoes({"assemble", "run"})' /\ Accepted' /\ Faultless'
                         => bench'.compiler = disk'["brewed"].of
  BY DEF BuiltInv
<1>1. CASE \E s \in Sessions : Ask(s)
  <2>1. /\ Prepared(todo', {"make"}, "antlrCpp") /\ Prepared(todo', {"grun"}, "javac")
        /\ Prepared(todo', {"analyse", "compile"}, "make")
    BY <1>1, SessionSteps DEF Ask, Rebuilding
  <2>2. todo' # <<>> => Head(todo').do \notin Followers
    BY <1>1, SessionSteps DEF Ask, Starts
  <2> QED BY <2>1, <2>2 DEF Prepared, Ready, HandDoes, Followers
<1>2. CASE ~\E s \in Sessions : Ask(s)
  <2>1. session' = session /\ count' = count
    BY <1>2, Moves DEF Next, vars, Moved, Continued, Repeated, Stopped, Followed, Waited, Same
  <2>2. /\ Ready(CppFresh, {"make"}, "antlrCpp") /\ Ready(ClassFresh, {"grun"}, "javac")
        /\ Ready(CaramelFresh, {"analyse", "compile"}, "make")
        /\ HandDoes({"assemble", "run"}) /\ Accepted /\ Faultless => bench.compiler = disk["brewed"].of
    BY <2>1 DEF BuiltInv
  <2>3. ~Clean
    BY <2>1, HeadFacts DEF Clean, Doing
  <2>4. (Trusted' => Trusted) /\ (Faultless' => Faultless)
    BY <1>2, Failing
  <2>5. OpenBrewed \/ WriteBrewed => BrewedNow
    BY ActsContinue
  <2>6. ~OpenBrewed /\ ~WriteBrewed => disk'["brewed"] = disk["brewed"] /\ (Accepted' <=> Accepted)
    BY FileForms DEF Accepted
  <2>7. Ready(CppFresh, {"make"}, "antlrCpp")'
    <3>1. Continued /\ Head(todo).do = "antlrCpp" => CppFresh'
      BY WhoseStep, CppGenerated
    <3>2. (CppFresh => CppFresh') \/ BrewedNow
      BY <2>3, <2>4, <2>5, <2>6, FileForms, CppGenerated DEF CppFresh
    <3>3. CppFresh \in BOOLEAN /\ CppFresh' \in BOOLEAN
      BY DEF CppFresh
    <3> QED BY <1>2, <2>2, <3>1, <3>2, <3>3, ReadyStep DEF Ready
  <2>8. Ready(ClassFresh, {"grun"}, "javac")'
    <3>1. Continued /\ Head(todo).do = "javac" => ClassFresh'
      BY WhoseStep, ClassCompiled
    <3>2. (ClassFresh => ClassFresh') \/ BrewedNow
      <4>1. CASE Javac /\ ~Continued
        <5>1. disk' = disk
          BY <4>1, ActsContinue
        <5> QED BY <2>4, <5>1 DEF ClassFresh, Accepted
      <4> QED BY <2>3, <2>4, <2>5, <2>6, <4>1, FileForms, ClassCompiled DEF ClassFresh
    <3>3. ClassFresh \in BOOLEAN /\ ClassFresh' \in BOOLEAN
      BY DEF ClassFresh
    <3> QED BY <1>2, <2>2, <3>1, <3>2, <3>3, ReadyStep DEF Ready
  <2>9. Ready(CaramelFresh, {"analyse", "compile"}, "make")'
    <3>0. Make => CaramelFresh'
      <4>1. Make => todo # <<>> /\ Head(todo).do \in {"make"}
        BY DEF Make, Doing
      <4>2. Make => CppFresh
        BY <2>2, <4>1, ReadyHead
      <4> QED BY <4>2, CaramelMade
    <3>1. Continued /\ Head(todo).do = "make" => CaramelFresh'
      BY <3>0, WhoseStep
    <3>2. (CaramelFresh => CaramelFresh') \/ BrewedNow
      BY <2>3, <2>4, <2>5, <2>6, <3>0, FileForms DEF CaramelFresh
    <3>3. CaramelFresh \in BOOLEAN /\ CaramelFresh' \in BOOLEAN
      BY DEF CaramelFresh
    <3> QED BY <1>2, <2>2, <3>1, <3>2, <3>3, ReadyStep DEF Ready
  <2>10. ASSUME HandDoes({"assemble", "run"})', Accepted', Faultless'
         PROVE  bench'.compiler = disk'["brewed"].of
    <3>1. Following /\ todo' # <<>> /\ Head(todo').do \in {"assemble", "run"}
      BY <2>10, Follows DEF HandDoes
    <3>2. CASE Continued
      <4>1. /\ todo # <<>> /\ session.kind = "test" /\ todo \in Seq(Allowed(session))
            /\ Chained(todo) /\ todo' = Tail(todo)
        BY <2>1, <3>2 DEF PlanInv, Continued
      <4>2. Joined(Head(todo), Head(todo'))
        BY <3>1, <4>1, TailFacts
      <4>3. CASE Head(todo').do = "assemble"
        <5>1. Compile /\ Head(todo).do = "compile"
          BY <3>2, <4>2, <4>3, WhoseStep DEF Joined
        <5>2. CaramelFresh
          BY <2>2, <4>1, <5>1, ReadyHead
        <5>3. bench' = [bench EXCEPT !.compiler = disk.caramel] /\ ~OpenBrewed /\ ~WriteBrewed
          BY <3>1, <5>1 DEF Compile, Fail, OpenBrewed, WriteBrewed, Doing
        <5>4. bench'.compiler = disk["caramel"]
          BY <5>3 DEF TypeInv
        <5> QED BY <2>4, <2>6, <2>10, <5>2, <5>3, <5>4 DEF CaramelFresh
      <4>4. CASE Head(todo').do = "run"
        <5>1. Assemble /\ Head(todo).do = "assemble"
          BY <3>2, <4>2, <4>4, WhoseStep DEF Joined
        <5>2. bench' = bench /\ ~OpenBrewed /\ ~WriteBrewed
          BY <5>1 DEF Assemble, Untouched, NoTest, OpenBrewed, WriteBrewed, Doing
        <5> QED BY <2>2, <2>4, <2>6, <2>10, <4>1, <5>1, <5>2 DEF HandDoes
      <4> QED BY <3>1, <4>3, <4>4
    <3>3. CASE Waited
      <4>1. HandDoes({"assemble", "run"}) /\ todo' = todo /\ Running
        BY <3>1, <3>3, HeadFacts DEF Waited, HandDoes
      <4>2. Tail(todo) # todo
        BY <4>1, Shorter DEF HandDoes
      <4>3. bench' = bench /\ ~OpenBrewed /\ ~WriteBrewed
        BY <1>2, <4>1, <4>2 DEF HandDoes, Next, vars, Interrupt, Edit, Untouched, NoTest,
           ChefNext, Brew, OpenBrewed, WriteBrewed, AntlrJava, Javac, AntlrCpp, Enter, CMake,
           Make, Clean, CheckBuild, Grun, Analyse, GccBuild, RunReference, Compile, Assemble, Run,
           Call, Finish, Doing
      <4> QED BY <2>2, <2>4, <2>6, <2>10, <4>1, <4>3
    <3> QED BY <1>2, <2>1, <3>1, <3>2, <3>3 DEF Following, Repeated, Followed
  <2> QED BY <2>7, <2>8, <2>9, <2>10
<1> QED BY <1>1, <1>2

LEMMA BuiltInvariant == Spec => []BuiltInv
<1>1. Init => BuiltInv
  BY DEF Init, BuiltInv
<1> QED BY <1>1, BuiltStep, TypeInvariant, TimesInvariant, PlanInvariant, DirsInvariant,
           JavaInvariant, AgeInvariant, PTL DEF Spec

(* A test of a session that builds is a test of the grammar that was brewed   *)
(* last, also when earlier sessions were stopped half-way, but for runs after *)
(* a failure of ANTLR (build.py:159) or of a tool of the session itself.      *)
THEOREM BuildsAreOfTheBrewed == Spec => BuildsAreCurrent
<1> DEFINE A == Len(verdicts') > Len(verdicts) /\ session.build /\ Accepted
                /\ ~Faulty(count, Tools) /\ (\A n \in 1..count : ~Faulty(n, {"antlrJava"}))
                => Last(verdicts').version = disk.brewed.of
<1>1. TypeInv /\ PlanInv /\ BuiltInv /\ [Next]_vars => A
  <2> SUFFICES ASSUME TypeInv, PlanInv, BuiltInv, [Next]_vars,
                      Len(verdicts') > Len(verdicts), session.build,
                      Accepted, Faultless, Trusted
               PROVE  Last(verdicts').version = disk["brewed"].of
    BY DEF Faultless, Trusted
  <2>1. Len(verdicts) \in Nat
    BY DEF TypeInv
  <2>2. verdicts' # verdicts /\ verdicts' # <<>>
    BY <2>1
  <2>3. Grun \/ Analyse \/ Run
    BY <2>2 DEF Next, vars, Ask, Interrupt, Edit, ChefNext, Brew, OpenBrewed, WriteBrewed,
       AntlrJava, Javac, AntlrCpp, Enter, CMake, Make, Clean, CheckBuild, GccBuild, RunReference,
       Compile, Assemble, Call, Finish, Untouched, NoTest
  <2>4. todo # <<>> /\ Head(todo).do \in Acts /\ session.kind = "test"
    BY <2>3, HeadFacts DEF Grun, Analyse, Run, Doing, Acts
  <2>5. /\ Ready(ClassFresh, {"grun"}, "javac")
        /\ Ready(CaramelFresh, {"analyse", "compile"}, "make")
        /\ HandDoes({"assemble", "run"}) /\ Accepted /\ Faultless => bench.compiler = disk["brewed"].of
    BY <2>4 DEF BuiltInv
  <2>6. ASSUME NEW errors, NEW version \in 0..MaxVersion, Judge(errors, version)
        PROVE  Last(verdicts').version = version
    <3> DEFINE v == [stage |-> Head(todo).stage, of |-> Hand,
                     succeeded |-> Succeeds(errors), version |-> version]
    <3>1. Last(verdicts') = v
      BY <2>4, <2>6, Judged
    <3> QED BY <3>1
  <2>7. /\ disk["class"].of \in 0..MaxVersion /\ disk["caramel"] \in 0..MaxVersion
        /\ bench.compiler \in 0..MaxVersion
    BY DEF TypeInv, Typed, Before, Parsers
  <2>8. CASE Grun
    <3>1. ClassFresh /\ \E errors : Judge(errors, disk["class"].of)
      BY <2>4, <2>5, <2>8, ReadyHead DEF Grun, Doing
    <3> QED BY <2>6, <2>7, <3>1 DEF ClassFresh
  <2>9. CASE Analyse
    <3>1. CaramelFresh /\ \E errors : Judge(errors, disk["caramel"])
      BY <2>2, <2>4, <2>5, <2>9, ReadyHead DEF Analyse, Doing
    <3> QED BY <2>6, <2>7, <3>1 DEF CaramelFresh
  <2>10. CASE Run
    <3>1. bench.compiler = disk["brewed"].of /\ \E errors : Judge(errors, bench.compiler)
      BY <2>2, <2>4, <2>5, <2>10 DEF Run, Doing, HandDoes
    <3> QED BY <2>6, <2>7, <3>1
  <2> QED BY <2>3, <2>8, <2>9, <2>10
<1>2. TypeInv /\ PlanInv /\ BuiltInv /\ [Next]_vars => [A]_vars
  BY <1>1
<1> QED BY <1>2, TypeInvariant, PlanInvariant, BuiltInvariant, PTL DEF Spec, BuildsAreCurrent
=============================================================================
