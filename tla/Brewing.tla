------------------------------ MODULE Brewing ------------------------------
(***************************************************************************)
(* What `chef.py build` does to the files (tools/build.py): the tokens are *)
(* brewed into grammar/Caramel.g4, ANTLR makes a Java and a C++ parser of  *)
(* it, javac and make compile them.  Whether a step has anything to do is  *)
(* decided by comparing times of modification.                             *)
(*                                                                         *)
(* A file is the version of the grammar it was made of, 0 when it is not   *)
(* there, and the time it was written last.  A file that is open for       *)
(* writing holds no grammar yet.                                           *)
(***************************************************************************)
EXTENDS Integers

NoFile == [of |-> 0, time |-> 0]
IsThere(file) == file.of # 0
Torn == -1

(* os.path.getmtime, with what stands for it when there is no file            *)
TimeOr(file, absent) == IF IsThere(file) THEN file.time ELSE absent

(* brew_grammar_file: `source` is the numbered grammar that people edit.      *)
MustBrew(disk) == TimeOr(disk.source, -1) > TimeOr(disk.brewed, -2)

(* open(..., 'w') empties the file, and what was read is written to it.       *)
Opened(disk, now) == [disk EXCEPT !.brewed = [of |-> Torn, time |-> now]]
Brewed(disk, grammar, now) == [disk EXCEPT !.brewed = [of |-> grammar.of, time |-> now]]

(* As a bug: what was generated for Java is taken for C++ too.                *)
MustGenerateCppAsJava(disk) == disk.brewed.time > TimeOr(disk.java, -1)

(* build_grammar_java and build_grammar_cpp compare with the brewed grammar.  *)
MustGenerateJava(disk) == disk.brewed.time > TimeOr(disk.java, -1)
MustCompileJava(disk) == disk.brewed.time > TimeOr(disk.class, -1)
MustGenerateCpp(disk) == disk.brewed.time > TimeOr(disk.cpp, -1)

(* ANTLR creates the directories of its output.                               *)
GeneratedJava(disk, now) ==
  [disk EXCEPT !.java = [of |-> disk.brewed.of, time |-> now], !.dirs = @ \cup {"build"}]
GeneratedCpp(disk, now) ==
  [disk EXCEPT !.cpp = [of |-> disk.brewed.of, time |-> now], !.dirs = @ \cup {"build"}]
CompiledJava(disk, now) == [disk EXCEPT !.class = [of |-> disk.java.of, time |-> now]]

(* build_caramel: the directories, CMake's output directory, the program.     *)
(* CMake and make know what is out of date; without sources they fail.        *)
Entered(disk) == [disk EXCEPT !.dirs = @ \cup {"build"}]
Configured(disk) == [disk EXCEPT !.dirs = @ \cup {"cpp-bin"}]
Made(disk) == IF IsThere(disk.cpp) THEN [disk EXCEPT !.caramel = disk.cpp.of] ELSE disk

(* clean removes the directory build, and not the brewed grammar.             *)
Cleaned(disk, none) ==
  [disk EXCEPT !.java = NoFile, !.class = NoFile, !.cpp = NoFile, !.caramel = 0,
               !.reference = none, !.assembly["bin"] = none, !.program = none, !.dirs = {}]
=============================================================================
