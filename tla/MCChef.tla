------------------------------- MODULE MCChef -------------------------------
(* Seven programs, one for each way a test can go: right, wrong, an error of  *)
(* semantics, assembly that does not link, one that gcc rejects, one whose    *)
(* syntax the first grammar does not have and that waits for input, one that  *)
(* prints more than a pipe holds.  The second grammar is broken.              *)
EXTENDS Chef

CONSTANTS right, wrong, bad, unlinked, odd, newer, loud

MCPrograms == {right, wrong, bad, unlinked, odd, newer, loud}

MCFate ==
  [p \in MCPrograms |->
    [v \in Versions |->
      CASE p = wrong -> "wrong"
        [] p = bad -> "semantic"
        [] p = unlinked -> "refused"
        [] p = newer /\ v = 1 -> "syntax"
        [] OTHER -> "good"]]

MCOutput == [p \in MCPrograms |-> IF p \in {right, wrong} THEN "one" ELSE "two"]
MCSaid ==
  [p \in MCPrograms |-> [stdout |-> IF p = loud THEN 3 ELSE 2, stderr |-> IF p = bad THEN 2 ELSE 0]]

Test(p, invalid) == [name |-> p, invalid |-> invalid]
MCSuites ==
  [grammar  |-> <<Test(newer, FALSE)>>,
   semantic |-> <<Test(bad, TRUE)>>,
   backend  |-> <<Test(right, FALSE), Test(bad, FALSE), Test(odd, FALSE), Test(wrong, FALSE)>>,
   programs |-> <<Test(newer, FALSE), Test(loud, FALSE)>>]

Tests(stages, build, gui) ==
  [kind |-> "test", stages |-> stages, build |-> build, guiOnFailure |-> gui]
MCSessions ==
  {[kind |-> "build", grammar |-> TRUE, caramel |-> TRUE],
   [kind |-> "build", grammar |-> FALSE, caramel |-> TRUE],
   [kind |-> "clean"],
   [kind |-> "hand", program |-> unlinked, flags |-> {"good-defaults", "assemble"}],
   [kind |-> "hand", program |-> right, flags |-> {"compile", "syntax-tree-dot"}],
   Tests(<<"grammar">>, TRUE, TRUE),
   Tests(<<"backend">>, FALSE, TRUE),
   Tests(<<"grammar", "semantic", "backend", "programs">>, TRUE, FALSE)}
=============================================================================
