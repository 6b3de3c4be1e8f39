------------------------------ MODULE Lockstep ------------------------------
(***************************************************************************)
(* The code of ControlFlow next to the source that it was made from: each  *)
(* atom that the code evaluates is evaluated in the source as well.        *)
(***************************************************************************)
EXTENDS ControlFlow

VARIABLES
  rest,     \* auxiliary: what is left of the source, see Structured
  ended     \* auxiliary: whether the source has ended

Source == INSTANCE Structured

Lost == <<[is |-> "lost"]>>

LockstepInit ==
  \E program \in Programs :
    /\ Starts(program)
    /\ rest = Source!Settle(program, FALSE)
    /\ ended = FALSE

(* The source evaluates the atom that the code does, if that one is next.    *)
Follow ==
  /\ rest' = IF Instruction.is # "atom" THEN rest
             ELSE IF rest # <<>> /\ Head(rest) = Atom(Instruction.name)
             THEN Source!Settle(Tail(rest), memory'[Instruction.into] = "true")
             ELSE Lost
  /\ ended' = (ended \/ Instruction.is = "epilog")

LockstepNext == Next /\ Follow

LockstepSpec ==
  LockstepInit /\ [][LockstepNext]_<<vars, rest, ended>>
    /\ WF_<<vars, rest, ended>>(LockstepNext)

-----------------------------------------------------------------------------
(* Properties *)

(* The code evaluates the expressions of the source, in the order and under  *)
(* the conditions the source says, whatever they evaluate to, and returns    *)
(* when nothing is left: the blocks of the function, their exits and their   *)
(* order of emission together implement the control structures.              *)
RunsAsWritten == Source!Spec

-----------------------------------------------------------------------------
(* Statements of the repository that the blocks do not keep *)

(* "[x] do while block" (README.md:213): the body of a do while is run from  *)
(* its beginning.                                                            *)
DoWhileRunsItsBody == rest # Lost

(* "if (x < 0 || y < 0)" (tests/programs/ackermann.c:55): conditions may be  *)
(* disjunctions, and "[x] complex nested expression" (README.md:210): both   *)
(* operands of || and && count where the source says so.                     *)
ConditionsAreEvaluated == rest # Lost
=============================================================================
