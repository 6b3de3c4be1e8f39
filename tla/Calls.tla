-------------------------------- MODULE Calls --------------------------------
(***************************************************************************)
(* What a function call promises to the program that makes it: its         *)
(* arguments are evaluated from the last one to the first, the function is *)
(* entered with the values they had, and whatever is called meanwhile      *)
(* changes neither an argument that waits for its call nor a parameter of  *)
(* a function that is active.                                              *)
(*                                                                         *)
(* CallSequence shows how the emitted code keeps (or breaks) the promise   *)
(* with the registers and the stack of the machine.                        *)
(***************************************************************************)
EXTENDS Integers, Sequences

CONSTANTS
  Values,    \* values an argument can have
  MaxArity,  \* bound: arguments of a call
  MaxCalls   \* bound: calls pending or active at the same time, main included

VARIABLE acts  \* the calls begun and not over, the outermost first

NotEvaluated == 0

Act(n) == [arity |-> n, left |-> n, entered |-> FALSE,
           args |-> [i \in 0..(n - 1) |-> NotEvaluated]]

Main == [Act(0) EXCEPT !.entered = TRUE]

Last == acts[Len(acts)]

Replace(a) == [acts EXCEPT ![Len(acts)] = a]

Init == acts = <<Main>>

(* A call is begun by a function or by an argument under evaluation.         *)
Begin(n) ==
  /\ Len(acts) < MaxCalls
  /\ Last.entered \/ Last.left > 0
  /\ acts' = Append(acts, Act(n))

Evaluate(v) ==
  /\ ~Last.entered /\ Last.left > 0
  /\ acts' = Replace([Last EXCEPT !.left = @ - 1, !.args[Last.left - 1] = v])

Enter ==
  /\ ~Last.entered /\ Last.left = 0
  /\ acts' = Replace([Last EXCEPT !.entered = TRUE])

(* The call is over; a function of a library is entered and left in one step. *)
Leave ==
  /\ Len(acts) > 1
  /\ Last.left = 0
  /\ acts' = SubSeq(acts, 1, Len(acts) - 1)

Next ==
  \/ \E n \in 0..MaxArity : Begin(n)
  \/ \E v \in Values : Evaluate(v)
  \/ Enter
  \/ Leave

Spec == Init /\ [][Next]_acts
=============================================================================
