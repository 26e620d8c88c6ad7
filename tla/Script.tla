------------------------------- MODULE Script -------------------------------
(***************************************************************************)
(* The control state of the programs of a workstation: the steps that each *)
(* of them still has to take.  A step may expand into the steps of the     *)
(* function it calls.                                                      *)
(***************************************************************************)
EXTENDS Sequences, SequencesExt

VARIABLE todo

At(p, step)      == todo[p] # <<>> /\ Head(todo[p]) = step
Expand(p, steps) == todo' = [todo EXCEPT ![p] = steps \o Tail(@)]
Done(p)          == Expand(p, <<>>)
=============================================================================
