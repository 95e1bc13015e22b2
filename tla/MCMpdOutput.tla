---------------------------- MODULE MCMpdOutput ----------------------------
(* TLC instances of MpdOutput.                                             *)
EXTENDS MpdOutput, TLC

CONSTANTS t1, t2, u1

Symmetry == Permutations({t1, t2})

\* Runs whose Ops leave out the volume functions and the position poll: with
\* such Ops these are all the steps of Spec.
ExclusiveNext ==
  \/ \E t \in Threads :
       \/ Exclusive(t) \/ Return(t)
       \/ \E o \in Ops : \E a \in Args(o) : Call(t, o, a)
  \/ PlayerMoves \/ Dead

ExclusiveSpec == Init /\ [][ExclusiveNext]_vars
=============================================================================
