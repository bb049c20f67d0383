---- MODULE MCWorkflowRuns ----
(***************************************************************************)
(* Instances of WorkflowRuns for TLC.                                      *)
(***************************************************************************)
EXTENDS WorkflowRuns, TLC

\* The drives are interchangeable; used by the runs without liveness.
DriverSymmetry == Permutations(Drivers)

\* 1 asks for an approval; 3 starts with what arrives first of 1 and 2 but
\* requires the output of 2, and may be tried twice; 4 goes on after 1 and
\* also handles the failure of 3.
MixedData == {<<1, 3>>, <<2, 3>>, <<1, 4>>}
MixedFailure == {<<3, 4>>}
MixedRequired == {<<2, 3>>}

\* 1 feeds 2, and 3 only handles the failure of 1.
BranchData == {<<1, 2>>}
BranchFailure == {<<1, 3>>}

Once == [n \in Nodes |-> 1]
RetryJoin == [n \in Nodes |-> IF n = 3 THEN 2 ELSE 1]
====
