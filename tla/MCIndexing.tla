---------------------------- MODULE MCIndexing ----------------------------
(* The ways to index, one to a behaviour: an index run of checkouts and what *)
(* later requests reuse of it, resolving versions, indexing a revision and   *)
(* publishing the groups of a dependency cycle.  They share no state in the  *)
(* model, so the behaviours of each are those of its own specification.      *)
EXTENDS MCIndexRun, VersionGraph, RevisionIndex, CycleGroups

VARIABLE operation   \* the one this behaviour is of

allVars == <<operation, vars, versionVars, revisionVars, groupVars>>

\* 1 and 2 require each other, 2 requires 3 too; the tag of 3 may move to a commit that requires 1.
TheRequires == [x \in {<<1, 1>>, <<2, 1>>, <<3, 1>>, <<3, 2>>} |->
   CASE x = <<1, 1>> -> {2} [] x = <<2, 1>> -> {1, 3} [] x = <<3, 1>> -> {} [] x = <<3, 2>> -> {1}]
TheTags == [v \in VersionNames |-> IF v = 3 THEN 0 ELSE 1]
TheWanted == [r \in VersionRuns |-> IF r = 1 THEN <<1>> ELSE <<3, 2>>]

TheAsked == {[q \in Requests |-> 1], [q \in Requests |-> q]}
OneProcess == [q \in Requests |-> 1]

\* 1 and 2 require each other and 3; 4 requires 1 and 3.
TheLocalDeps == [m \in Checkouts |-> CASE m = 1 -> {2, 3} [] m = 2 -> {1} [] m = 3 -> {} [] m = 4 -> {1, 3}]
TheGroupTargets == [r \in GroupRuns |-> IF r = 1 THEN <<1, 4>> ELSE <<2>>]

\* Only the revision request has more than one initial state.
IndexingInit ==
  /\ Init /\ VersionInit /\ RevisionInit /\ GroupInit
  /\ operation \in {"run", "versions", "revision", "groups"}
  /\ operation # "revision" => request = [q \in Requests |-> NewRequest(q)]

IndexingNext ==
  \/ operation = "run" /\ Next /\ UNCHANGED <<operation, versionVars, revisionVars, groupVars>>
  \/ operation = "versions" /\ VersionNext /\ UNCHANGED <<operation, vars, revisionVars, groupVars>>
  \/ operation = "revision" /\ RevisionNext /\ UNCHANGED <<operation, vars, versionVars, groupVars>>
  \/ operation = "groups" /\ GroupNext /\ UNCHANGED <<operation, vars, versionVars, revisionVars>>

\* A run's or a request's own steps are taken; edits, prunes, outages and stops need not happen.
IndexingSpec ==
  /\ IndexingInit /\ [][IndexingNext]_allVars
  /\ \A r \in Runs : WF_vars(operation = "run" /\ Step(r))
  /\ \A q \in Requests : WF_revisionVars(operation = "revision" /\ RevisionStep(q))

-----------------------------------------------------------------------------
\* Every index run and every request for a revision ends, however they interleave and whichever they join.
IndexingEnds == []<>((operation = "run" => NoRunUnderWay) /\ NoRequestUnderWay)
=============================================================================
