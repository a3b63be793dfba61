---------------------------- MODULE RevisionIndex ----------------------------
(***************************************************************************)
(* Indexing historical commits of a registered checkout.  A request first  *)
(* probes for a stored snapshot of the commit that can be reused, then     *)
(* starts an index run or joins the one its process already has for the    *)
(* commit.  Both check the commit out into a scratch worktree and remove   *)
(* it again whatever happened, unless the process stops.  The checkout's   *)
(* head never moves.                                                       *)
(*                                                                         *)
(* Commits are numbered along one line of history.  A snapshot records the *)
(* coverage its load reached and the version of a workspace sibling it     *)
(* read, 0 when it read none.                                              *)
(***************************************************************************)
EXTENDS Integers, Sequences, FiniteSets, FiniteSetsExt, Functions

CONSTANTS
  Commits,
  Broken,           \* commits that never load completely
  ReadsSibling,     \* commits whose load reads a workspace sibling
  Requests, Asked, RequestProcess,   \* Asked: the requests' commits that are tried
  MaxFaults         \* bound: outages, sibling edits, prunes, failed git commands and stopped processes

ASSUME RevisionConstants ==
  /\ Commits \subseteq Nat /\ \E newest \in Commits : \A c \in Commits : c <= newest
  /\ Requests \subseteq Nat \ {0}
  /\ Asked \subseteq [Requests -> Commits]
  /\ DOMAIN RequestProcess = Requests
  /\ MaxFaults \in Nat

VARIABLES
  revisions,   \* the module's snapshots
  online,      \* whether a load can fetch everything it needs
  sibling,     \* version of the sibling on disk
  request,     \* each request's progress
  scratch,     \* scratch directories
  records,     \* worktrees registered in the repository
  faults

revisionVars == <<revisions, online, sibling, request, scratch, records, faults>>
world == <<revisions, online, sibling, faults>>

Kept == {s \in DOMAIN revisions : revisions[s].kept}
NewRequest(c) == [pc |-> "idle", commit |-> c, mode |-> "probe", joined |-> 0, tree |-> 0, base |-> 0, load |-> <<>>, result |-> 0, began |-> 0, outage |-> FALSE]
HeadCommit == Max(Commits)

RevisionInit ==
  /\ revisions = <<[commit |-> HeadCommit, coverage |-> "complete", sibling |-> IF HeadCommit \in ReadsSibling THEN 1 ELSE 0,
                    base |-> 0, by |-> 0, kept |-> TRUE]>>
  /\ online = TRUE /\ sibling = 1
  /\ \E asked \in Asked : request = [q \in Requests |-> NewRequest(asked[q])]
  /\ scratch = {} /\ records = {}
  /\ faults = 0

HeadSnapshot == 1   \* the location's head, which a historical snapshot never moves
In(q, pc) == request[q].pc = pc
To(q, pc) == request' = [request EXCEPT ![q].pc = pc]
Fault == faults < MaxFaults /\ faults' = faults + 1

\* CoverageSettled.
CoverageSettled(s) == revisions[s].coverage \in {"complete", "deterministic"}

\* The running index of a commit in a process, if any.
Running(q) == {p \in Requests : /\ RequestProcess[p] = RequestProcess[q] /\ request[p].commit = request[q].commit
                                /\ request[p].mode = "index" /\ request[p].joined = 0 /\ request[p].pc \notin {"idle", "start", "done", "failed"}}

-----------------------------------------------------------------------------
\* ReusableRevision or IndexRevision begins: checkoutRevision makes a scratch directory.
MakeScratch(q) ==
  /\ In(q, "idle") \/ In(q, "begin")
  /\ LET tree == <<q, request[q].mode>> IN
       /\ scratch' = scratch \cup {tree}
       /\ request' = [request EXCEPT ![q].pc = "add", ![q].tree = tree,
                                     ![q].began = IF @ = 0 THEN sibling ELSE @, ![q].outage = @ \/ ~online]
  /\ UNCHANGED <<world, records>>

\* git worktree add; a failure removes the scratch directory.
AddWorktree(q) ==
  /\ In(q, "add")
  /\ \/ records' = records \cup {request[q].tree} /\ To(q, "discover") /\ UNCHANGED <<scratch, faults>>
     \/ Fault /\ scratch' = scratch \ {request[q].tree} /\ To(q, "failed") /\ UNCHANGED records
  /\ UNCHANGED <<revisions, online, sibling>>

\* discoverRevisionRoot; prepareRevision cleans up after its own failure.
Discover(q) ==
  /\ In(q, "discover")
  /\ \/ To(q, "reuse") /\ UNCHANGED faults
     \/ Fault /\ request' = [request EXCEPT ![q].pc = "remove", ![q].result = -1]
  /\ UNCHANGED <<revisions, online, sibling, scratch, records>>

\* Mutant: a stored revision is reused although it read a sibling.
ReusableWithSibling(q) ==
  /\ In(q, "reuse")
  /\ LET settled == {s \in Kept : revisions[s].commit = request[q].commit /\ CoverageSettled(s)}
     IN request' = [request EXCEPT ![q].pc = IF settled # {} \/ request[q].mode = "probe" THEN "remove" ELSE "base",
                                   ![q].result = IF settled # {} THEN Max(settled) ELSE 0]
  /\ UNCHANGED <<world, scratch, records>>

\* reusableRevision: the newest settled snapshot of the commit, unless it read a sibling.
ReusableRevision(q) ==
  /\ In(q, "reuse")
  /\ LET settled == {s \in Kept : revisions[s].commit = request[q].commit /\ CoverageSettled(s)}
         found == settled # {} /\ revisions[Max(settled)].sibling = 0
     IN request' = [request EXCEPT ![q].pc = IF found \/ request[q].mode = "probe" THEN "remove" ELSE "base",
                                   ![q].result = IF found THEN Max(settled) ELSE 0]
  /\ UNCHANGED <<world, scratch, records>>

\* revisionBase: the newest snapshot of the nearest indexed ancestor, else the head.
RevisionBase(q) ==
  /\ In(q, "base")
  /\ LET c == request[q].commit
         ancestors == {s \in Kept : revisions[s].commit <= c}
         nearest == {s \in ancestors : \A t \in ancestors : revisions[t].commit <= revisions[s].commit}
     IN request' = [request EXCEPT ![q].pc = "extract", ![q].base = IF nearest # {} THEN Max(nearest) ELSE HeadSnapshot]
  /\ UNCHANGED <<world, scratch, records>>

\* extractFromBase, and storedRevision of an identical extraction.
Load(q) ==
  [coverage |-> IF request[q].commit \in Broken THEN "deterministic" ELSE IF online THEN "complete" ELSE "degraded",
   sibling |-> IF request[q].commit \in ReadsSibling THEN sibling ELSE 0]

Identical(q, load) ==
  {s \in Kept : revisions[s].commit = request[q].commit /\ revisions[s].coverage = load.coverage /\ revisions[s].sibling = load.sibling}

ExtractRevision(q) ==
  /\ In(q, "extract")
  /\ IF Identical(q, Load(q)) # {}
     THEN request' = [request EXCEPT ![q].pc = "remove", ![q].result = Max(Identical(q, Load(q))), ![q].outage = @ \/ ~online]
     ELSE request' = [request EXCEPT ![q].pc = "publish", ![q].load = Load(q), ![q].outage = @ \/ ~online]
  /\ UNCHANGED <<world, scratch, records>>

\* publishRevision: pinnedBase fails when the base the extraction was made against is gone.
PublishRevision(q) ==
  /\ In(q, "publish")
  /\ IF request[q].base \in Kept
     THEN /\ revisions' = Append(revisions, [commit |-> request[q].commit, coverage |-> request[q].load.coverage,
                sibling |-> request[q].load.sibling, base |-> request[q].base, by |-> RequestProcess[q], kept |-> TRUE])
          /\ request' = [request EXCEPT ![q].pc = "remove", ![q].result = Len(revisions) + 1]
     ELSE request' = [request EXCEPT ![q].pc = "remove", ![q].result = -1] /\ UNCHANGED revisions
  /\ UNCHANGED <<online, sibling, scratch, records, faults>>

\* cleanup: git worktree remove, git worktree prune and RemoveAll, each whatever became of
\* the others.  Prune drops the records whose directory is missing.
RemoveWorktree(q) ==
  /\ In(q, "remove")
  /\ \/ records' = records \ {request[q].tree} /\ scratch' = scratch \ {request[q].tree} /\ UNCHANGED faults
     \/ Fault /\ UNCHANGED <<records, scratch>>
  /\ To(q, "prune")
  /\ UNCHANGED <<revisions, online, sibling>>

PruneWorktrees(q) ==
  /\ In(q, "prune")
  /\ \/ records' = records \cap scratch /\ UNCHANGED faults
     \/ Fault /\ UNCHANGED records
  /\ To(q, "delete")
  /\ UNCHANGED <<revisions, online, sibling, scratch>>

\* The scratch directory goes; a probe that found nothing leads to StartRevisionTask.
RemoveScratch(q) ==
  /\ In(q, "delete")
  /\ scratch' = scratch \ {request[q].tree}
  /\ To(q, IF request[q].result = -1 THEN "failed" ELSE IF request[q].result = 0 THEN "start" ELSE "done")
  /\ UNCHANGED <<world, records>>

\* StartRevisionTask: a request joins its process's run of the same commit.
StartRevisionTask(q) ==
  /\ In(q, "start")
  /\ IF Running(q) # {}
     THEN request' = [request EXCEPT ![q].pc = "joined", ![q].joined = Min(Running(q))]
     ELSE request' = [request EXCEPT ![q].pc = "begin", ![q].mode = "index"]
  /\ UNCHANGED <<world, scratch, records>>

\* RevisionIndexRun.Wait of a joined run.
WaitForRun(q) ==
  /\ In(q, "joined")
  /\ LET run == request[request[q].joined] IN
       /\ run.pc \in {"done", "failed"}
       /\ request' = [request EXCEPT ![q].pc = run.pc, ![q].result = run.result, ![q].outage = @ \/ run.outage]
  /\ UNCHANGED <<world, scratch, records>>

RevisionStep(q) ==
  \/ MakeScratch(q) \/ AddWorktree(q) \/ Discover(q) \/ ReusableRevision(q) \/ RevisionBase(q)
  \/ ExtractRevision(q) \/ PublishRevision(q) \/ RemoveWorktree(q) \/ PruneWorktrees(q) \/ RemoveScratch(q)
  \/ StartRevisionTask(q) \/ WaitForRun(q)

-----------------------------------------------------------------------------
\* The environment: a network outage begins or ends, the sibling is edited, history is
\* pruned (dependents of a removed snapshot are rebased), a process stops.
Outage == Fault /\ online' = ~online /\ UNCHANGED <<revisions, sibling, request, scratch, records>>

EditSibling == Fault /\ sibling' = sibling + 1 /\ UNCHANGED <<revisions, online, request, scratch, records>>

PruneRevision(s) ==
  /\ Fault /\ s # HeadSnapshot
  /\ revisions' = [t \in DOMAIN revisions |->
       [revisions[t] EXCEPT !.kept = @ /\ t # s, !.base = IF @ = s THEN revisions[s].base ELSE @]]
  /\ UNCHANGED <<online, sibling, request, scratch, records>>

StopProcess(p) ==
  /\ Fault
  /\ \E q \in Requests : RequestProcess[q] = p /\ request[q].pc \notin {"idle", "done", "failed"}
  /\ request' = [q \in Requests |-> IF RequestProcess[q] = p /\ request[q].pc \notin {"done", "failed"}
                                    THEN [request[q] EXCEPT !.pc = "failed", !.result = -2] ELSE request[q]]
  /\ UNCHANGED <<revisions, online, sibling, scratch, records>>

RevisionNext ==
  \/ \E q \in Requests : RevisionStep(q)
  \/ Outage \/ EditSibling
  \/ \E s \in Kept : PruneRevision(s)
  \/ \E p \in Range(RequestProcess) : StopProcess(p)

RevisionFairness == \A q \in Requests : WF_revisionVars(RevisionStep(q))

RevisionSpec == RevisionInit /\ [][RevisionNext]_revisionVars /\ RevisionFairness

-----------------------------------------------------------------------------
\* Every request is at one of its steps and every stored record is of a known commit.
RevisionTypeOK ==
  /\ \A s \in DOMAIN revisions : /\ revisions[s].commit \in Commits
                                 /\ revisions[s].coverage \in {"complete", "deterministic", "degraded"}
  /\ \A q \in Requests : request[q].result \in -2..Len(revisions)
  /\ \A q \in Requests : request[q].pc = "done" => request[q].result > 0
  /\ scratch \subseteq Requests \X {"probe", "index"} /\ records \subseteq Requests \X {"probe", "index"}

(* A request that ends leaves no scratch directory behind, and a worktree      *)
(* record only when git itself failed; only a stopped process leaves both      *)
(* (revisionWorktree's cleanup, prepareRevision's deferred one).               *)
EndedRequestsLeaveNoScratch ==
  \A q \in Requests : (request[q].pc \in {"done", "failed", "start", "joined"} /\ request[q].result # -2) =>
    /\ \A m \in {"probe", "index"} : <<q, m>> \notin scratch
    /\ (\E m \in {"probe", "index"} : <<q, m>> \in records) => faults > 0

(* What a request answers is the commit as it loads now: complete unless a    *)
(* load during the request met an outage and, unless it joined a run that had  *)
(* loaded already, with no sibling older than the request, although the        *)
(* snapshot may be another request's or reused without loading                 *)
(* (reusableRevision, storedRevision, CoverageSettled).                        *)
AnswersAreFresh ==
  \A q \in Requests : request[q].pc = "done" =>
    LET s == revisions[request[q].result] IN
      /\ s.commit = request[q].commit
      /\ s.coverage = "degraded" => request[q].outage
      /\ (request[q].commit \in ReadsSibling /\ request[q].joined = 0) => s.sibling >= request[q].began

(* The base a snapshot is stored against is there as long as the snapshot is, *)
(* although the base was chosen before the extraction (pinnedBase).           *)
BasesAreKept == \A s \in Kept : revisions[s].base = 0 \/ revisions[s].base \in Kept

(* Concurrent requests of one process for one commit publish one snapshot:    *)
(* no two are identical (StartRevisionTask's join, storedRevision).           *)
OneSnapshotPerCommit ==
  \A s, t \in Kept : (s # t /\ revisions[s].by = revisions[t].by /\ revisions[s].commit = revisions[t].commit)
    => revisions[s].coverage # revisions[t].coverage \/ revisions[s].sibling # revisions[t].sibling

(* A request for a revision answers with that revision, indexed once, and     *)
(* cleans up after itself, whatever fails, stops or is shared on the way.     *)
RevisionsAreAnswered ==
  RevisionTypeOK /\ EndedRequestsLeaveNoScratch /\ AnswersAreFresh /\ BasesAreKept /\ OneSnapshotPerCommit

(* Every request that is made ends, joined ones included. *)
NoRequestUnderWay == \A q \in Requests : request[q].pc \in {"idle", "done", "failed"}
RequestsEnd == []<>NoRequestUnderWay
=============================================================================
