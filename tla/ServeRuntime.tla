---------------------------- MODULE ServeRuntime ----------------------------
(***************************************************************************)
(* `uir serve` and the runs its requests start (cmd/uir/serve.go, main.go, *)
(* module_index_commands.go, refactor_service.go).                         *)
(*                                                                         *)
(* An index request is answered with its run's id while the run goes on    *)
(* under the serve context; the runtime counts it.  A refactor is two      *)
(* requests, a preview and an apply, that trust nothing of each other but  *)
(* a hash; the apply patches the checkout and waits for a reindex.  Ctrl+C *)
(* cancels the serve context at any moment: the listener closes, handlers  *)
(* and counted runs are given 30 s each, and the database closes.          *)
(*                                                                         *)
(* Handlers and runs may hang (a gopatch, an extraction); the timers fire. *)
(***************************************************************************)
EXTENDS Naturals, Sequences

CONSTANTS
  IndexRequests, RefactorRequests,
  MaxEdits               \* bound: edits of the checkout by its user

VARIABLES
  phase,     \* of runServe: serving, shutdown, drain, close, closed
  cancelled, \* the serve context is done
  overdue,   \* a handler or a detached run outlived its 30 s, which serve's error says
  handler,   \* each request's progress
  job,       \* the run each request started
  checkout,  \* the checkout's files: edits in and out of the refactor's reach, and the patch
  indexed    \* the files its head snapshot was made from

serveVars == <<phase, cancelled, overdue, handler, job, checkout, indexed>>

ServeRequests == IndexRequests \cup RefactorRequests
Answers == {"accepted", "applied", "reindex_failed", "historical_snapshot", "stale_preview", "failed"}
Active(r) == handler[r].at \notin Answers \cup {"new", "previewed"}

\* hash: what the preview answered; own: what the apply computed; onto: what the patch was written over.
NewHandler == [at |-> "new", hash |-> <<>>, own |-> <<>>, onto |-> <<>>, late |-> FALSE]
NewJob == [state |-> "none", counted |-> FALSE, recorded |-> FALSE]
TheFiles == [near |-> 0, far |-> 0, patched |-> FALSE]

ServeInit ==
  /\ phase = "serving" /\ cancelled = FALSE /\ overdue = FALSE
  /\ handler = [r \in ServeRequests |-> NewHandler]
  /\ job = [r \in ServeRequests |-> NewJob]
  /\ checkout = TheFiles /\ indexed = TheFiles

Goes(r, at) == handler' = [handler EXCEPT ![r].at = at]
\* What runs under the serve context answers while it is live; no database is closed before it is done.
Live == ~cancelled

-----------------------------------------------------------------------------
(* Requests. *)

\* startModuleIndex: the run starts under runContext ...
StartIndex(r) ==
  /\ r \in IndexRequests /\ handler[r].at = "new" /\ phase = "serving"
  /\ IF Live
     THEN Goes(r, "started") /\ job' = [job EXCEPT ![r].state = "running"]
     ELSE Goes(r, "failed") /\ UNCHANGED job
  /\ UNCHANGED <<phase, cancelled, overdue, checkout, indexed>>

\* Mutant: a detached run is not counted.
AcceptUncounted(r) ==
  /\ handler[r].at = "started"
  /\ Goes(r, "accepted")
  /\ UNCHANGED <<phase, cancelled, overdue, job, checkout, indexed>>

\* ... and the answer is its id, once the runtime counts it.
AcceptIndex(r) ==
  /\ handler[r].at = "started"
  /\ Goes(r, "accepted")
  /\ job' = [job EXCEPT ![r].counted = TRUE]
  /\ UNCHANGED <<phase, cancelled, overdue, checkout, indexed>>

\* prepareRefactor up to CheckCurrent: the checkout is as its head, and the head the snapshot asked for.
CheckHead(r) ==
  /\ r \in RefactorRequests /\ phase = "serving"
  /\ \/ /\ handler[r].at = "new"
        /\ handler' = [handler EXCEPT ![r].at = IF Live /\ indexed = checkout THEN "previewing" ELSE "failed",
                                      ![r].hash = <<indexed>>]
     \/ /\ handler[r].at = "previewed"
        /\ handler' = [handler EXCEPT ![r].at = CASE ~Live \/ indexed # checkout -> "failed"
                                                  [] Live /\ indexed = checkout /\ indexed # handler[r].hash[1] -> "historical_snapshot"
                                                  [] OTHER -> "preparing",
                                      ![r].own = <<handler[r].hash[1]>>]
  /\ UNCHANGED <<phase, cancelled, overdue, job, checkout, indexed>>

\* gopatch --diff: nothing left to do is an error.
PatchOf(f) == IF f.patched THEN <<>> ELSE <<f.near>>

\* prepareRefactor's dry run; the hash is over the snapshot and the diff.
PreviewDiff(r) ==
  /\ handler[r].at = "previewing"
  /\ handler' = [handler EXCEPT ![r].at = IF PatchOf(checkout) = <<>> THEN "failed" ELSE "previewed",
                                ![r].hash = @ \o PatchOf(checkout)]
  /\ UNCHANGED <<phase, cancelled, overdue, job, checkout, indexed>>

\* The apply's own dry run must give the hash of the preview.
ApplyDiff(r) ==
  /\ handler[r].at = "preparing"
  /\ LET own == handler[r].own \o PatchOf(checkout) IN
     handler' = [handler EXCEPT ![r].at = CASE PatchOf(checkout) = <<>> -> "failed"
                                            [] PatchOf(checkout) # <<>> /\ own # handler[r].hash -> "stale_preview"
                                            [] OTHER -> "patching",
                                ![r].own = own]
  /\ UNCHANGED <<phase, cancelled, overdue, job, checkout, indexed>>

\* runGopatch, which no cancellation reaches, on the files as they are by now.
RunGopatch(r) ==
  /\ handler[r].at = "patching"
  /\ \/ /\ ~checkout.patched
        /\ handler' = [handler EXCEPT ![r].at = "patched", ![r].onto = PatchOf(checkout)]
        /\ checkout' = [checkout EXCEPT !.patched = TRUE]
     \/ Goes(r, "failed") /\ UNCHANGED checkout
  /\ UNCHANGED <<phase, cancelled, overdue, job, indexed>>

\* reindexRefactorFiles: a run under runContext, which nobody counts ...
StartReindex(r) ==
  /\ handler[r].at = "patched"
  /\ IF Live
     THEN Goes(r, "waiting") /\ job' = [job EXCEPT ![r].state = "running"]
     ELSE Goes(r, "reindex_failed") /\ UNCHANGED job
  /\ UNCHANGED <<phase, cancelled, overdue, checkout, indexed>>

\* ... and the apply waits for it under its own context.
AnswerApply(r) ==
  /\ handler[r].at = "waiting"
  /\ \/ job[r].state = "done" /\ Goes(r, "applied")
     \/ (job[r].state = "failed" \/ cancelled) /\ Goes(r, "reindex_failed")
  /\ UNCHANGED <<phase, cancelled, overdue, job, checkout, indexed>>

-----------------------------------------------------------------------------
(* Runs, and the checkout. *)

\* A run publishes what it verified the checkout to be, or fails; once cancelled it can only fail.
EndRun(r) ==
  /\ job[r].state = "running"
  /\ \/ Live /\ job' = [job EXCEPT ![r].state = "done"] /\ indexed' = checkout
     \/ job' = [job EXCEPT ![r].state = "failed"] /\ UNCHANGED indexed
  /\ UNCHANGED <<phase, cancelled, overdue, handler, checkout>>

\* The installed store is handed a run seen terminal.
RecordRun(r) ==
  /\ job[r].state \in {"done", "failed"} /\ ~job[r].recorded /\ phase # "closed"
  /\ job' = [job EXCEPT ![r].recorded = TRUE]
  /\ UNCHANGED <<phase, cancelled, overdue, handler, checkout, indexed>>

Edit ==
  /\ checkout.near + checkout.far < MaxEdits
  /\ \/ /\ checkout' = [checkout EXCEPT !.near = @ + 1]
        /\ handler' = [r \in ServeRequests |-> [handler[r] EXCEPT !.late = @ \/ handler[r].at = "patching"]]
     \/ checkout' = [checkout EXCEPT !.far = @ + 1] /\ UNCHANGED handler
  /\ UNCHANGED <<phase, cancelled, overdue, job, indexed>>

-----------------------------------------------------------------------------
(* Shutdown: Ctrl+C, http.Server.Shutdown, waitForDetachedRuns, Close. *)

Interrupt ==
  /\ ~cancelled
  /\ cancelled' = TRUE
  /\ UNCHANGED <<phase, overdue, handler, job, checkout, indexed>>

CloseListener ==
  /\ cancelled /\ phase = "serving"
  /\ phase' = "shutdown"
  /\ UNCHANGED <<cancelled, overdue, handler, job, checkout, indexed>>

\* Shutdown returns when no handler is active, or after 30 s with an error.
EndShutdown ==
  /\ phase = "shutdown"
  /\ phase' = "drain"
  /\ overdue' = \E r \in ServeRequests : Active(r)
  /\ UNCHANGED <<cancelled, handler, job, checkout, indexed>>

Counted(r) == job[r].counted /\ job[r].state = "running"

\* waitForDetachedRuns, and the error its timer makes of runs that are still going.
Drain ==
  /\ phase = "drain"
  /\ phase' = "close"
  /\ overdue' = (overdue \/ \E r \in ServeRequests : Counted(r))
  /\ UNCHANGED <<cancelled, handler, job, checkout, indexed>>

\* Close: detaching the store saves every run already finished; then the database closes.
Close ==
  /\ phase = "close"
  /\ phase' = "closed"
  /\ job' = [r \in ServeRequests |-> [job[r] EXCEPT !.recorded = @ \/ job[r].state \in {"done", "failed"}]]
  /\ UNCHANGED <<cancelled, overdue, handler, checkout, indexed>>

ServeNext ==
  \/ \E r \in ServeRequests :
       \/ StartIndex(r) \/ AcceptIndex(r)
       \/ CheckHead(r) \/ PreviewDiff(r) \/ ApplyDiff(r) \/ RunGopatch(r) \/ StartReindex(r) \/ AnswerApply(r)
       \/ EndRun(r) \/ RecordRun(r)
  \/ Edit \/ Interrupt
  \/ CloseListener \/ EndShutdown \/ Drain \/ Close

\* Only the server's own steps and its timers are sure to happen.
ServeFairness ==
  WF_serveVars(CloseListener) /\ WF_serveVars(EndShutdown) /\ WF_serveVars(Drain) /\ WF_serveVars(Close)

ServeSpec == ServeInit /\ [][ServeNext]_serveVars /\ ServeFairness

-----------------------------------------------------------------------------
\* The server, its handlers and its runs are each at one of their steps.
ServeTypeOK ==
  /\ phase \in {"serving", "shutdown", "drain", "close", "closed"}
  /\ cancelled \in BOOLEAN /\ overdue \in BOOLEAN
  /\ \A r \in ServeRequests :
       /\ handler[r].at \in Answers \cup {"new", "started", "previewing", "previewed", "preparing", "patching", "patched", "waiting"}
       /\ Len(handler[r].hash) <= 2 /\ Len(handler[r].own) <= 2 /\ Len(handler[r].onto) <= 1
       /\ job[r].state \in {"none", "running", "done", "failed"}

\* A run whose id a request was answered with is in the task-run store once the database has closed,
\* unless serve reported that handlers or runs outlived it (serve.go's drain, main.go's Close).
AcceptedRunsAreRecorded ==
  phase = "closed" /\ ~overdue =>
    \A r \in IndexRequests : handler[r].at = "accepted" => job[r].recorded

\* A patch is the reviewed one: it was written over the lines its preview showed, unless they were
\* edited after the apply had compared the hashes (refactor-apply; the window is runGopatch's start).
ReviewedPatchIsWritten ==
  \A r \in RefactorRequests : handler[r].onto # <<>> /\ ~handler[r].late => handler[r].onto = <<handler[r].hash[2]>>

\* An apply that answers applied left an index of the patched files (reindexRefactorFiles).
AppliedIsIndexed ==
  \A r \in RefactorRequests : handler[r].at = "applied" => indexed.patched

\* What a request is answered is true of the store and of the checkout: the three together.
AnswersAreKept == ServeTypeOK /\ AcceptedRunsAreRecorded /\ ReviewedPatchIsWritten /\ AppliedIsIndexed

\* An interrupted server closes its database, whatever its handlers and runs do (the two timeouts).
ServeEnds == cancelled ~> phase = "closed"
=============================================================================
