----------------------------- MODULE Delegation -----------------------------
(***************************************************************************)
(* Delegated jobs (src/backend/orchestrator/delegation/gateway.py and      *)
(* daemon.py, the delete endpoints of server.py, "mmctl delegate").        *)
(*                                                                         *)
(* A job is a directory: job.json with its status, events.jsonl and        *)
(* artifacts/.  Its worker is a thread of the daemon or of an mmctl        *)
(* command; the server, which deletes jobs, and the followers are other    *)
(* processes or threads.  They share nothing but the files.                *)
(***************************************************************************)
EXTENDS Naturals, Sequences, FiniteSets

CONSTANTS
    Jobs,       \* the jobs submitted, each once
    Followers,  \* clients of "follow", each once
    Deleters,   \* bound: delete requests served at once
    MaxDeletes, \* bound: delete requests
    MaxCrashes  \* bound: ends of the daemon

ASSUME ConstantsAssumption == MaxDeletes \in Nat /\ MaxCrashes \in Nat

VARIABLES
    job,       \* job[j]: how it was submitted
    dir,       \* the jobs with a directory
    record,    \* record[j]: the status in job.json, "none" without the file
    events,    \* events[j]: the types of the lines of events.jsonl
    artifacts, \* artifacts[j]: "none" without the directory, "noPatch", or what its patch is
    workspace, \* the jobs whose worktree or copy is on disk
    work,      \* work[j]: the files changed in it, and those of the diff
    pc,        \* pc[j]: the next step of the worker of j
    follow,    \* follow[f]: the follower f
    delete,    \* delete[d]: the delete request d is serving
    branched,  \* the target repository is on the branch an apply named
    applied,   \* the jobs whose patch has been applied to it
    deletes, crashes,
    torn,      \* history: jobs whose files were removed under a live worker
    unreadable \* history: jobs whose worker found no usable policy

files   == <<dir, record, events, artifacts, workspace>>
repo    == <<branched, applied>>
history == <<torn, unreadable>>
vars    == <<job, work, files, pc, follow, delete, repo, deletes, crashes, history>>

-----------------------------------------------------------------------------
Specs    == [host : {"daemon", "command", "asyncCommand"}, scoped : BOOLEAN]
NoSpec   == [host |-> "none", scoped |-> FALSE]

\* What changed: at most files that the request names, or others as well.
Changes  == {"patch", "wide"}
NoWork   == [changed |-> "patch", captured |-> "patch"]
Active   == {"queued", "running"}
Terminal == {"completed", "failed"}
EventTypes == {"submitted", "running", "worktree", "executor", "diff", "check",
               "completed", "failed"}

\* The steps inside "try" of _execute_job, and all the steps of a worker.
Tried == {"workspace", "executor", "diff", "check", "artifacts", "readCompleted",
          "writeCompleted", "tellCompleted"}
Steps == Tried \cup {"record", "load", "writeRunning", "readFailed", "writeFailed",
                     "tellFailed", "cleanup"}
Alive(j) == pc[j] \in Steps

\* A worker is gone and its job is left as if it were under way.
Orphan(j) == record[j] \in Active /\ ~Alive(j)

IdleFollow == [on |-> "none", phase |-> "idle", offset |-> 0, seen |-> FALSE]
IdleDelete == [on |-> "none", forced |-> FALSE, recorded |-> FALSE, todo |-> {}]

\* _append_event makes the job's directory when it is missing.
Tell(j, type) ==
    /\ events' = [events EXCEPT ![j] = Append(@, type)]
    /\ dir' = dir \cup {j}

Go(j, step) == pc' = [pc EXCEPT ![j] = step]

\* A read of job.json that fails (FileNotFoundError) inside "try", and in the
\* handler or before "try".
GetJob(j, next, otherwise) == Go(j, IF record[j] # "none" THEN next ELSE otherwise)

\* _write_json: the file is replaced, its directory made when it is missing.
WriteRecord(j, status) ==
    /\ record' = [record EXCEPT ![j] = status]
    /\ dir' = dir \cup {j}

-----------------------------------------------------------------------------
(* The worker of a job, one step per access to the files.                   *)

\* _create_job_record: the directory and artifacts/ come first ...
Submit(j, spec) ==
    /\ pc[j] = "none"
    /\ job' = [job EXCEPT ![j] = spec]
    /\ dir' = dir \cup {j}
    /\ artifacts' = [artifacts EXCEPT ![j] = "noPatch"]
    /\ Go(j, "record")
    /\ UNCHANGED <<work, record, events, workspace, follow, delete, repo, deletes, crashes, history>>

\* ... then job.json and the first event.
Record(j) ==
    /\ pc[j] = "record"
    /\ WriteRecord(j, "queued")
    /\ events' = [events EXCEPT ![j] = Append(@, "submitted")]
    /\ Go(j, "load")
    /\ UNCHANGED <<job, work, artifacts, workspace, follow, delete, repo, deletes, crashes, history>>

\* _execute_job up to "try": job.json and the policy are read where nothing
\* catches the exception, then job.json again under the lock.
Load(j) ==
    /\ pc[j] = "load"
    /\ \/ GetJob(j, "writeRunning", "ended") /\ UNCHANGED unreadable
       \/ record[j] # "none" /\ Go(j, "ended") /\ unreadable' = unreadable \cup {j}
    /\ UNCHANGED <<job, work, files, follow, delete, repo, deletes, crashes, torn>>

\* The lock of _set_job_status is one process's own: what was read may be gone.
WriteRunning(j) ==
    /\ pc[j] = "writeRunning"
    /\ WriteRecord(j, "running")
    /\ events' = [events EXCEPT ![j] = Append(@, "running")]
    /\ Go(j, "workspace")
    /\ UNCHANGED <<job, work, artifacts, workspace, follow, delete, repo, deletes, crashes, history>>

\* A request may name a command to run in the workspace, or none.
MakeWorkspace(j) ==
    /\ pc[j] = "workspace"
    /\ Tell(j, "worktree")
    /\ workspace' = workspace \cup {j}
    /\ Go(j, "executor") \/ Go(j, "diff")
    /\ UNCHANGED <<job, work, record, artifacts, follow, delete, repo, deletes, crashes, history>>

\* The command may change anything in the workspace.
RunExecutor(j) ==
    /\ pc[j] = "executor"
    /\ Tell(j, "executor")
    /\ \E c \in Changes : work' = [work EXCEPT ![j].changed = c]
    /\ Go(j, "diff")
    /\ UNCHANGED <<job, record, artifacts, workspace, follow, delete, repo, deletes, crashes, history>>

\* Of a scoped job no other file may have changed.
InScope(j, changed) == job[j].scoped => changed # "wide"

\* The changed files are listed, and held against the policy and the scope.
CaptureDiff(j) ==
    /\ pc[j] = "diff"
    /\ InScope(j, work[j].changed)
    /\ work' = [work EXCEPT ![j].captured = work[j].changed]
    /\ Tell(j, "diff")
    /\ Go(j, "check")
    /\ UNCHANGED <<job, record, artifacts, workspace, follow, delete, repo, deletes, crashes, history>>

\* (mutant) the status is set before the artifacts are written.
ChecksThenStatus(j) ==
    /\ pc[j] = "check"
    /\ Tell(j, "check")
    /\ \E c \in Changes : work' = [work EXCEPT ![j].changed = c]
    /\ Go(j, "readCompleted")
    /\ UNCHANGED <<job, record, artifacts, workspace, follow, delete, repo, deletes, crashes, history>>

\* The checks run in the workspace, and may change files there; of their exit
\* codes nothing follows.  In a worktree the patch is made from git's index, so
\* a check that stages what it changed ("git add") adds it to the patch, whatever
\* the scope.
RunChecks(j) ==
    /\ pc[j] = "check"
    /\ Tell(j, "check")
    /\ \E c \in Changes, staged \in BOOLEAN :
          work' = [work EXCEPT ![j].changed = c, ![j].captured = IF staged THEN c ELSE @]
    /\ Go(j, "artifacts")
    /\ UNCHANGED <<job, record, artifacts, workspace, follow, delete, repo, deletes, crashes, history>>

\* (mutant) the handler does not catch it.
RaiseUncaught(j) ==
    /\ pc[j] \in {"workspace", "executor", "diff", "check"}
    /\ Go(j, "cleanup")
    /\ UNCHANGED <<job, work, files, follow, delete, repo, deletes, crashes, history>>

\* The command fails or times out, the diff is out of scope or drifts, git
\* fails, a check times out, or the workspace has been removed.
Raise(j) ==
    /\ pc[j] \in {"workspace", "executor", "diff", "check"}
    /\ Go(j, "readFailed")
    /\ UNCHANGED <<job, work, files, follow, delete, repo, deletes, crashes, history>>

\* changes.patch and the reports; write_text does not make artifacts/.  The patch
\* is of the files of the diff and of what the checks have staged; it is not held
\* against the scope again.
WriteArtifacts(j) ==
    /\ pc[j] = "artifacts"
    /\ \/ /\ (artifacts[j] = "none" \/ j \notin workspace)
          /\ Go(j, "readFailed")
          /\ UNCHANGED artifacts
       \/ /\ artifacts[j] # "none" /\ j \in workspace
          /\ artifacts' = [artifacts EXCEPT ![j] = work[j].captured]
          /\ Go(j, "readCompleted")
    /\ work' = [work EXCEPT ![j] = NoWork]
    /\ UNCHANGED <<job, dir, record, events, workspace, follow, delete, repo, deletes, crashes, history>>

\* (mutant) there is no "finally" around the handler.
ReadStatusOrEnd(j) ==
    /\ \/ pc[j] = "readCompleted" /\ GetJob(j, "writeCompleted", "readFailed")
       \/ pc[j] = "readFailed" /\ GetJob(j, "writeFailed", "ended")
    /\ UNCHANGED <<job, work, files, follow, delete, repo, deletes, crashes, history>>

\* _set_job_status reads job.json: a job that is gone fails, and in the handler
\* the exception leaves only the clean-up.
ReadStatus(j) ==
    /\ \/ pc[j] = "readCompleted" /\ GetJob(j, "writeCompleted", "readFailed")
       \/ pc[j] = "readFailed" /\ GetJob(j, "writeFailed", "cleanup")
    /\ UNCHANGED <<job, work, files, follow, delete, repo, deletes, crashes, history>>

WriteStatus(j) ==
    /\ \/ pc[j] = "writeCompleted" /\ WriteRecord(j, "completed") /\ Go(j, "tellCompleted")
       \/ pc[j] = "writeFailed" /\ WriteRecord(j, "failed") /\ Go(j, "tellFailed")
    /\ UNCHANGED <<job, work, events, artifacts, workspace, follow, delete, repo, deletes, crashes, history>>

\* The last event comes after the status; a failure rewrites checks.json first,
\* which makes artifacts/ again when it is missing.
TellStatus(j) ==
    /\ \/ /\ pc[j] = "tellCompleted"
          /\ Tell(j, "completed")
          /\ UNCHANGED artifacts
       \/ /\ pc[j] = "tellFailed"
          /\ Tell(j, "failed")
          /\ artifacts' = [artifacts EXCEPT ![j] = IF @ = "none" THEN "noPatch" ELSE @]
    /\ Go(j, "cleanup")
    /\ UNCHANGED <<job, work, record, workspace, follow, delete, repo, deletes, crashes, history>>

\* "finally"
Cleanup(j) ==
    /\ pc[j] = "cleanup"
    /\ workspace' = workspace \ {j}
    /\ Go(j, "ended")
    /\ UNCHANGED <<job, work, dir, record, events, artifacts, follow, delete, repo, deletes, crashes, history>>

Worker(j) ==
    \/ Record(j) \/ Load(j) \/ WriteRunning(j) \/ MakeWorkspace(j)
    \/ RunExecutor(j) \/ CaptureDiff(j) \/ RunChecks(j) \/ Raise(j)
    \/ WriteArtifacts(j) \/ ReadStatus(j) \/ WriteStatus(j) \/ TellStatus(j) \/ Cleanup(j)

\* "mmctl delegate submit" without a socket ends: at once with --async-run, when
\* it has printed the record (the worker is a daemon thread), else when it is killed.
CommandEnds(j) ==
    /\ job[j].host # "daemon"
    /\ Alive(j)
    /\ job[j].host = "asyncCommand" => pc[j] # "record"
    /\ Go(j, "killed")
    /\ UNCHANGED <<job, work, files, follow, delete, repo, deletes, crashes, history>>

\* The daemon ends, with the workers and the followers of its clients.
DaemonEnds ==
    /\ crashes < MaxCrashes
    /\ crashes' = crashes + 1
    /\ pc' = [j \in Jobs |-> IF Alive(j) /\ job[j].host = "daemon" THEN "killed" ELSE pc[j]]
    /\ follow' = [f \in Followers |-> IF follow[f].phase \in {"events", "status"}
                                      THEN [follow[f] EXCEPT !.phase = "error"] ELSE follow[f]]
    /\ UNCHANGED <<job, work, files, delete, repo, deletes, history>>

-----------------------------------------------------------------------------
(* Followers: _stream_follow and "mmctl delegate follow".                   *)

Follow(f, j) ==
    /\ follow[f].phase = "idle"
    /\ follow' = [follow EXCEPT ![f].on = j, ![f].phase = "events"]
    /\ UNCHANGED <<job, work, files, pc, delete, repo, deletes, crashes, history>>

\* read_events returns what is past the offset, which is sent, and the length of
\* the file, the next offset.  The sleep between two polls waits for nobody.
FollowEvents(f) ==
    /\ follow[f].phase = "events"
    /\ LET log == events[follow[f].on]
       IN  follow' = [follow EXCEPT
               ![f].phase  = "status",
               ![f].offset = IF log = <<>> THEN @ ELSE Len(log)]
    /\ UNCHANGED <<job, work, files, pc, delete, repo, deletes, crashes, history>>

\* (mutant) the first terminal status ends the stream.
FollowStatusOnce(f) ==
    /\ follow[f].phase = "status"
    /\ LET status == record[follow[f].on]
       IN  follow' = [follow EXCEPT
               ![f].phase = CASE status = "none"     -> "error"
                              [] status \in Terminal -> "done"
                              [] OTHER               -> "events"]
    /\ UNCHANGED <<job, work, files, pc, delete, repo, deletes, crashes, history>>

\* (mutant) a job that is gone is polled for.
FollowStatusPatiently(f) ==
    /\ follow[f].phase = "status"
    /\ LET status == record[follow[f].on]
       IN  follow' = [follow EXCEPT
               ![f].phase = IF status \in Terminal /\ follow[f].seen THEN "done" ELSE "events",
               ![f].seen  = @ \/ status \in Terminal]
    /\ UNCHANGED <<job, work, files, pc, delete, repo, deletes, crashes, history>>

\* get_job raises when the job is gone; a terminal status must be met twice.
FollowStatus(f) ==
    /\ follow[f].phase = "status"
    /\ LET status == record[follow[f].on]
       IN  follow' = [follow EXCEPT
               ![f].phase = CASE status = "none"                      -> "error"
                              [] status \in Terminal /\ follow[f].seen -> "done"
                              [] OTHER                                 -> "events",
               ![f].seen  = @ \/ status \in Terminal]
    /\ UNCHANGED <<job, work, files, pc, delete, repo, deletes, crashes, history>>

-----------------------------------------------------------------------------
(* delete_job and delete_jobs, in a process without the worker's lock.      *)

\* The rows a request visits: one job, or the directories old enough.
DeleteBegin(d, visit, forced) ==
    /\ deletes < MaxDeletes
    /\ delete[d].todo = {} /\ delete[d].on = "none"
    /\ visit # {} /\ visit \subseteq dir
    /\ delete' = [delete EXCEPT ![d].todo = visit, ![d].forced = forced]
    /\ deletes' = deletes + 1
    /\ UNCHANGED <<job, work, files, pc, follow, repo, crashes, history>>

\* Only a recorded active status is refused: a directory without job.json is not.
MayDelete(j, forced) == forced \/ record[j] \notin Active

DeleteRead(d, j) ==
    /\ delete[d].on = "none" /\ j \in delete[d].todo
    /\ delete' = [delete EXCEPT
           ![d].todo = @ \ {j},
           ![d].on = IF j \in dir /\ MayDelete(j, delete[d].forced) THEN j ELSE "none",
           ![d].recorded = record[j] # "none"]
    /\ UNCHANGED <<job, work, files, pc, follow, repo, deletes, crashes, history>>

\* rmtree of the directory, and of the workspace when job.json named it.
DeleteRemove(d) ==
    /\ delete[d].on # "none"
    /\ LET j == delete[d].on
       IN  /\ dir' = dir \ {j}
           /\ record' = [record EXCEPT ![j] = "none"]
           /\ events' = [events EXCEPT ![j] = <<>>]
           /\ artifacts' = [artifacts EXCEPT ![j] = "none"]
           /\ workspace' = IF delete[d].recorded THEN workspace \ {j} ELSE workspace
           /\ torn' = IF Alive(j) THEN torn \cup {j} ELSE torn
    /\ delete' = [delete EXCEPT ![d].on = "none", ![d].recorded = FALSE]
    /\ UNCHANGED <<job, work, pc, follow, repo, deletes, crashes, unreadable>>

-----------------------------------------------------------------------------
\* apply_patch for a git repository: the branch is checked out before the patch
\* is tried, whether or not it is only to be checked; git may refuse the patch,
\* and an empty one is refused before anything is done.
ApplyPatch(j, checkOnly, toBranch) ==
    /\ record[j] = "completed" /\ artifacts[j] \in Changes
    /\ branched' = (branched \/ toBranch)
    /\ \E ok \in BOOLEAN :
          applied' = IF ok /\ ~checkOnly THEN applied \cup {j} ELSE applied
    /\ UNCHANGED <<job, work, files, pc, follow, delete, deletes, crashes, history>>

Init ==
    /\ job = [j \in Jobs |-> NoSpec] /\ work = [j \in Jobs |-> NoWork]
    /\ dir = {} /\ workspace = {}
    /\ record = [j \in Jobs |-> "none"]
    /\ events = [j \in Jobs |-> <<>>]
    /\ artifacts = [j \in Jobs |-> "none"]
    /\ pc = [j \in Jobs |-> "none"]
    /\ follow = [f \in Followers |-> IdleFollow]
    /\ delete = [d \in Deleters |-> IdleDelete]
    /\ branched = FALSE /\ applied = {}
    /\ deletes = 0 /\ crashes = 0
    /\ torn = {} /\ unreadable = {}

Next ==
    \/ \E j \in Jobs, spec \in Specs : Submit(j, spec)
    \/ \E j \in Jobs : Worker(j)
    \/ \E j \in Jobs : CommandEnds(j)
    \/ DaemonEnds
    \/ \E f \in Followers, j \in Jobs : Follow(f, j)
    \/ \E f \in Followers : FollowEvents(f)
    \/ \E f \in Followers : FollowStatus(f)
    \/ \E d \in Deleters, visit \in SUBSET Jobs, forced \in BOOLEAN : DeleteBegin(d, visit, forced)
    \/ \E d \in Deleters, j \in Jobs : DeleteRead(d, j)
    \/ \E d \in Deleters : DeleteRemove(d)
    \/ \E j \in Jobs, checkOnly, toBranch \in BOOLEAN : ApplyPatch(j, checkOnly, toBranch)

Spec == Init /\ [][Next]_vars

\* Threads that live go on, a follower polls, and the executor and the checks run
\* under a timeout.  git does not (gateway.py:506-512): that it ends is assumed.
Fairness ==
    /\ \A j \in Jobs : WF_vars(Worker(j))
    /\ \A f \in Followers : WF_vars(FollowEvents(f)) /\ WF_vars(FollowStatus(f))

FairSpec == Spec /\ Fairness

-----------------------------------------------------------------------------
(* Properties.                                                              *)

TypeOK ==
    /\ job \in [Jobs -> Specs \cup {NoSpec}]
    /\ work \in [Jobs -> [changed : Changes, captured : Changes]]
    /\ dir \subseteq Jobs /\ workspace \subseteq Jobs /\ applied \subseteq Jobs
    /\ record \in [Jobs -> {"none"} \cup Active \cup Terminal]
    /\ events \in [Jobs -> Seq(EventTypes)]
    /\ artifacts \in [Jobs -> {"none", "noPatch"} \cup Changes]
    /\ pc \in [Jobs -> Steps \cup {"none", "ended", "killed"}]
    /\ follow \in [Followers -> [on : Jobs \cup {"none"}, offset : Nat, seen : BOOLEAN,
                                 phase : {"idle", "events", "status", "done", "error"}]]
    /\ delete \in [Deleters -> [on : Jobs \cup {"none"}, forced : BOOLEAN,
                                recorded : BOOLEAN, todo : SUBSET Jobs]]
    /\ branched \in BOOLEAN
    /\ deletes \in 0..MaxDeletes /\ crashes \in 0..MaxCrashes
    /\ torn \subseteq Jobs /\ unreadable \subseteq Jobs
    \* job.json and artifacts/ are in the job's directory.
    /\ \A j \in Jobs \ dir : record[j] = "none" /\ events[j] = <<>> /\ artifacts[j] = "none"

\* A job that says "completed" has its patch on disk (gateway.py:223-244), unless
\* a delete took its files while its worker was alive.
CompletedHasPatch ==
    \A j \in Jobs \ torn : record[j] = "completed" => artifacts[j] \in Changes

\* A delete without force that has read the status of a job never takes an active
\* job away, however the worker went on meanwhile (gateway.py:287-301).
UnforcedSparesActive ==
    \A d \in Deleters :
        LET j == delete[d].on
        IN  j # "none" /\ ~delete[d].forced /\ delete[d].recorded => record[j] \notin Active

\* Whatever is deleted under it, a worker never leaves its job active: that takes
\* the end of its process, or a policy that cannot be read (gateway.py:147-253).
OrphansAreExplained ==
    \A j \in Jobs : Orphan(j) => pc[j] = "killed" \/ j \in unreadable

\* A worker that was not killed leaves no workspace behind (gateway.py:249-253).
WorkspaceIsRemoved ==
    \A j \in Jobs : j \in workspace => Alive(j) \/ pc[j] = "killed"

\* A follower that is told the job is done has been sent all of its events, but
\* perhaps the last one, which the worker writes after the status: however slow the
\* worker, it misses no other (daemon.py:81-94).  Of a job whose files were taken away
\* under its worker nothing is said.
DoneMissesOnlyTheLast ==
    \A f \in Followers :
        LET j == follow[f].on
        IN  follow[f].phase = "done" /\ j \notin torn =>
                \A i \in 1..Len(events[j]) :
                    i > follow[f].offset => i = Len(events[j]) /\ events[j][i] \in Terminal

\* A follower ends, unless the job it follows is left active by a dead worker.
FollowEnds ==
    \A f \in Followers :
        follow[f].phase \in {"events", "status"} ~>
            \/ follow[f].phase \in {"done", "error"}
            \/ follow[f].on \in Jobs /\ Orphan(follow[f].on)

\* At all times the files of a job tell one story: they are well formed, a job that
\* is completed has its patch, and an unforced delete spares whoever is at work.
JobsOK == TypeOK /\ CompletedHasPatch /\ UnforcedSparesActive
=============================================================================
