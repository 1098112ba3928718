--------------------------- MODULE DelegationProofs ---------------------------
(***************************************************************************)
(* What Delegation promises for every set of jobs, followers and deletes   *)
(* and every bound.  Worker, follower and delete never lock each other out, *)
(* so the invariant relates what each has read to where the worker is.     *)
(***************************************************************************)
EXTENDS Delegation, SequenceTheorems, TLAPS

\* The steps of a worker that sets no status any more, and those before it has
\* a workspace.
Late  == {"tellCompleted", "tellFailed", "cleanup", "ended", "killed"}
Early == {"none", "record", "load", "writeRunning", "workspace"}

\* What the files of a job say of where its worker is.
JobClause(j) ==
    /\ record[j] \in Terminal => pc[j] \in Late
    /\ record[j] \in Active => pc[j] \notin {"none", "tellCompleted", "tellFailed", "cleanup"}
    /\ record[j] \in Active /\ pc[j] = "ended" => j \in unreadable
    /\ j \in workspace => pc[j] \notin Early \cup {"ended"}
    /\ pc[j] = "none" => events[j] = <<>>

JobInv == \A j \in Jobs : JobClause(j)

\* What its artifacts and events say, unless they were taken away under it.
WholeClause(j) ==
    /\ pc[j] \in {"readCompleted", "writeCompleted"} => artifacts[j] \in Changes
    /\ record[j] = "completed" => artifacts[j] \in Changes

WholeInv == \A j \in Jobs \ torn : WholeClause(j)

\* What an unforced delete has read of its job stays true.
DeleteClause(d, j) ==
    delete[d].on = j /\ ~delete[d].forced /\ delete[d].recorded /\ j # "none"
        => pc[j] \in Late /\ record[j] \notin Active

DeleteInv == \A d \in Deleters, j \in Jobs : DeleteClause(d, j)

\* A follower has seen a terminal status only of a worker that sets no other; once
\* it has read the events after that, it has them all but for the last, which the
\* worker may still have to write.
FollowClause(f, j) ==
    /\ follow[f].seen => pc[j] \in Late
    /\ follow[f].phase = "done" => follow[f].seen
    /\ follow[f].seen /\ follow[f].phase \in {"status", "done"} =>
          \/ Len(events[j]) <= follow[f].offset
          \/ /\ pc[j] \notin {"tellCompleted", "tellFailed"}
             /\ Len(events[j]) = follow[f].offset + 1
             /\ events[j][Len(events[j])] \in Terminal

Shape(f) ==
    /\ follow[f].phase = "idle" => follow[f] = IdleFollow
    /\ follow[f].phase # "idle" => follow[f].on \in Jobs

FollowInv ==
    /\ \A f \in Followers : Shape(f)
    /\ \A f \in Followers, j \in Jobs :
          j \notin torn /\ follow[f].on = j /\ follow[f].phase # "idle" => FollowClause(f, j)

-----------------------------------------------------------------------------
(* Type correctness.                                                        *)

Locations  == Steps \cup {"none", "ended", "killed"}
Statuses   == {"none"} \cup Active \cup Terminal
Contents   == {"none", "noPatch"} \cup Changes
Phases     == {"idle", "events", "status", "done", "error"}
Targets    == Jobs \cup {"none"}
FollowType == [on : Targets, offset : Nat, seen : BOOLEAN, phase : Phases]
DeleteType == [on : Targets, forced : BOOLEAN, recorded : BOOLEAN,
               todo : SUBSET Jobs]

Typed ==
    /\ job \in [Jobs -> Specs \cup {NoSpec}]
    /\ work \in [Jobs -> [changed : Changes, captured : Changes]]
    /\ dir \subseteq Jobs /\ workspace \subseteq Jobs /\ applied \subseteq Jobs
    /\ record \in [Jobs -> Statuses]
    /\ events \in [Jobs -> Seq(EventTypes)]
    /\ artifacts \in [Jobs -> Contents]
    /\ pc \in [Jobs -> Locations]
    /\ follow \in [Followers -> FollowType]
    /\ delete \in [Deleters -> DeleteType]
    /\ branched \in BOOLEAN
    /\ deletes \in 0..MaxDeletes /\ crashes \in 0..MaxCrashes
    /\ torn \subseteq Jobs /\ unreadable \subseteq Jobs

\* A job without a directory has no files.
Housed ==
    \A j \in Jobs \ dir : record[j] = "none" /\ events[j] = <<>> /\ artifacts[j] = "none"

\* The type invariant in two parts, with names for its sets.
LEMMA TypeParts == TypeOK <=> Typed /\ Housed
  BY DEF TypeOK, Typed, Housed, Locations, Statuses, Contents, FollowType, DeleteType,
     Phases, Targets

\* The values that the steps assign.
LEMMA Members ==
  /\ "none" \in Locations /\ "record" \in Locations /\ "load" \in Locations
  /\ "writeRunning" \in Locations /\ "workspace" \in Locations
  /\ "executor" \in Locations /\ "diff" \in Locations /\ "check" \in Locations
  /\ "artifacts" \in Locations /\ "readCompleted" \in Locations
  /\ "writeCompleted" \in Locations /\ "tellCompleted" \in Locations
  /\ "readFailed" \in Locations /\ "writeFailed" \in Locations
  /\ "tellFailed" \in Locations /\ "cleanup" \in Locations /\ "ended" \in Locations
  /\ "killed" \in Locations
  /\ "none" \in Statuses /\ "queued" \in Statuses /\ "running" \in Statuses
  /\ "completed" \in Statuses /\ "failed" \in Statuses
  /\ "none" \in Contents /\ "noPatch" \in Contents
  /\ \A c \in Changes : c \in Contents
  /\ "submitted" \in EventTypes /\ "running" \in EventTypes
  /\ "worktree" \in EventTypes /\ "executor" \in EventTypes /\ "diff" \in EventTypes
  /\ "check" \in EventTypes /\ "completed" \in EventTypes /\ "failed" \in EventTypes
  /\ "idle" \in Phases /\ "events" \in Phases /\ "status" \in Phases
  /\ "done" \in Phases /\ "error" \in Phases
  /\ "none" \in Targets /\ \A j \in Jobs : j \in Targets
  /\ NoWork \in [changed : Changes, captured : Changes]
  BY DEF Locations, Steps, Tried, Statuses, Active, Terminal, Contents, Changes, EventTypes,
      NoWork, Phases, Targets

\* A line more in the events of a job.
LEMMA TellTyped ==
  ASSUME Typed, NEW k \in Jobs, NEW type \in EventTypes
  PROVE  /\ [events EXCEPT ![k] = Append(@, type)] \in [Jobs -> Seq(EventTypes)]
         /\ dir \cup {k} \subseteq Jobs
  BY DEF Typed

\* The types hold at first, and every step keeps them.
LEMMA TypedInit == Init => Typed
  <1> SUFFICES ASSUME Init
               PROVE  Typed
    OBVIOUS
  <1>1. IdleFollow \in FollowType /\ IdleDelete \in DeleteType
    BY DEF IdleFollow, IdleDelete, Phases, Targets, FollowType, DeleteType
  <1>2. deletes \in 0..MaxDeletes /\ crashes \in 0..MaxCrashes
    BY ConstantsAssumption DEF Init
  <1>3. follow \in [Followers -> FollowType] /\ delete \in [Deleters -> DeleteType]
    BY <1>1 DEF Init
  <1>4. events \in [Jobs -> Seq(EventTypes)]
    BY DEF Init
  <1>5. job \in [Jobs -> Specs \cup {NoSpec}]
    BY DEF Init
  <1> QED
    BY <1>2, <1>3, <1>4, <1>5, Members DEF Init, Typed

\* What each step makes of a follower, a delete request or a work record.
LEMMA FollowTyped ==
  ASSUME Typed, NEW f \in Followers, NEW k \in Jobs, Follow(f, k)
  PROVE  follow' \in [Followers -> FollowType]
  <1>1. follow \in [Followers -> FollowType]
    BY DEF Typed
  <1>2. follow' = [follow EXCEPT ![f].on = k, ![f].phase = "events"]
    BY DEF Follow
  <1> QED
    BY Members, <1>1, <1>2 DEF FollowType

LEMMA FollowStatusTyped ==
  ASSUME Typed, NEW f \in Followers, FollowStatus(f)
  PROVE  follow' \in [Followers -> FollowType]
  <1>1. follow \in [Followers -> FollowType]
    BY DEF Typed
  <1> DEFINE ph == CASE record[follow[f].on] = "none"                      -> "error"
                              [] record[follow[f].on] \in Terminal /\ follow[f].seen -> "done"
                              [] OTHER                                 -> "events"
      sn == follow[f].seen \/ record[follow[f].on] \in Terminal
  <1>2. follow' = [follow EXCEPT ![f].phase = ph, ![f].seen = sn]
    BY DEF FollowStatus
  <1>3. ph \in Phases /\ sn \in BOOLEAN
    BY Members, <1>1 DEF FollowType
  <1> HIDE DEF ph, sn
  <1> QED
    BY Members, <1>1, <1>2, <1>3 DEF FollowType

LEMMA FollowEventsTyped ==
  ASSUME Typed, NEW f \in Followers, FollowEvents(f)
  PROVE  follow' \in [Followers -> FollowType]
  <1>1. follow \in [Followers -> FollowType]
    BY DEF Typed
  <1> DEFINE log == events[follow[f].on]
             of == IF log = <<>> THEN follow[f].offset ELSE Len(log)
  <1>2. follow' = [follow EXCEPT ![f].phase = "status", ![f].offset = of]
    BY DEF FollowEvents
  <1>3. of \in Nat
    BY <1>1 DEF FollowType
  <1> HIDE DEF of
  <1> QED
    BY Members, <1>1, <1>2, <1>3 DEF FollowType

LEMMA DaemonEndsTyped ==
  ASSUME Typed, DaemonEnds
  PROVE  follow' \in [Followers -> FollowType]
  <1>1. follow \in [Followers -> FollowType]
    BY DEF Typed
  <1>2. \A r \in FollowType : [r EXCEPT !.phase = "error"] \in FollowType
    BY Members DEF FollowType
  <1> QED
    BY Members, <1>1, <1>2 DEF DaemonEnds

LEMMA DeleteRemoveTyped ==
  ASSUME Typed, NEW d \in Deleters, DeleteRemove(d)
  PROVE  delete' \in [Deleters -> DeleteType]
  <1>1. delete \in [Deleters -> DeleteType]
    BY DEF Typed
  <1>2. delete' = [delete EXCEPT ![d].on = "none", ![d].recorded = FALSE]
    BY DEF DeleteRemove
  <1> QED
    BY Members, <1>1, <1>2 DEF DeleteType

LEMMA DeleteBeginTyped ==
  ASSUME Typed, NEW d \in Deleters, NEW visit \in SUBSET Jobs, NEW forced \in BOOLEAN,
         DeleteBegin(d, visit, forced)
  PROVE  delete' \in [Deleters -> DeleteType]
  <1>1. delete \in [Deleters -> DeleteType]
    BY DEF Typed
  <1>2. delete' = [delete EXCEPT ![d].todo = visit, ![d].forced = forced]
    BY DEF DeleteBegin
  <1> QED
    BY Members, <1>1, <1>2 DEF DeleteType

LEMMA DeleteReadTyped ==
  ASSUME Typed, NEW d \in Deleters, NEW k \in Jobs, DeleteRead(d, k)
  PROVE  delete' \in [Deleters -> DeleteType]
  <1>1. delete \in [Deleters -> DeleteType]
    BY DEF Typed
  <1> DEFINE td == delete[d].todo \ {k}
             on == IF k \in dir /\ MayDelete(k, delete[d].forced) THEN k ELSE "none"
             rc == record[k] # "none"
  <1>2. delete' = [delete EXCEPT ![d].todo = td, ![d].on = on, ![d].recorded = rc]
    BY DEF DeleteRead
  <1>3. td \in SUBSET Jobs /\ on \in Targets /\ rc \in BOOLEAN
    BY Members, <1>1 DEF DeleteType
  <1> HIDE DEF td, on, rc
  <1> DEFINE taken == [delete EXCEPT ![d].todo = td, ![d].on = on]
  <1>4. taken \in [Deleters -> DeleteType]
    BY Members, <1>1, <1>3 DEF DeleteType
  <1>5. delete' = [taken EXCEPT ![d].recorded = rc]
    BY <1>2
  <1> HIDE DEF taken
  <1> QED
    BY Members, <1>4, <1>5, <1>3 DEF DeleteType

LEMMA ExecutorTyped ==
  ASSUME Typed, NEW k \in Jobs, RunExecutor(k)
  PROVE  work' \in [Jobs -> [changed : Changes, captured : Changes]]
  <1>1. work \in [Jobs -> [changed : Changes, captured : Changes]]
    BY DEF Typed
  <1>2. PICK c \in Changes : work' = [work EXCEPT ![k].changed = c]
    BY DEF RunExecutor
  <1> QED
    BY Members, <1>1, <1>2

LEMMA ChecksTyped ==
  ASSUME Typed, NEW k \in Jobs, RunChecks(k)
  PROVE  work' \in [Jobs -> [changed : Changes, captured : Changes]]
  <1>1. work \in [Jobs -> [changed : Changes, captured : Changes]]
    BY DEF Typed
  <1>2. PICK c \in Changes, staged \in BOOLEAN :
           work' = [work EXCEPT ![k].changed = c, ![k].captured = IF staged THEN c ELSE @]
    BY DEF RunChecks
  <1> DEFINE b == IF staged THEN c ELSE work[k].captured
  <1>3. work' = [work EXCEPT ![k].changed = c, ![k].captured = b]
    BY <1>2
  <1>4. b \in Changes
    BY <1>1
  <1> HIDE DEF b
  <1> QED
    BY Members, <1>1, <1>3, <1>4

LEMMA RemovedTyped ==
  ASSUME Typed, NEW d \in Deleters, DeleteRemove(d)
  PROVE  dir' \subseteq Jobs /\ torn' \subseteq Jobs /\ events' \in [Jobs -> Seq(EventTypes)]
  <1>1. delete[d].on \in Jobs 
    BY DEF Typed, DeleteType, DeleteRemove, Targets
  <1>2. dir' = dir \ {delete[d].on}
    BY DEF DeleteRemove
  <1>3. events' = [events EXCEPT ![delete[d].on] = <<>>]
    BY DEF DeleteRemove
  <1>4. torn' = torn \/ torn' = torn \cup {delete[d].on}
    BY DEF DeleteRemove
  <1> QED
    BY Members, <1>1, <1>2, <1>3, <1>4 DEF Typed

LEMMA TypedStep == Typed /\ [Next]_vars => Typed'
  <1> SUFFICES ASSUME Typed, [Next]_vars
               PROVE  Typed'
    OBVIOUS
  <1> USE DEF files, repo, history, Go, GetJob
  <1>1. ASSUME NEW k \in Jobs, NEW spec \in Specs, Submit(k, spec)
        PROVE  Typed'
    BY <1>1, Members DEF Submit, Typed
  <1>2. ASSUME NEW k \in Jobs, Record(k)
        PROVE  Typed'
    BY <1>2, Members, TellTyped DEF Record, Typed, WriteRecord, Tell
  <1>3. ASSUME NEW k \in Jobs, Load(k)
        PROVE  Typed'
    <2>1. pc' \in [Jobs -> Locations]
      BY <1>3, Members DEF Load, Typed
    <2>2. unreadable' \subseteq Jobs
      BY <1>3, Members DEF Load, Typed
    <2> QED
      BY <1>3, <2>1, <2>2 DEF Load, Typed
  <1>4. ASSUME NEW k \in Jobs, WriteRunning(k)
        PROVE  Typed'
    BY <1>4, Members, TellTyped DEF WriteRunning, Typed, WriteRecord, Tell
  <1>5. ASSUME NEW k \in Jobs, MakeWorkspace(k)
        PROVE  Typed'
    <2>1. pc' \in [Jobs -> Locations]
      BY <1>5, Members DEF MakeWorkspace, Typed
    <2>2. events' \in [Jobs -> Seq(EventTypes)]
      BY <1>5, Members DEF MakeWorkspace, Typed, Tell
    <2>3. dir' \subseteq Jobs
      BY <1>5, Members DEF MakeWorkspace, Typed, Tell
    <2>4. workspace' \subseteq Jobs
      BY <1>5, Members DEF MakeWorkspace, Typed
    <2> QED
      BY <1>5, <2>1, <2>2, <2>3, <2>4 DEF MakeWorkspace, Typed, Tell
  <1>6. ASSUME NEW k \in Jobs, RunExecutor(k)
        PROVE  Typed'
    <2>1. pc' \in [Jobs -> Locations]
      BY <1>6, Members DEF RunExecutor, Typed
    <2>2. events' \in [Jobs -> Seq(EventTypes)]
      BY <1>6, Members DEF RunExecutor, Typed, Tell
    <2>3. dir' \subseteq Jobs
      BY <1>6, Members DEF RunExecutor, Typed, Tell
    <2>4. work' \in [Jobs -> [changed : Changes, captured : Changes]]
      BY <1>6, ExecutorTyped
    <2> QED
      BY <1>6, <2>1, <2>2, <2>3, <2>4 DEF RunExecutor, Typed, Tell
  <1>7. ASSUME NEW k \in Jobs, CaptureDiff(k)
        PROVE  Typed'
    BY <1>7, Members, TellTyped DEF CaptureDiff, Typed, WriteRecord, Tell
  <1>8. ASSUME NEW k \in Jobs, RunChecks(k)
        PROVE  Typed'
    <2>1. pc' \in [Jobs -> Locations]
      BY <1>8, Members DEF RunChecks, Typed
    <2>2. events' \in [Jobs -> Seq(EventTypes)]
      BY <1>8, Members DEF RunChecks, Typed, Tell
    <2>3. dir' \subseteq Jobs
      BY <1>8, Members DEF RunChecks, Typed, Tell
    <2>4. work' \in [Jobs -> [changed : Changes, captured : Changes]]
      BY <1>8, ChecksTyped
    <2> QED
      BY <1>8, <2>1, <2>2, <2>3, <2>4 DEF RunChecks, Typed, Tell
  <1>9. ASSUME NEW k \in Jobs, Raise(k)
        PROVE  Typed'
    BY <1>9, Members, TellTyped DEF Raise, Typed, WriteRecord, Tell
  <1>10. ASSUME NEW k \in Jobs, WriteArtifacts(k)
        PROVE  Typed'
    <2>1. pc' \in [Jobs -> Locations]
      BY <1>10, Members DEF WriteArtifacts, Typed
    <2>2. artifacts' \in [Jobs -> Contents]
      BY <1>10, Members DEF WriteArtifacts, Typed
    <2>3. work' \in [Jobs -> [changed : Changes, captured : Changes]]
      BY <1>10, Members DEF WriteArtifacts, Typed
    <2> QED
      BY <1>10, <2>1, <2>2, <2>3 DEF WriteArtifacts, Typed
  <1>11. ASSUME NEW k \in Jobs, ReadStatus(k)
        PROVE  Typed'
    <2>1. pc' \in [Jobs -> Locations]
      BY <1>11, Members DEF ReadStatus, Typed
    <2> QED
      BY <1>11, <2>1 DEF ReadStatus, Typed
  <1>12. ASSUME NEW k \in Jobs, WriteStatus(k)
        PROVE  Typed'
    <2>1. pc' \in [Jobs -> Locations]
      BY <1>12, Members DEF WriteStatus, Typed
    <2>2. record' \in [Jobs -> Statuses]
      BY <1>12, Members DEF WriteStatus, Typed, WriteRecord
    <2>3. dir' \subseteq Jobs
      BY <1>12, Members DEF WriteStatus, Typed, WriteRecord
    <2> QED
      BY <1>12, <2>1, <2>2, <2>3 DEF WriteStatus, Typed, WriteRecord
  <1>13. ASSUME NEW k \in Jobs, TellStatus(k)
        PROVE  Typed'
    <2>1. pc' \in [Jobs -> Locations]
      BY <1>13, Members DEF TellStatus, Typed
    <2>2. events' \in [Jobs -> Seq(EventTypes)]
      <3>1. PICK type \in EventTypes : Tell(k, type)
        BY <1>13, Members DEF TellStatus
      <3> QED
        BY <3>1, TellTyped DEF Tell
    <2>3. dir' \subseteq Jobs
      BY <1>13, Members DEF TellStatus, Typed, Tell
    <2>4. artifacts' \in [Jobs -> Contents]
      <3> DEFINE kept == IF artifacts[k] = "none" THEN "noPatch" ELSE artifacts[k]
      <3>1. artifacts \in [Jobs -> Contents] /\ kept \in Contents
        BY Members DEF Typed
      <3>2. artifacts' = artifacts \/ artifacts' = [artifacts EXCEPT ![k] = kept]
        BY <1>13 DEF TellStatus
      <3> HIDE DEF kept
      <3> QED
        BY <3>1, <3>2
    <2> QED
      BY <1>13, <2>1, <2>2, <2>3, <2>4 DEF TellStatus, Typed, Tell
  <1>14. ASSUME NEW k \in Jobs, Cleanup(k)
        PROVE  Typed'
    BY <1>14, Members, TellTyped DEF Cleanup, Typed, WriteRecord, Tell
  <1>15. ASSUME NEW k \in Jobs, CommandEnds(k)
        PROVE  Typed'
    BY <1>15, Members DEF CommandEnds, Typed
  <1>16. ASSUME DaemonEnds
        PROVE  Typed'
    <2>1. pc' \in [Jobs -> Locations]
      BY <1>16, Members DEF DaemonEnds, Typed
    <2>2. follow' \in [Followers -> FollowType]
      BY <1>16, DaemonEndsTyped
    <2> QED
      BY <1>16, ConstantsAssumption, <2>1, <2>2 DEF DaemonEnds, Typed
  <1>17. ASSUME NEW f \in Followers, NEW k \in Jobs, Follow(f, k)
        PROVE  Typed'
    <2>1. follow' \in [Followers -> FollowType]
      BY <1>17, FollowTyped
    <2> QED
      BY <1>17, <2>1 DEF Follow, Typed
  <1>18. ASSUME NEW f \in Followers, FollowEvents(f)
        PROVE  Typed'
    <2>1. follow' \in [Followers -> FollowType]
      BY <1>18, FollowEventsTyped
    <2> QED
      BY <1>18, <2>1 DEF FollowEvents, Typed
  <1>19. ASSUME NEW f \in Followers, FollowStatus(f)
        PROVE  Typed'
    <2>1. follow' \in [Followers -> FollowType]
      BY <1>19, FollowStatusTyped
    <2> QED
      BY <1>19, <2>1 DEF FollowStatus, Typed
  <1>20. ASSUME NEW d \in Deleters, NEW visit \in SUBSET Jobs, NEW forced \in BOOLEAN,
               DeleteBegin(d, visit, forced)
        PROVE  Typed'
    <2>1. delete' \in [Deleters -> DeleteType]
      BY <1>20, DeleteBeginTyped
    <2> QED
      BY <1>20, ConstantsAssumption, <2>1 DEF DeleteBegin, Typed
  <1>21. ASSUME NEW d \in Deleters, NEW k \in Jobs, DeleteRead(d, k)
        PROVE  Typed'
    <2>1. delete' \in [Deleters -> DeleteType]
      BY <1>21, DeleteReadTyped
    <2> QED
      BY <1>21, <2>1 DEF DeleteRead, Typed
  <1>22. ASSUME NEW d \in Deleters, DeleteRemove(d)
        PROVE  Typed'
    <2>1. dir' \subseteq Jobs
      BY <1>22, RemovedTyped
    <2>2. record' \in [Jobs -> Statuses]
      BY <1>22, Members DEF DeleteRemove, Typed
    <2>3. events' \in [Jobs -> Seq(EventTypes)]
      BY <1>22, RemovedTyped
    <2>4. artifacts' \in [Jobs -> Contents]
      BY <1>22, Members DEF DeleteRemove, Typed
    <2>5. workspace' \subseteq Jobs
      BY <1>22, Members DEF DeleteRemove, Typed
    <2>6. torn' \subseteq Jobs
      BY <1>22, RemovedTyped
    <2>7. delete' \in [Deleters -> DeleteType]
      BY <1>22, DeleteRemoveTyped
    <2> QED
      BY <1>22, <2>1, <2>2, <2>3, <2>4, <2>5, <2>6, <2>7 DEF DeleteRemove, Typed
  <1>23. ASSUME NEW k \in Jobs, NEW checkOnly \in BOOLEAN, NEW toBranch \in BOOLEAN,
               ApplyPatch(k, checkOnly, toBranch)
        PROVE  Typed'
    BY <1>23, Members DEF ApplyPatch, Typed
  <1>24. CASE UNCHANGED vars
    BY <1>24 DEF vars, Typed
  <1> QED
    BY <1>1, <1>2, <1>3, <1>4, <1>5, <1>6, <1>7, <1>8, <1>9, <1>10, <1>11, <1>12, <1>13,
        <1>14, <1>15, <1>16, <1>17, <1>18, <1>19, <1>20, <1>21, <1>22, <1>23, <1>24 DEF Next,
        Worker

\* No step leaves a file without its directory.
LEMMA HousedStep ==
  ASSUME Typed, Housed, [Next]_vars
  PROVE  Housed'
  <1> SUFFICES ASSUME NEW j \in Jobs, j \notin dir'
               PROVE  record'[j] = "none" /\ events'[j] = <<>> /\ artifacts'[j] = "none"
    BY DEF Housed
  <1> DEFINE Empty == record'[j] = "none" /\ events'[j] = <<>> /\ artifacts'[j] = "none"
  <1>0. /\ record \in [Jobs -> Statuses] /\ events \in [Jobs -> Seq(EventTypes)]
        /\ artifacts \in [Jobs -> Contents]
        /\ j \notin dir => record[j] = "none" /\ events[j] = <<>> /\ artifacts[j] = "none"
    BY DEF Typed, Housed
  <1> USE DEF files, repo, history, Go, GetJob, WriteRecord, Tell
  <1>1. ASSUME NEW k \in Jobs, NEW spec \in Specs, Submit(k, spec)
        PROVE  Empty
    BY <1>1, <1>0 DEF Submit
  <1>2. ASSUME NEW k \in Jobs, Record(k)
        PROVE  Empty
    BY <1>2, <1>0 DEF Record
  <1>3. ASSUME NEW k \in Jobs, Load(k)
        PROVE  Empty
    BY <1>3, <1>0 DEF Load
  <1>4. ASSUME NEW k \in Jobs, WriteRunning(k)
        PROVE  Empty
    BY <1>4, <1>0 DEF WriteRunning
  <1>5. ASSUME NEW k \in Jobs, MakeWorkspace(k)
        PROVE  Empty
    BY <1>5, <1>0 DEF MakeWorkspace
  <1>6. ASSUME NEW k \in Jobs, RunExecutor(k)
        PROVE  Empty
    BY <1>6, <1>0 DEF RunExecutor
  <1>7. ASSUME NEW k \in Jobs, CaptureDiff(k)
        PROVE  Empty
    BY <1>7, <1>0 DEF CaptureDiff
  <1>8. ASSUME NEW k \in Jobs, RunChecks(k)
        PROVE  Empty
    BY <1>8, <1>0 DEF RunChecks
  <1>9. ASSUME NEW k \in Jobs, Raise(k)
        PROVE  Empty
    BY <1>9, <1>0 DEF Raise
  <1>10. ASSUME NEW k \in Jobs, WriteArtifacts(k)
        PROVE  Empty
    BY <1>10, <1>0 DEF WriteArtifacts
  <1>11. ASSUME NEW k \in Jobs, ReadStatus(k)
        PROVE  Empty
    BY <1>11, <1>0 DEF ReadStatus
  <1>12. ASSUME NEW k \in Jobs, WriteStatus(k)
        PROVE  Empty
    BY <1>12, <1>0 DEF WriteStatus
  <1>13. ASSUME NEW k \in Jobs, TellStatus(k)
        PROVE  Empty
    BY <1>13, <1>0 DEF TellStatus
  <1>14. ASSUME NEW k \in Jobs, Cleanup(k)
        PROVE  Empty
    BY <1>14, <1>0 DEF Cleanup
  <1>15. ASSUME NEW k \in Jobs, CommandEnds(k)
        PROVE  Empty
    BY <1>15, <1>0 DEF CommandEnds
  <1>16. ASSUME DaemonEnds
        PROVE  Empty
    BY <1>16, <1>0 DEF DaemonEnds
  <1>17. ASSUME NEW f \in Followers, NEW k \in Jobs, Follow(f, k)
        PROVE  Empty
    BY <1>17, <1>0 DEF Follow
  <1>18. ASSUME NEW f \in Followers, FollowEvents(f)
        PROVE  Empty
    BY <1>18, <1>0 DEF FollowEvents
  <1>19. ASSUME NEW f \in Followers, FollowStatus(f)
        PROVE  Empty
    BY <1>19, <1>0 DEF FollowStatus
  <1>20. ASSUME NEW d \in Deleters, NEW visit \in SUBSET Jobs, NEW forced \in BOOLEAN,
               DeleteBegin(d, visit, forced)
        PROVE  Empty
    BY <1>20, <1>0 DEF DeleteBegin
  <1>21. ASSUME NEW d \in Deleters, NEW k \in Jobs, DeleteRead(d, k)
        PROVE  Empty
    BY <1>21, <1>0 DEF DeleteRead
  <1>22. ASSUME NEW d \in Deleters, DeleteRemove(d)
        PROVE  Empty
    BY <1>22, <1>0 DEF DeleteRemove
  <1>23. ASSUME NEW k \in Jobs, NEW checkOnly \in BOOLEAN, NEW toBranch \in BOOLEAN,
               ApplyPatch(k, checkOnly, toBranch)
        PROVE  Empty
    BY <1>23, <1>0 DEF ApplyPatch
  <1>24. CASE UNCHANGED vars
    BY <1>24, <1>0 DEF vars
  <1> QED
    BY <1>1, <1>2, <1>3, <1>4, <1>5, <1>6, <1>7, <1>8, <1>9, <1>10, <1>11, <1>12, <1>13,
       <1>14, <1>15, <1>16, <1>17, <1>18, <1>19, <1>20, <1>21, <1>22, <1>23, <1>24 DEF Next, Worker

-----------------------------------------------------------------------------
(* Every step keeps the clauses of the invariant.                           *)

\* Only the worker of a job writes its status; a delete takes it away.
LEMMA JobStep ==
  ASSUME Typed, JobInv, [Next]_vars
  PROVE  JobInv'
  <1> SUFFICES ASSUME NEW j \in Jobs
               PROVE  JobClause(j)'
    BY DEF JobInv
  <1>0. /\ JobClause(j) /\ pc \in [Jobs -> Locations] /\ record \in [Jobs -> Statuses]
        /\ events \in [Jobs -> Seq(EventTypes)]
    BY DEF JobInv, Typed
  <1> USE DEF files, repo, history, Go, GetJob, WriteRecord, Tell, JobClause, Active,
          Terminal, Late, Early
  <1>1. ASSUME NEW k \in Jobs, NEW spec \in Specs, Submit(k, spec)
        PROVE  JobClause(j)'
    BY <1>1, <1>0 DEF Submit
  <1>2. ASSUME NEW k \in Jobs, Record(k)
        PROVE  JobClause(j)'
    BY <1>2, <1>0 DEF Record
  <1>3. ASSUME NEW k \in Jobs, Load(k)
        PROVE  JobClause(j)'
    BY <1>3, <1>0 DEF Load
  <1>4. ASSUME NEW k \in Jobs, WriteRunning(k)
        PROVE  JobClause(j)'
    BY <1>4, <1>0 DEF WriteRunning
  <1>5. ASSUME NEW k \in Jobs, MakeWorkspace(k)
        PROVE  JobClause(j)'
    BY <1>5, <1>0 DEF MakeWorkspace
  <1>6. ASSUME NEW k \in Jobs, RunExecutor(k)
        PROVE  JobClause(j)'
    BY <1>6, <1>0 DEF RunExecutor
  <1>7. ASSUME NEW k \in Jobs, CaptureDiff(k)
        PROVE  JobClause(j)'
    BY <1>7, <1>0 DEF CaptureDiff
  <1>8. ASSUME NEW k \in Jobs, RunChecks(k)
        PROVE  JobClause(j)'
    BY <1>8, <1>0 DEF RunChecks
  <1>9. ASSUME NEW k \in Jobs, Raise(k)
        PROVE  JobClause(j)'
    BY <1>9, <1>0 DEF Raise
  <1>10. ASSUME NEW k \in Jobs, WriteArtifacts(k)
        PROVE  JobClause(j)'
    BY <1>10, <1>0 DEF WriteArtifacts
  <1>11. ASSUME NEW k \in Jobs, ReadStatus(k)
        PROVE  JobClause(j)'
    BY <1>11, <1>0 DEF ReadStatus
  <1>12. ASSUME NEW k \in Jobs, WriteStatus(k)
        PROVE  JobClause(j)'
    BY <1>12, <1>0 DEF WriteStatus
  <1>13. ASSUME NEW k \in Jobs, TellStatus(k)
        PROVE  JobClause(j)'
    BY <1>13, <1>0 DEF TellStatus
  <1>14. ASSUME NEW k \in Jobs, Cleanup(k)
        PROVE  JobClause(j)'
    BY <1>14, <1>0 DEF Cleanup
  <1>15. ASSUME NEW k \in Jobs, CommandEnds(k)
        PROVE  JobClause(j)'
    BY <1>15, <1>0 DEF CommandEnds, Alive, Steps, Tried
  <1>16. ASSUME DaemonEnds
        PROVE  JobClause(j)'
    BY <1>16, <1>0 DEF DaemonEnds, Alive, Steps, Tried
  <1>17. ASSUME NEW f \in Followers, NEW k \in Jobs, Follow(f, k)
        PROVE  JobClause(j)'
    BY <1>17, <1>0 DEF Follow
  <1>18. ASSUME NEW f \in Followers, FollowEvents(f)
        PROVE  JobClause(j)'
    BY <1>18, <1>0 DEF FollowEvents
  <1>19. ASSUME NEW f \in Followers, FollowStatus(f)
        PROVE  JobClause(j)'
    BY <1>19, <1>0 DEF FollowStatus
  <1>20. ASSUME NEW d \in Deleters, NEW visit \in SUBSET Jobs, NEW forced \in BOOLEAN,
               DeleteBegin(d, visit, forced)
        PROVE  JobClause(j)'
    BY <1>20, <1>0 DEF DeleteBegin
  <1>21. ASSUME NEW d \in Deleters, NEW k \in Jobs, DeleteRead(d, k)
        PROVE  JobClause(j)'
    BY <1>21, <1>0 DEF DeleteRead
  <1>22. ASSUME NEW d \in Deleters, DeleteRemove(d)
        PROVE  JobClause(j)'
    BY <1>22, <1>0 DEF DeleteRemove, Typed, DeleteType, Targets
  <1>23. ASSUME NEW k \in Jobs, NEW checkOnly \in BOOLEAN, NEW toBranch \in BOOLEAN,
               ApplyPatch(k, checkOnly, toBranch)
        PROVE  JobClause(j)'
    BY <1>23, <1>0 DEF ApplyPatch
  <1>24. CASE UNCHANGED vars
    BY <1>24, <1>0 DEF vars
  <1> QED
    BY <1>1, <1>2, <1>3, <1>4, <1>5, <1>6, <1>7, <1>8, <1>9, <1>10, <1>11, <1>12, <1>13,
       <1>14, <1>15, <1>16, <1>17, <1>18, <1>19, <1>20, <1>21, <1>22, <1>23, <1>24 DEF Next, Worker

\* A job whose status is terminal is never active again.
LEMMA DeleteStep ==
  ASSUME Typed, JobInv, DeleteInv, [Next]_vars
  PROVE  DeleteInv'
  <1> SUFFICES ASSUME NEW e \in Deleters, NEW j \in Jobs
               PROVE  DeleteClause(e, j)'
    BY DEF DeleteInv
  <1>0. /\ JobClause(j) /\ DeleteClause(e, j)
        /\ pc \in [Jobs -> Locations] /\ record \in [Jobs -> Statuses]
        /\ delete \in [Deleters -> DeleteType] /\ delete[e] \in DeleteType
    BY DEF JobInv, DeleteInv, Typed
  <1> USE DEF files, repo, history, Go, GetJob, WriteRecord, Tell, DeleteClause, Active,
          Terminal, Late, Early
  <1>1. ASSUME NEW k \in Jobs, NEW spec \in Specs, Submit(k, spec)
        PROVE  DeleteClause(e, j)'
    BY <1>1, <1>0 DEF Submit, JobClause
  <1>2. ASSUME NEW k \in Jobs, Record(k)
        PROVE  DeleteClause(e, j)'
    BY <1>2, <1>0 DEF Record, JobClause
  <1>3. ASSUME NEW k \in Jobs, Load(k)
        PROVE  DeleteClause(e, j)'
    BY <1>3, <1>0 DEF Load, JobClause
  <1>4. ASSUME NEW k \in Jobs, WriteRunning(k)
        PROVE  DeleteClause(e, j)'
    BY <1>4, <1>0 DEF WriteRunning, JobClause
  <1>5. ASSUME NEW k \in Jobs, MakeWorkspace(k)
        PROVE  DeleteClause(e, j)'
    BY <1>5, <1>0 DEF MakeWorkspace, JobClause
  <1>6. ASSUME NEW k \in Jobs, RunExecutor(k)
        PROVE  DeleteClause(e, j)'
    BY <1>6, <1>0 DEF RunExecutor, JobClause
  <1>7. ASSUME NEW k \in Jobs, CaptureDiff(k)
        PROVE  DeleteClause(e, j)'
    BY <1>7, <1>0 DEF CaptureDiff, JobClause
  <1>8. ASSUME NEW k \in Jobs, RunChecks(k)
        PROVE  DeleteClause(e, j)'
    BY <1>8, <1>0 DEF RunChecks, JobClause
  <1>9. ASSUME NEW k \in Jobs, Raise(k)
        PROVE  DeleteClause(e, j)'
    BY <1>9, <1>0 DEF Raise, JobClause
  <1>10. ASSUME NEW k \in Jobs, WriteArtifacts(k)
        PROVE  DeleteClause(e, j)'
    BY <1>10, <1>0 DEF WriteArtifacts, JobClause
  <1>11. ASSUME NEW k \in Jobs, ReadStatus(k)
        PROVE  DeleteClause(e, j)'
    BY <1>11, <1>0 DEF ReadStatus, JobClause
  <1>12. ASSUME NEW k \in Jobs, WriteStatus(k)
        PROVE  DeleteClause(e, j)'
    BY <1>12, <1>0 DEF WriteStatus, JobClause
  <1>13. ASSUME NEW k \in Jobs, TellStatus(k)
        PROVE  DeleteClause(e, j)'
    BY <1>13, <1>0 DEF TellStatus, JobClause
  <1>14. ASSUME NEW k \in Jobs, Cleanup(k)
        PROVE  DeleteClause(e, j)'
    BY <1>14, <1>0 DEF Cleanup, JobClause
  <1>15. ASSUME NEW k \in Jobs, CommandEnds(k)
        PROVE  DeleteClause(e, j)'
    BY <1>15, <1>0 DEF CommandEnds, JobClause, Alive, Steps, Tried
  <1>16. ASSUME DaemonEnds
        PROVE  DeleteClause(e, j)'
    BY <1>16, <1>0 DEF DaemonEnds, JobClause, Alive, Steps, Tried
  <1>17. ASSUME NEW f \in Followers, NEW k \in Jobs, Follow(f, k)
        PROVE  DeleteClause(e, j)'
    BY <1>17, <1>0 DEF Follow, JobClause
  <1>18. ASSUME NEW f \in Followers, FollowEvents(f)
        PROVE  DeleteClause(e, j)'
    BY <1>18, <1>0 DEF FollowEvents, JobClause
  <1>19. ASSUME NEW f \in Followers, FollowStatus(f)
        PROVE  DeleteClause(e, j)'
    BY <1>19, <1>0 DEF FollowStatus, JobClause
  <1>20. ASSUME NEW d \in Deleters, NEW visit \in SUBSET Jobs, NEW forced \in BOOLEAN,
               DeleteBegin(d, visit, forced)
        PROVE  DeleteClause(e, j)'
    BY <1>20, <1>0 DEF DeleteBegin, JobClause, DeleteType, Targets, MayDelete, Statuses
  <1>21. ASSUME NEW d \in Deleters, NEW k \in Jobs, DeleteRead(d, k)
        PROVE  DeleteClause(e, j)'
    BY <1>21, <1>0 DEF DeleteRead, JobClause, DeleteType, Targets, MayDelete, Statuses
  <1>22. ASSUME NEW d \in Deleters, DeleteRemove(d)
        PROVE  DeleteClause(e, j)'
    BY <1>22, <1>0 DEF DeleteRemove, JobClause, DeleteType, Targets, MayDelete, Statuses
  <1>23. ASSUME NEW k \in Jobs, NEW checkOnly \in BOOLEAN, NEW toBranch \in BOOLEAN,
               ApplyPatch(k, checkOnly, toBranch)
        PROVE  DeleteClause(e, j)'
    BY <1>23, <1>0 DEF ApplyPatch, JobClause
  <1>24. CASE UNCHANGED vars
    BY <1>24, <1>0 DEF vars
  <1> QED
    BY <1>1, <1>2, <1>3, <1>4, <1>5, <1>6, <1>7, <1>8, <1>9, <1>10, <1>11, <1>12, <1>13,
       <1>14, <1>15, <1>16, <1>17, <1>18, <1>19, <1>20, <1>21, <1>22, <1>23, <1>24 DEF Next, Worker

\* The patch is written before the status.
LEMMA WholeStep ==
  ASSUME Typed, JobInv, WholeInv, [Next]_vars
  PROVE  WholeInv'
  <1> SUFFICES ASSUME NEW j \in Jobs \ torn'
               PROVE  WholeClause(j)'
    BY DEF WholeInv
  <1>0. /\ j \notin torn => WholeClause(j)
        /\ JobClause(j)
        /\ pc \in [Jobs -> Locations] /\ record \in [Jobs -> Statuses]
        /\ artifacts \in [Jobs -> Contents] /\ events \in [Jobs -> Seq(EventTypes)]
        /\ work \in [Jobs -> [changed : Changes, captured : Changes]]
    BY DEF JobInv, WholeInv, Typed
  <1> USE DEF files, repo, history, Go, GetJob, WriteRecord, Tell, WholeClause, Active,
          Terminal, Late, Early
  <1>1. ASSUME NEW k \in Jobs, NEW spec \in Specs, Submit(k, spec)
        PROVE  WholeClause(j)'
    BY <1>1, <1>0 DEF Submit, JobClause
  <1>2. ASSUME NEW k \in Jobs, Record(k)
        PROVE  WholeClause(j)'
    BY <1>2, <1>0 DEF Record, JobClause
  <1>3. ASSUME NEW k \in Jobs, Load(k)
        PROVE  WholeClause(j)'
    BY <1>3, <1>0 DEF Load, JobClause
  <1>4. ASSUME NEW k \in Jobs, WriteRunning(k)
        PROVE  WholeClause(j)'
    BY <1>4, <1>0 DEF WriteRunning, JobClause
  <1>5. ASSUME NEW k \in Jobs, MakeWorkspace(k)
        PROVE  WholeClause(j)'
    BY <1>5, <1>0 DEF MakeWorkspace, JobClause
  <1>6. ASSUME NEW k \in Jobs, RunExecutor(k)
        PROVE  WholeClause(j)'
    BY <1>6, <1>0 DEF RunExecutor, JobClause
  <1>7. ASSUME NEW k \in Jobs, CaptureDiff(k)
        PROVE  WholeClause(j)'
    BY <1>7, <1>0 DEF CaptureDiff, JobClause
  <1>8. ASSUME NEW k \in Jobs, RunChecks(k)
        PROVE  WholeClause(j)'
    BY <1>8, <1>0 DEF RunChecks, JobClause
  <1>9. ASSUME NEW k \in Jobs, Raise(k)
        PROVE  WholeClause(j)'
    BY <1>9, <1>0 DEF Raise, JobClause
  <1>10. ASSUME NEW k \in Jobs, WriteArtifacts(k)
        PROVE  WholeClause(j)'
    BY <1>10, <1>0 DEF WriteArtifacts, JobClause
  <1>11. ASSUME NEW k \in Jobs, ReadStatus(k)
        PROVE  WholeClause(j)'
    BY <1>11, <1>0 DEF ReadStatus, JobClause
  <1>12. ASSUME NEW k \in Jobs, WriteStatus(k)
        PROVE  WholeClause(j)'
    BY <1>12, <1>0 DEF WriteStatus, JobClause
  <1>13. ASSUME NEW k \in Jobs, TellStatus(k)
        PROVE  WholeClause(j)'
    BY <1>13, <1>0 DEF TellStatus, JobClause, Changes
  <1>14. ASSUME NEW k \in Jobs, Cleanup(k)
        PROVE  WholeClause(j)'
    BY <1>14, <1>0 DEF Cleanup, JobClause
  <1>15. ASSUME NEW k \in Jobs, CommandEnds(k)
        PROVE  WholeClause(j)'
    BY <1>15, <1>0 DEF CommandEnds, JobClause, Alive, Steps, Tried
  <1>16. ASSUME DaemonEnds
        PROVE  WholeClause(j)'
    BY <1>16, <1>0 DEF DaemonEnds, JobClause, Alive, Steps, Tried
  <1>17. ASSUME NEW f \in Followers, NEW k \in Jobs, Follow(f, k)
        PROVE  WholeClause(j)'
    BY <1>17, <1>0 DEF Follow, JobClause
  <1>18. ASSUME NEW f \in Followers, FollowEvents(f)
        PROVE  WholeClause(j)'
    BY <1>18, <1>0 DEF FollowEvents, JobClause
  <1>19. ASSUME NEW f \in Followers, FollowStatus(f)
        PROVE  WholeClause(j)'
    BY <1>19, <1>0 DEF FollowStatus, JobClause
  <1>20. ASSUME NEW d \in Deleters, NEW visit \in SUBSET Jobs, NEW forced \in BOOLEAN,
               DeleteBegin(d, visit, forced)
        PROVE  WholeClause(j)'
    BY <1>20, <1>0 DEF DeleteBegin, JobClause, Typed, DeleteType, Targets
  <1>21. ASSUME NEW d \in Deleters, NEW k \in Jobs, DeleteRead(d, k)
        PROVE  WholeClause(j)'
    BY <1>21, <1>0 DEF DeleteRead, JobClause, Typed, DeleteType, Targets
  <1>22. ASSUME NEW d \in Deleters, DeleteRemove(d)
        PROVE  WholeClause(j)'
    BY <1>22, <1>0 DEF DeleteRemove, JobClause, Alive, Steps, Tried, Typed, DeleteType,
        Targets
  <1>23. ASSUME NEW k \in Jobs, NEW checkOnly \in BOOLEAN, NEW toBranch \in BOOLEAN,
               ApplyPatch(k, checkOnly, toBranch)
        PROVE  WholeClause(j)'
    BY <1>23, <1>0 DEF ApplyPatch, JobClause
  <1>24. CASE UNCHANGED vars
    BY <1>24, <1>0 DEF vars
  <1> QED
    BY <1>1, <1>2, <1>3, <1>4, <1>5, <1>6, <1>7, <1>8, <1>9, <1>10, <1>11, <1>12, <1>13,
       <1>14, <1>15, <1>16, <1>17, <1>18, <1>19, <1>20, <1>21, <1>22, <1>23, <1>24 DEF Next, Worker

\* A follower that has begun follows a job.
LEMMA ShapeStep ==
  ASSUME Typed, \A f \in Followers : Shape(f), [Next]_vars
  PROVE  \A f \in Followers : Shape(f)'
  <1> SUFFICES ASSUME NEW g \in Followers
               PROVE  Shape(g)'
    OBVIOUS
  <1>0. /\ Shape(g)
        /\ follow \in [Followers -> FollowType]
    BY DEF Typed
  <1> USE DEF files, repo, history, Go, GetJob, Shape
  <1>1. ASSUME NEW k \in Jobs, NEW spec \in Specs, Submit(k, spec)
        PROVE  Shape(g)'
    BY <1>1, <1>0 DEF Submit
  <1>2. ASSUME NEW k \in Jobs, Record(k)
        PROVE  Shape(g)'
    BY <1>2, <1>0 DEF Record
  <1>3. ASSUME NEW k \in Jobs, Load(k)
        PROVE  Shape(g)'
    BY <1>3, <1>0 DEF Load
  <1>4. ASSUME NEW k \in Jobs, WriteRunning(k)
        PROVE  Shape(g)'
    BY <1>4, <1>0 DEF WriteRunning
  <1>5. ASSUME NEW k \in Jobs, MakeWorkspace(k)
        PROVE  Shape(g)'
    BY <1>5, <1>0 DEF MakeWorkspace
  <1>6. ASSUME NEW k \in Jobs, RunExecutor(k)
        PROVE  Shape(g)'
    BY <1>6, <1>0 DEF RunExecutor
  <1>7. ASSUME NEW k \in Jobs, CaptureDiff(k)
        PROVE  Shape(g)'
    BY <1>7, <1>0 DEF CaptureDiff
  <1>8. ASSUME NEW k \in Jobs, RunChecks(k)
        PROVE  Shape(g)'
    BY <1>8, <1>0 DEF RunChecks
  <1>9. ASSUME NEW k \in Jobs, Raise(k)
        PROVE  Shape(g)'
    BY <1>9, <1>0 DEF Raise
  <1>10. ASSUME NEW k \in Jobs, WriteArtifacts(k)
        PROVE  Shape(g)'
    BY <1>10, <1>0 DEF WriteArtifacts
  <1>11. ASSUME NEW k \in Jobs, ReadStatus(k)
        PROVE  Shape(g)'
    BY <1>11, <1>0 DEF ReadStatus
  <1>12. ASSUME NEW k \in Jobs, WriteStatus(k)
        PROVE  Shape(g)'
    BY <1>12, <1>0 DEF WriteStatus
  <1>13. ASSUME NEW k \in Jobs, TellStatus(k)
        PROVE  Shape(g)'
    BY <1>13, <1>0 DEF TellStatus
  <1>14. ASSUME NEW k \in Jobs, Cleanup(k)
        PROVE  Shape(g)'
    BY <1>14, <1>0 DEF Cleanup
  <1>15. ASSUME NEW k \in Jobs, CommandEnds(k)
        PROVE  Shape(g)'
    BY <1>15, <1>0 DEF CommandEnds
  <1>16. ASSUME DaemonEnds
        PROVE  Shape(g)'
    BY <1>16, <1>0 DEF DaemonEnds
  <1>17. ASSUME NEW f \in Followers, NEW k \in Jobs, Follow(f, k)
        PROVE  Shape(g)'
    BY <1>17, <1>0 DEF Follow
  <1>18. ASSUME NEW f \in Followers, FollowEvents(f)
        PROVE  Shape(g)'
    BY <1>18, <1>0 DEF FollowEvents
  <1>19. ASSUME NEW f \in Followers, FollowStatus(f)
        PROVE  Shape(g)'
    BY <1>19, <1>0 DEF FollowStatus
  <1>20. ASSUME NEW d \in Deleters, NEW visit \in SUBSET Jobs, NEW forced \in BOOLEAN,
               DeleteBegin(d, visit, forced)
        PROVE  Shape(g)'
    BY <1>20, <1>0 DEF DeleteBegin
  <1>21. ASSUME NEW d \in Deleters, NEW k \in Jobs, DeleteRead(d, k)
        PROVE  Shape(g)'
    BY <1>21, <1>0 DEF DeleteRead
  <1>22. ASSUME NEW d \in Deleters, DeleteRemove(d)
        PROVE  Shape(g)'
    BY <1>22, <1>0 DEF DeleteRemove
  <1>23. ASSUME NEW k \in Jobs, NEW checkOnly \in BOOLEAN, NEW toBranch \in BOOLEAN,
               ApplyPatch(k, checkOnly, toBranch)
        PROVE  Shape(g)'
    BY <1>23, <1>0 DEF ApplyPatch
  <1>24. CASE UNCHANGED vars
    BY <1>24, <1>0 DEF vars
  <1> QED
    BY <1>1, <1>2, <1>3, <1>4, <1>5, <1>6, <1>7, <1>8, <1>9, <1>10, <1>11, <1>12, <1>13,
       <1>14, <1>15, <1>16, <1>17, <1>18, <1>19, <1>20, <1>21, <1>22, <1>23, <1>24 DEF Next, Worker

\* After the status of a job is terminal its worker writes one event more, and a
\* follower that has seen that status reads the events again before it ends.
LEMMA FollowStep ==
  ASSUME Typed, JobInv, WholeInv, FollowInv, [Next]_vars
  PROVE  FollowInv'
  <1> SUFFICES ASSUME NEW g \in Followers, NEW j \in Jobs, j \notin torn',
                      follow'[g].on = j, follow'[g].phase # "idle"
               PROVE  FollowClause(g, j)'
    BY ShapeStep DEF FollowInv
  <1>0. /\ Shape(g)
        /\ j \notin torn /\ follow[g].on = j /\ follow[g].phase # "idle" => FollowClause(g, j)
        /\ JobClause(j)
        /\ j \notin torn => WholeClause(j)
        /\ pc \in [Jobs -> Locations] /\ record \in [Jobs -> Statuses]
        /\ events \in [Jobs -> Seq(EventTypes)] /\ events[j] \in Seq(EventTypes)
        /\ follow \in [Followers -> FollowType] /\ follow[g] \in FollowType
        /\ follow[g].offset \in Nat
    BY DEF JobInv, WholeInv, FollowInv, Typed, FollowType
  <1> USE DEF files, repo, history, Go, GetJob, WriteRecord, Tell, FollowClause, Shape,
          Active, Terminal, Late, Early
  <1>1. ASSUME NEW k \in Jobs, NEW spec \in Specs, Submit(k, spec)
        PROVE  FollowClause(g, j)'
    BY <1>1, <1>0 DEF Submit, JobClause, Alive, Steps, Tried
  <1>2. ASSUME NEW k \in Jobs, Record(k)
        PROVE  FollowClause(g, j)'
    BY <1>2, <1>0 DEF Record, JobClause, Alive, Steps, Tried
  <1>3. ASSUME NEW k \in Jobs, Load(k)
        PROVE  FollowClause(g, j)'
    BY <1>3, <1>0 DEF Load, JobClause, Alive, Steps, Tried
  <1>4. ASSUME NEW k \in Jobs, WriteRunning(k)
        PROVE  FollowClause(g, j)'
    BY <1>4, <1>0 DEF WriteRunning, JobClause, Alive, Steps, Tried
  <1>5. ASSUME NEW k \in Jobs, MakeWorkspace(k)
        PROVE  FollowClause(g, j)'
    BY <1>5, <1>0 DEF MakeWorkspace, JobClause, Alive, Steps, Tried
  <1>6. ASSUME NEW k \in Jobs, RunExecutor(k)
        PROVE  FollowClause(g, j)'
    BY <1>6, <1>0 DEF RunExecutor, JobClause, Alive, Steps, Tried
  <1>7. ASSUME NEW k \in Jobs, CaptureDiff(k)
        PROVE  FollowClause(g, j)'
    BY <1>7, <1>0 DEF CaptureDiff, JobClause, Alive, Steps, Tried
  <1>8. ASSUME NEW k \in Jobs, RunChecks(k)
        PROVE  FollowClause(g, j)'
    BY <1>8, <1>0 DEF RunChecks, JobClause, Alive, Steps, Tried
  <1>9. ASSUME NEW k \in Jobs, Raise(k)
        PROVE  FollowClause(g, j)'
    BY <1>9, <1>0 DEF Raise, JobClause, Alive, Steps, Tried
  <1>10. ASSUME NEW k \in Jobs, WriteArtifacts(k)
        PROVE  FollowClause(g, j)'
    BY <1>10, <1>0 DEF WriteArtifacts, JobClause, Alive, Steps, Tried
  <1>11. ASSUME NEW k \in Jobs, ReadStatus(k)
        PROVE  FollowClause(g, j)'
    BY <1>11, <1>0 DEF ReadStatus, JobClause, Alive, Steps, Tried
  <1>12. ASSUME NEW k \in Jobs, WriteStatus(k)
        PROVE  FollowClause(g, j)'
    BY <1>12, <1>0 DEF WriteStatus, JobClause, Alive, Steps, Tried
  <1>13. ASSUME NEW k \in Jobs, TellStatus(k)
        PROVE  FollowClause(g, j)'
    <2>1. PICK type \in Terminal : Tell(k, type)
      BY <1>13 DEF TellStatus
    <2>2. events' = [events EXCEPT ![k] = Append(@, type)] /\ follow' = follow /\ record' = record
          /\ torn' = torn /\ pc' = [pc EXCEPT ![k] = "cleanup"]
      BY <1>13, <2>1 DEF TellStatus
    <2>3. pc[k] \in {"tellCompleted", "tellFailed"}
      BY <1>13 DEF TellStatus
    <2>4. CASE j = k
      <3>1. /\ Len(events'[j]) = Len(events[j]) + 1 /\ Len(events[j]) \in Nat
            /\ events'[j][Len(events[j]) + 1] = type
        BY <1>0, <2>2, <2>4
      <3>2. pc'[j] = "cleanup"
        BY <1>0, <2>2, <2>4
      <3> HIDE DEF Terminal
      <3> QED
        BY <1>0, <2>1, <2>2, <2>3, <2>4, <3>1, <3>2
    <2>5. CASE j # k
      BY <1>0, <2>2, <2>5
    <2> QED
      BY <2>4, <2>5
  <1>14. ASSUME NEW k \in Jobs, Cleanup(k)
        PROVE  FollowClause(g, j)'
    BY <1>14, <1>0 DEF Cleanup, JobClause, Alive, Steps, Tried
  <1>15. ASSUME NEW k \in Jobs, CommandEnds(k)
        PROVE  FollowClause(g, j)'
    BY <1>15, <1>0 DEF CommandEnds, JobClause, Alive, Steps, Tried
  <1>16. ASSUME DaemonEnds
        PROVE  FollowClause(g, j)'
    BY <1>16, <1>0 DEF DaemonEnds, JobClause, Alive, Steps, Tried
  <1>17. ASSUME NEW f \in Followers, NEW k \in Jobs, Follow(f, k)
        PROVE  FollowClause(g, j)'
    <2>1. CASE g = f
      <3>1. follow[g] = IdleFollow
        BY <1>17, <1>0, <2>1 DEF Follow
      <3>2. /\ follow'[g].offset = 0 /\ ~follow'[g].seen /\ follow'[g].phase = "events"
        BY <1>17, <1>0, <2>1, <3>1 DEF Follow, IdleFollow
      <3>3. Len(events[j]) \in Nat
        BY <1>0
      <3>4. record' = record /\ events' = events /\ pc' = pc
        BY <1>17 DEF Follow
      <3> QED
        BY <1>0, <3>2, <3>3, <3>4
    <2>2. CASE g # f
      BY <1>17, <1>0, <2>2 DEF Follow, Alive
    <2> QED
      BY <2>1, <2>2
  <1>18. ASSUME NEW f \in Followers, FollowEvents(f)
        PROVE  FollowClause(g, j)'
    <2>0. record' = record /\ events' = events /\ pc' = pc /\ torn' = torn
      BY <1>18 DEF FollowEvents
    <2>1. CASE g = f /\ follow[g].on = j
      <3>1. /\ follow[g].phase = "events" /\ follow'[g].phase = "status"
            /\ follow'[g].seen = follow[g].seen
            /\ follow'[g].offset = IF events[j] = <<>> THEN follow[g].offset ELSE Len(events[j])
        BY <1>18, <1>0, <2>1 DEF FollowEvents, FollowType
      <3>2. Len(events[j]) \in Nat /\ (events[j] = <<>> => Len(events[j]) = 0)
        BY <1>0
      <3>3. Len(events'[j]) <= follow'[g].offset
        BY <1>0, <2>0, <3>1, <3>2
      <3> QED
        BY <1>0, <2>0, <2>1, <3>1, <3>3
    <2>2. CASE g = f /\ follow[g].on # j
      <3>1. follow'[g].on = follow[g].on
        BY <1>18, <1>0, <2>2 DEF FollowEvents, FollowType
      <3> QED
        BY <2>2, <3>1
    <2>3. CASE g # f
      <3>1. follow'[g] = follow[g]
        BY <1>18, <1>0, <2>3 DEF FollowEvents
      <3> QED
        BY <1>0, <2>0, <3>1
    <2> QED
      BY <2>1, <2>2, <2>3
  <1>19. ASSUME NEW f \in Followers, FollowStatus(f)
        PROVE  FollowClause(g, j)'
    <2>0. record' = record /\ events' = events /\ pc' = pc /\ torn' = torn
      BY <1>19 DEF FollowStatus
    <2>1. CASE g = f
      <3>1. follow[g].phase = "status" /\ follow'[g].on = follow[g].on
        BY <1>19, <1>0, <2>1 DEF FollowStatus, FollowType
      <3>2. follow'[g].offset = follow[g].offset
        BY <1>19, <1>0, <2>1 DEF FollowStatus, FollowType
      <3>3. follow'[g].seen = (follow[g].seen \/ record[follow[g].on] \in Terminal)
        BY <1>19, <1>0, <2>1 DEF FollowStatus, FollowType
      <3>4. /\ follow'[g].phase # "status"
            /\ follow'[g].phase = "done" => record[follow[g].on] \in Terminal /\ follow[g].seen
        BY <1>19, <1>0, <2>1 DEF FollowStatus, FollowType
      <3> HIDE DEF Terminal
      <3> QED
        BY <1>0, <2>0, <3>1, <3>2, <3>3, <3>4 DEF JobClause
    <2>2. CASE g # f
      BY <1>19, <1>0, <2>0, <2>2 DEF FollowStatus
    <2> QED
      BY <2>1, <2>2
  <1>20. ASSUME NEW d \in Deleters, NEW visit \in SUBSET Jobs, NEW forced \in BOOLEAN,
               DeleteBegin(d, visit, forced)
        PROVE  FollowClause(g, j)'
    BY <1>20, <1>0 DEF DeleteBegin, JobClause, Alive, Steps, Tried, Typed, DeleteType, Targets
  <1>21. ASSUME NEW d \in Deleters, NEW k \in Jobs, DeleteRead(d, k)
        PROVE  FollowClause(g, j)'
    BY <1>21, <1>0 DEF DeleteRead, JobClause, Alive, Steps, Tried, Typed, DeleteType, Targets
  <1>22. ASSUME NEW d \in Deleters, DeleteRemove(d)
        PROVE  FollowClause(g, j)'
    BY <1>22, <1>0 DEF DeleteRemove, JobClause, Alive, Steps, Tried, Typed, DeleteType, Targets
  <1>23. ASSUME NEW k \in Jobs, NEW checkOnly \in BOOLEAN, NEW toBranch \in BOOLEAN,
               ApplyPatch(k, checkOnly, toBranch)
        PROVE  FollowClause(g, j)'
    BY <1>23, <1>0 DEF ApplyPatch, JobClause, Alive, Steps, Tried
  <1>24. CASE UNCHANGED vars
    BY <1>24, <1>0 DEF Alive, vars
  <1> QED
    BY <1>1, <1>2, <1>3, <1>4, <1>5, <1>6, <1>7, <1>8, <1>9, <1>10, <1>11, <1>12, <1>13,
       <1>14, <1>15, <1>16, <1>17, <1>18, <1>19, <1>20, <1>21, <1>22, <1>23, <1>24 DEF Next, Worker

-----------------------------------------------------------------------------
(* The theorems.                                                            *)

Inv == Typed /\ Housed /\ JobInv /\ WholeInv /\ DeleteInv /\ FollowInv

\* Inv holds at first, and every step keeps it.
LEMMA InvInit == Init => Inv
  <1> SUFFICES ASSUME Init
               PROVE  Inv
    OBVIOUS
  <1>1. Typed
    BY TypedInit
  <1>2. Housed
    BY DEF Init, Housed
  <1>3. JobInv
    BY DEF Init, JobInv, JobClause, Active, Terminal, Early
  <1>4. WholeInv
    BY DEF Init, WholeInv, WholeClause
  <1>5. DeleteInv
    BY DEF Init, DeleteInv, DeleteClause, IdleDelete
  <1>6. FollowInv
    <2>1. \A f \in Followers : follow[f] = IdleFollow /\ follow[f].phase = "idle"
      BY DEF Init, IdleFollow
    <2> QED
      BY <2>1 DEF FollowInv, Shape
  <1> QED
    BY <1>1, <1>2, <1>3, <1>4, <1>5, <1>6 DEF Inv

LEMMA InvStep == Inv /\ [Next]_vars => Inv'
  BY TypedStep, HousedStep, JobStep, WholeStep, DeleteStep, FollowStep DEF Inv

\* At all times the files of a job are well formed, a job that is completed has
\* its patch, and an unforced delete that has read a terminal status does not meet
\* an active one when it removes the files (gateway.py:223-244, 287-301).
THEOREM JobsAreSound == Spec => []JobsOK
  <1>1. Inv => JobsOK
    <2> SUFFICES ASSUME Inv
                 PROVE  JobsOK
      OBVIOUS
    <2>1. TypeOK
      BY TypeParts DEF Inv
    <2>2. CompletedHasPatch
      BY DEF Inv, WholeInv, WholeClause, CompletedHasPatch
    <2>3. UnforcedSparesActive
      <3> SUFFICES ASSUME NEW d \in Deleters, delete[d].on # "none", ~delete[d].forced,
                          delete[d].recorded
                   PROVE  record[delete[d].on] \notin Active
        BY DEF UnforcedSparesActive
      <3>1. delete[d].on \in Jobs
        BY DEF Inv, Typed, DeleteType, Targets
      <3> QED
        BY <3>1 DEF Inv, DeleteInv, DeleteClause
    <2> QED
      BY <2>1, <2>2, <2>3 DEF JobsOK
  <1> QED
    BY <1>1, InvInit, InvStep, PTL DEF Spec

\* However deletes, followers and other workers interleave with it, a worker leaves
\* its job active only if its process ended or the policy could not be read
\* (gateway.py:147-253).
THEOREM WorkersLeaveNoOrphans == Spec => []OrphansAreExplained
  <1>1. Inv => OrphansAreExplained
    <2> SUFFICES ASSUME Inv, NEW j \in Jobs, Orphan(j), pc[j] # "killed"
                 PROVE  j \in unreadable
      BY DEF OrphansAreExplained
    <2>1. pc[j] \in {"none", "ended"}
      BY DEF Inv, Typed, Locations, Orphan, Alive
    <2> QED
      BY <2>1 DEF Inv, JobInv, JobClause, Orphan
  <1> QED
    BY <1>1, InvInit, InvStep, PTL DEF Spec

\* The workspace of a job is there only while its worker is, unless the worker was
\* killed (the "finally" of gateway.py:249-253).
THEOREM WorkersRemoveWorkspaces == Spec => []WorkspaceIsRemoved
  <1>1. Inv => WorkspaceIsRemoved
    <2> SUFFICES ASSUME Inv, NEW j \in Jobs, j \in workspace, ~Alive(j)
                 PROVE  pc[j] = "killed"
      BY DEF WorkspaceIsRemoved
    <2>1. pc[j] \in {"none", "ended", "killed"}
      BY DEF Inv, Typed, Locations, Alive
    <2> QED
      BY <2>1 DEF Inv, JobInv, JobClause, Early
  <1> QED
    BY <1>1, InvInit, InvStep, PTL DEF Spec

\* A follower that ends with "done" has been sent all events of its job but perhaps the
\* last, which the worker writes after the status, however the two are scheduled
\* (daemon.py:81-94): the status must be met terminal twice, and the events are read in
\* between.
THEOREM FollowersMissOnlyTheLast == Spec => []DoneMissesOnlyTheLast
  <1>1. Inv => DoneMissesOnlyTheLast
    <2> SUFFICES ASSUME Inv, NEW f \in Followers, follow[f].phase = "done",
                        follow[f].on \notin torn, NEW i \in 1..Len(events[follow[f].on]),
                        i > follow[f].offset
                 PROVE  /\ i = Len(events[follow[f].on])
                        /\ events[follow[f].on][i] \in Terminal
      BY DEF DoneMissesOnlyTheLast
    <2>1. follow[f].on \in Jobs
      BY DEF Inv, FollowInv, Shape
    <2>2. follow[f].offset \in Nat /\ events[follow[f].on] \in Seq(EventTypes)
      BY <2>1 DEF Inv, Typed, FollowType
    <2>3. FollowClause(f, follow[f].on)
      BY <2>1 DEF Inv, FollowInv
    <2> DEFINE n == Len(events[follow[f].on])
    <2>4. n \in Nat
      BY <2>2
    <2>5. \/ n <= follow[f].offset
          \/ n = follow[f].offset + 1 /\ events[follow[f].on][n] \in Terminal
      BY <2>3 DEF FollowClause
    <2>6. i \in 1..n
      OBVIOUS
    <2> HIDE DEF n
    <2>7. i = n /\ events[follow[f].on][n] \in Terminal
      BY <2>2, <2>4, <2>5, <2>6
    <2> QED
      BY <2>7 DEF n
  <1> QED
    BY <1>1, InvInit, InvStep, PTL DEF Spec
=============================================================================
