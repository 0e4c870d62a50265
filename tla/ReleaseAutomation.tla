-------------------------- MODULE ReleaseAutomation --------------------------
(* The automatic release of a repository: a run plans a version for a commit of    *)
(* main that passed CI, merges it through a pull request, tags it and publishes it.  *)
(* Runs of the workflow are one at a time, with one waiting; main advances and a run   *)
(* dies between any two of their steps, and the next run takes up what it finds.        *)
(* main is its first-parent history: the commits before an index are its ancestors.      *)
EXTENDS Nothing, Naturals, Sequences, FiniteSets, FiniteSetsExt

CONSTANTS
  MaxContinuations,      \* how often a run asks for another one
  MaxPushes, MaxFailures \* bound the pushes and the failed jobs

VARIABLES
  main,      \* the commits of main
  verified,  \* the pushed commits whose CI passed
  tags,      \* the stable tags on the remote
  complete,  \* the versions whose GitHub release is complete
  branches,  \* the release branches on the remote
  proposals, \* the pull requests of the bot, and whether they are open
  job,       \* the run in progress
  waiting,   \* the run that waits in the concurrency group
  failures

rVars == <<main, verified, tags, complete, branches, proposals, job, waiting, failures>>

\* bump: whether the commit asks for a version; a merge has the version and the source of
\* the release it merges.
Push(bump) == [bump |-> bump, version |-> 0, source |-> 0]
Merged(release) == [bump |-> FALSE, version |-> release.version, source |-> release.source]
IsMerge(i) == main[i].version > 0
Commits == DOMAIN main

Releases == [version : 1..MaxPushes, source : 1..(2 * MaxPushes)]
Tags == [version : 1..MaxPushes, source : 1..(2 * MaxPushes), merge : 1..(2 * MaxPushes)]
Release(version, source) == [version |-> version, source |-> source]
TagOf(i) == [version |-> main[i].version, source |-> main[i].source, merge |-> i]
Base(tag) == tag.merge - 1

Requests == [source : 1..(2 * MaxPushes), count : 0..MaxContinuations]
\* A job: what it was asked for, the version it works on, and what it answered.
JobSteps == {"start", "clean", "planned", "branched", "proposed", "mergeable", "merged",
             "tagged", "published", "answered"}
Job(request) == [pc |-> "start", request |-> request, release |-> None, publish |-> FALSE, more |-> FALSE]
JobAt(pc) == job # None /\ job.pc = pc
Goto(pc) == job' = [job EXCEPT !.pc = pc]
Source == job.request.source

-----------------------------------------------------------------------------
(* main, CI and the concurrency group.                                         *)

PushCommit(bump) ==
  /\ Cardinality({i \in Commits : ~IsMerge(i)}) < MaxPushes
  /\ main' = Append(main, Push(bump))
  /\ UNCHANGED <<verified, tags, complete, branches, proposals, job, waiting, failures>>

\* A run that is queued replaces the one that waits.
Queue(request) == waiting' = request

\* The CI of a push ends; the CI of an older push may have been cancelled.  The merge of
\* a release skips CI.
CiPasses(i) ==
  /\ i \in Commits \ verified /\ ~IsMerge(i) /\ \A j \in verified : j < i
  /\ verified' = verified \cup {i} /\ Queue([source |-> i, count |-> 0])
  /\ UNCHANGED <<main, tags, complete, branches, proposals, job, failures>>

StartJob ==
  /\ job = None /\ waiting # None /\ job' = Job(waiting) /\ waiting' = None
  /\ UNCHANGED <<main, verified, tags, complete, branches, proposals, failures>>

\* A step of a job fails, or the job runs out of time.
JobFails ==
  /\ job # None /\ failures < MaxFailures /\ failures' = failures + 1 /\ job' = None
  /\ UNCHANGED <<main, verified, tags, complete, branches, proposals, waiting>>

-----------------------------------------------------------------------------
(* runAutomaticRelease.                                                        *)

\* cleanupOrphanedReleasePullRequests: what another source left open is closed.
CleanUp ==
  /\ JobAt("start") /\ Goto("clean")
  /\ LET orphans == {p \in proposals : p.open /\ p.release.source # Source} IN
       /\ proposals' = {IF p \in orphans THEN [p EXCEPT !.open = FALSE] ELSE p : p \in proposals}
       /\ branches' = branches \ {p.release : p \in orphans}
  /\ UNCHANGED <<main, verified, tags, complete, waiting, failures>>

Oldest(set) == CHOOSE t \in set : \A u \in set : t.version <= u.version
Latest(set) == CHOOSE t \in set : \A u \in set : u.version <= t.version

\* releaseResult: the answer publishes a release that is not complete.
Answer(release, more) ==
  job' = [job EXCEPT !.pc = "tagged", !.release = release, !.more = more,
                     !.publish = release.version \notin complete]

\* findOldestIncompleteStableRelease.
Incomplete == {t \in tags : t.version \notin complete}

RepairIncomplete ==
  /\ JobAt("clean") /\ Incomplete # {}
  /\ Answer(Release(Oldest(Incomplete).version, Oldest(Incomplete).source), TRUE)
  /\ UNCHANGED <<main, verified, tags, complete, branches, proposals, waiting, failures>>

\* findReleaseCoveringSource: the base of the latest release has the source.
Covered == tags # {} /\ Source <= Base(Latest(tags))
AnswerCovered ==
  /\ JobAt("clean") /\ Incomplete = {} /\ Covered
  /\ LET t == Latest(tags) IN Answer(Release(t.version, t.source), Base(t) # t.source)
  /\ UNCHANGED <<main, verified, tags, complete, branches, proposals, waiting, failures>>

\* findPendingReleaseMerge: merged after the latest tag, and not tagged.
Pending(known) ==
  LET since == IF known = {} THEN 0 ELSE Latest(known).source IN
    {TagOf(i) : i \in {i \in Commits : IsMerge(i) /\ i > since /\ TagOf(i) \notin known}}

\* createAndPushTag: the tag is put on the version commit, whose parent is the source.
SlipPushTag(merge) == tags' = tags \cup {[TagOf(merge) EXCEPT !.source = merge - 1]}
PushTag(merge) == tags' = tags \cup {TagOf(merge)}

TagPending ==
  /\ JobAt("clean") /\ Incomplete = {} /\ ~Covered /\ Pending(tags) # {}
  /\ LET t == Oldest(Pending(tags)) IN
       /\ PushTag(t.merge)
       /\ branches' = branches \ {Release(t.version, t.source)}
       /\ Answer(Release(t.version, t.source),
                 Pending(tags \cup {t}) # {} \/ Base(t) # t.source \/ Source > Base(t))
  /\ UNCHANGED <<main, verified, complete, proposals, waiting, failures>>

\* The tags the source descends from, and the commits since the latest of them.
Baseline == {t \in tags : t.merge <= Source}
Since == IF Baseline = {} THEN 0 ELSE Latest(Baseline).source
Releasable == \E i \in (Since + 1)..Source : main[i].bump
PlannedVersion == IF Baseline = {} THEN 1 ELSE Latest(Baseline).version + 1
\* The version in the source's manifest is that of the baseline.
ManifestAgrees ==
  Max({0} \cup {main[i].version : i \in 1..Source}) = PlannedVersion - 1

NothingElseToDo == JobAt("clean") /\ Incomplete = {} /\ ~Covered /\ Pending(tags) = {}

\* createStableReleasePlan: a plan of the next version, none, or an error.
PlanIs(status) ==
  ManifestAgrees /\ status = IF Releasable THEN "ready" ELSE "skipped"

\* createReleaseCommit: the same plan gives the same commit.
Plan ==
  /\ NothingElseToDo /\ PlanIs("ready")
  /\ job' = [job EXCEPT !.pc = "planned", !.release = Release(PlannedVersion, Source)]
  /\ UNCHANGED <<main, verified, tags, complete, branches, proposals, waiting, failures>>

SkipRelease ==
  /\ NothingElseToDo /\ PlanIs("skipped") /\ Goto("answered")
  /\ UNCHANGED <<main, verified, tags, complete, branches, proposals, waiting, failures>>

EnsureBranch ==
  /\ JobAt("planned") /\ Goto("branched") /\ branches' = branches \cup {job.release}
  /\ UNCHANGED <<main, verified, tags, complete, proposals, waiting, failures>>

\* createOrRecoverPullRequest: the one of the branch is used, and opened again.
ProposeRelease ==
  /\ JobAt("branched") /\ Goto("proposed")
  /\ proposals' = {p \in proposals : p.release # job.release} \cup {[release |-> job.release, open |-> TRUE]}
  /\ UNCHANGED <<main, verified, tags, complete, branches, waiting, failures>>

\* waitForMergeablePullRequest: main is still the source.
CheckMergeable ==
  /\ JobAt("proposed") /\ Len(main) = Source /\ Goto("mergeable")
  /\ UNCHANGED <<main, verified, tags, complete, branches, proposals, waiting, failures>>

\* closeStalePullRequest: main advanced; the run asks for another one.
CloseStale ==
  /\ JobAt("proposed") /\ Len(main) # Source
  /\ job' = [job EXCEPT !.pc = "answered", !.more = TRUE]
  /\ proposals' = {IF p.release = job.release THEN [p EXCEPT !.open = FALSE] ELSE p : p \in proposals}
  /\ branches' = branches \ {job.release}
  /\ UNCHANGED <<main, verified, tags, complete, waiting, failures>>

\* mergeReleasePullRequest: onto whatever main is by then.
MergeRelease ==
  /\ JobAt("mergeable") /\ Goto("merged") /\ main' = Append(main, Merged(job.release))
  /\ proposals' = {p \in proposals : p.release # job.release}
  /\ UNCHANGED <<verified, tags, complete, branches, waiting, failures>>

\* inspectReleaseMerge, completeRelease.
TagMerged ==
  /\ JobAt("merged")
  /\ LET merge == CHOOSE i \in Commits : main[i] = Merged(job.release) IN
       PushTag(merge) /\ Answer(job.release, merge - 1 # job.release.source)
  /\ branches' = branches \ {job.release}
  /\ UNCHANGED <<main, verified, complete, proposals, waiting, failures>>

-----------------------------------------------------------------------------
(* The jobs after it (auto-release.yml).                                       *)

\* build, reproducibility, verify and publish; a release that is there is repaired.
PublishRelease ==
  /\ JobAt("tagged") /\ job.publish /\ Goto("published") /\ complete' = complete \cup {job.release.version}
  /\ UNCHANGED <<main, verified, tags, branches, proposals, waiting, failures>>

NothingToPublish ==
  /\ JobAt("tagged") /\ ~job.publish /\ Goto("answered")
  /\ UNCHANGED <<main, verified, tags, complete, branches, proposals, waiting, failures>>

Continued == [job.request EXCEPT !.count = @ + 1]

\* One of them fails; the first run of a push asks for another one.
PublishFails ==
  /\ JobAt("tagged") /\ job.publish /\ failures < MaxFailures /\ failures' = failures + 1 /\ job' = None
  /\ IF job.request.count = 0 THEN Queue(Continued) ELSE UNCHANGED waiting
  /\ UNCHANGED <<main, verified, tags, complete, branches, proposals>>

\* continuation: another run for the same source.
EndJob ==
  /\ JobAt("published") \/ JobAt("answered")
  /\ job' = None
  /\ IF job.more /\ job.request.count < MaxContinuations THEN Queue(Continued) ELSE UNCHANGED waiting
  /\ UNCHANGED <<main, verified, tags, complete, branches, proposals, failures>>

-----------------------------------------------------------------------------
ReleaseInit == /\ main = <<Push(TRUE)>> /\ verified = {} /\ tags = {} /\ complete = {} /\ branches = {}
        /\ proposals = {} /\ job = None /\ waiting = None /\ failures = 0

JobStep ==
  \/ CleanUp \/ RepairIncomplete \/ AnswerCovered \/ TagPending \/ Plan \/ SkipRelease
  \/ EnsureBranch \/ ProposeRelease \/ CheckMergeable \/ CloseStale \/ MergeRelease \/ TagMerged
  \/ PublishRelease \/ NothingToPublish \/ EndJob

ReleaseNext ==
  \/ \E bump \in BOOLEAN : PushCommit(bump)
  \/ \E i \in Commits : CiPasses(i)
  \/ StartJob \/ JobFails \/ PublishFails \/ JobStep

ReleaseSpec == ReleaseInit /\ [][ReleaseNext]_rVars

-----------------------------------------------------------------------------
ReleaseTypeOK ==
  /\ main \in Seq([bump : BOOLEAN, version : 0..MaxPushes, source : 0..(2 * MaxPushes)])
  /\ verified \subseteq Commits /\ tags \subseteq Tags /\ complete \subseteq 1..MaxPushes
  /\ branches \subseteq Releases /\ proposals \subseteq [release : Releases, open : BOOLEAN]
  /\ job \in [pc : JobSteps, request : Requests, release : Releases \cup {None},
              publish : BOOLEAN, more : BOOLEAN] \cup {None}
  /\ waiting \in Requests \cup {None} /\ failures \in 0..MaxFailures

\* A tag holds nothing but what CI passed, also when main advances between the check and
\* the merge, and when another run finishes the release (createAndPushTag).
TagIsVerified == \A t \in tags : t.source \in verified

\* Versions are published in their order, whatever run died before (runAutomaticRelease).
PublishedInOrder ==
  \A t \in tags, u \in tags :
    (t.version < u.version /\ u.version \in complete) => t.version \in complete
=============================================================================
