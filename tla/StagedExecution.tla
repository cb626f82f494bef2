--------------------------- MODULE StagedExecution ---------------------------
(***************************************************************************)
(* The container backends (docker_job.py, executor_docker.py, runner.py):  *)
(* a job copies the workspace without its blocked paths, runs a container  *)
(* on the copy, and copies every entry of the copy back over the workspace.*)
(*                                                                         *)
(* The runner has one job at a time.  The gateway's own Docker backend     *)
(* runs the jobs of a workspace side by side, one thread each.             *)
(*                                                                         *)
(* A workspace is two levels deep: an entry is at <<n>> or at <<n, m>>.    *)
(***************************************************************************)
EXTENDS Naturals, Sequences, FiniteSets

CONSTANTS
    StagedJobs,     \* jobs
    Fixture,        \* the writer of what was there before
    Paths,          \* where an entry may be
    BlockedPaths,   \* blocked_paths of the task's scope
    OneAtATime,     \* TRUE for the runner, FALSE for the Docker backend
    MaxWrites       \* bound on what a container writes

VARIABLES
    host,      \* the workspace: an entry at each path
    job,       \* per job: how far it is, its operation and its receipt
    copy,      \* per job: its copy of the workspace
    todo,      \* per job: the paths a pass over the tree has not reached
    wrote,     \* history, per job: the paths its container changed
    refused    \* per job: what the copy back refused

stagedVars == <<host, job, copy, todo, wrote, refused>>

Nothing == [kind |-> "none", of |-> Fixture, to |-> <<>>]
Dir     == [kind |-> "dir",  of |-> Fixture, to |-> <<>>]
File(w) == [kind |-> "file", of |-> w,       to |-> <<>>]
Link(p) == [kind |-> "link", of |-> Fixture, to |-> p]

Tops     == {p \in Paths : Len(p) = 1}
Parent(p) == SubSeq(p, 1, Len(p) - 1)
Below(p) == {q \in Paths : Len(q) > Len(p) /\ SubSeq(q, 1, Len(p)) = p}
Exists(tree, p) == tree[p].kind # "none"

ASSUME StagedAssumption ==
    /\ \A p \in Paths : p \in Tops \/ (Len(p) = 2 /\ Parent(p) \in Tops)
    /\ BlockedPaths \subseteq Paths \ Tops
    /\ OneAtATime \in BOOLEAN

\* The blocked paths are files of the fixture; another directory is there,
\* or is a link to the one that holds them.
StagedInit ==
    /\ \E other \in {Dir} \cup {Link(Parent(b)) : b \in BlockedPaths} :
         host = [p \in Paths |->
           CASE \E b \in BlockedPaths : p = Parent(b) -> Dir
             [] p \in BlockedPaths -> File(Fixture)
             [] p \in Tops /\ ~\E b \in BlockedPaths : p = Parent(b) -> other
             [] OTHER -> IF other = Dir THEN File(Fixture) ELSE Nothing]
    /\ \E o \in [StagedJobs -> {"read_text", "write_text", "run_command"}] :
         job = [j \in StagedJobs |->
                  [at |-> "new", operation |-> o[j], receipt |-> "none"]]
    /\ copy = [j \in StagedJobs |-> [p \in Paths |-> Nothing]]
    /\ todo = [j \in StagedJobs |-> {}]
    /\ wrote = [j \in StagedJobs |-> {}]
    /\ refused = [j \in StagedJobs |-> {}]

-----------------------------------------------------------------------------
(* Paths and trees. *)

\* _is_blocked, _contains_blocked
IsBlocked(p) == \E b \in BlockedPaths : p = b \/ p \in Below(b)

ContainsBlocked(p) == \E b \in BlockedPaths : b \in Below(p)

\* Where a path leads when the directory it goes through is a link.
Landing(tree, p) ==
    IF Len(p) = 2 /\ tree[Parent(p)].kind = "link"
    THEN tree[Parent(p)].to \o <<p[2]>> ELSE p

\* Putting a file or a link where a directory is removes what is below it.
Put(tree, p, entry) ==
    [q \in Paths |-> CASE q = p -> entry
                       [] q \in Below(p) /\ entry.kind # "dir" -> Nothing
                       [] OTHER -> tree[q]]

Advance(j, phase) == job' = [job EXCEPT ![j].at = phase]

\* The receipt is made and the copy is removed.
Close(j, status) ==
    /\ job' = [job EXCEPT ![j].at = "over", ![j].receipt = status]
    /\ copy' = [copy EXCEPT ![j] = [p \in Paths |-> Nothing]]
    /\ todo' = [todo EXCEPT ![j] = {}]

-----------------------------------------------------------------------------
(* stage_workspace_copy: one entry after the other, a directory before what *)
(* is in it.  Blocked names stay out, and links that lead to one.          *)

Busy == {j \in StagedJobs : job[j].at \notin {"new", "over"}}

\* Mutant of MayStart: a server with a thread per request.
MayAlwaysStart == TRUE

\* HTTPServer handles a request before it takes the next one.
MayStart == OneAtATime => Busy = {}

BeginStaging(j) ==
    /\ job[j].at = "new" /\ MayStart
    /\ Advance(j, "staging")
    /\ todo' = [todo EXCEPT ![j] = Paths]
    /\ UNCHANGED <<host, copy, wrote, refused>>

\* A link is copied as a link, unless it leads below a blocked path.
Dropped(p) ==
    \/ IsBlocked(p)
    \/ host[p].kind = "link" /\ IsBlocked(host[p].to)

StageEntry(j, p) ==
    /\ job[j].at = "staging"
    /\ p \in todo[j] /\ Parent(p) \notin todo[j]
    /\ todo' = [todo EXCEPT ![j] = @ \ {p}]
    /\ copy' = [copy EXCEPT ![j][p] =
         IF Dropped(p) \/ (Len(p) = 2 /\ copy[j][Parent(p)].kind # "dir")
         THEN Nothing ELSE host[p]]
    /\ UNCHANGED <<host, job, wrote, refused>>

StartContainer(j) ==
    /\ job[j].at = "staging" /\ todo[j] = {}
    /\ Advance(j, "running")
    /\ UNCHANGED <<host, copy, todo, wrote, refused>>

-----------------------------------------------------------------------------
(* The container, on its copy.  write_text writes one file; a command may   *)
(* do anything to the copy, a blocked name included.                        *)

Changed(j, tree) == {p \in Paths : tree[p] # copy[j][p]}

Writes(j, tree) ==
    /\ Cardinality(wrote[j]) < MaxWrites
    /\ Changed(j, tree) # {}
    /\ copy' = [copy EXCEPT ![j] = tree]
    /\ wrote' = [wrote EXCEPT ![j] = @ \cup Changed(j, tree)]

WriteText(j, p) ==
    /\ job[j].at = "running" /\ job[j].operation = "write_text"
    /\ LET q == Landing(copy[j], p) IN
         /\ q \in Paths /\ ~IsBlocked(q)
         /\ copy[j][q].kind \in {"none", "file"}
         /\ Len(q) = 2 => copy[j][Parent(q)].kind = "dir"
         /\ Writes(j, Put(copy[j], q, File(j)))
    /\ Advance(j, "ran")
    /\ UNCHANGED <<host, todo, refused>>

RunCommand(j, p) ==
    /\ job[j].at = "running" /\ job[j].operation = "run_command"
    /\ Len(p) = 2 => copy[j][Parent(p)].kind = "dir"
    /\ \E entry \in {File(j), Nothing} \cup
                    (IF Len(p) = 1 THEN {Dir} \cup {Link(q) : q \in Tops \ {p}}
                     ELSE {}) :
         Writes(j, Put(copy[j], p, entry))
    /\ UNCHANGED <<host, job, todo, refused>>

\* The container ends by itself.
EndContainer(j) ==
    /\ job[j].at = "running" /\ job[j].operation # "write_text"
    /\ Advance(j, "ran")
    /\ UNCHANGED <<host, copy, todo, wrote, refused>>

\* Staging fails; the container fails, outlives its limit or prints too much.
FailContainer(j) ==
    /\ job[j].at \in {"staging", "running", "ran"}
    /\ Close(j, "FAILED")
    /\ UNCHANGED <<host, wrote, refused>>

-----------------------------------------------------------------------------
(* sync_copy_back, after a write_text or a run_command.                    *)

Present(j) == {p \in Paths : Exists(copy[j], p)}

CopiesBack(j) == job[j].operation \in {"write_text", "run_command"}

\* The size of the copy is checked before anything is copied: see
\* FailContainer for a copy that is too large.
BeginCopyBack(j) ==
    /\ job[j].at = "ran" /\ CopiesBack(j)
    /\ Advance(j, "copying")
    /\ todo' = [todo EXCEPT ![j] = Present(j)]
    /\ UNCHANGED <<host, copy, wrote, refused>>

\* Mutant of Protected: only the name of the entry itself counts.
ProtectedByName(p) == IsBlocked(p)

\* A file or a link never replaces what is blocked or holds it.
Protected(p) == IsBlocked(p) \/ ContainsBlocked(p)

\* _dest_dir_allowed: the destination is a directory or will be one.
RealDirectory(p) == host[p].kind \in {"none", "dir"}

Reached(j, p) == p \in todo[j] /\ Parent(p) \notin todo[j]

\* The walk has nothing more to do below an entry that is refused.
RefuseEntry(j, p) ==
    /\ job[j].at = "copying" /\ Reached(j, p)
    /\ IF copy[j][p].kind = "dir" THEN IsBlocked(p) \/ ~RealDirectory(p)
       ELSE Protected(p)
    /\ refused' = [refused EXCEPT ![j] = @ \cup {p}]
    /\ todo' = [todo EXCEPT ![j] = @ \ ({p} \cup Below(p))]
    /\ UNCHANGED <<host, job, copy, wrote>>

MakeDirectory(j, p) ==
    /\ job[j].at = "copying" /\ Reached(j, p)
    /\ copy[j][p].kind = "dir" /\ ~IsBlocked(p) /\ RealDirectory(p)
    /\ host' = [host EXCEPT ![p] = IF @.kind = "none" THEN Dir ELSE @]
    /\ todo' = [todo EXCEPT ![j] = @ \ {p}]
    /\ UNCHANGED <<job, copy, wrote, refused>>

\* The directory was checked when the walk came to it: by now it may be a
\* link, which the copy follows.
CopyEntry(j, p) ==
    /\ job[j].at = "copying" /\ Reached(j, p)
    /\ copy[j][p].kind # "dir" /\ ~Protected(p)
    /\ LET q == Landing(host, p) IN
         /\ Len(q) = 2 => host[Parent(q)].kind = "dir"
         /\ host' = Put(host, q, copy[j][p])
    /\ todo' = [todo EXCEPT ![j] = @ \ {p}]
    /\ UNCHANGED <<job, copy, wrote, refused>>

\* An error midway: what is copied stays.
FailCopyBack(j) ==
    /\ job[j].at = "copying"
    /\ Close(j, "FAILED")
    /\ UNCHANGED <<host, wrote, refused>>

FinishStaged(j) ==
    /\ \/ job[j].at = "copying" /\ todo[j] = {}
       \/ job[j].at = "ran" /\ ~CopiesBack(j)
    /\ Close(j, "EXECUTED")
    /\ UNCHANGED <<host, wrote, refused>>

-----------------------------------------------------------------------------
StagedNext ==
    \E j \in StagedJobs :
        \/ BeginStaging(j) \/ StartContainer(j) \/ EndContainer(j)
        \/ FailContainer(j) \/ BeginCopyBack(j) \/ FailCopyBack(j) \/ FinishStaged(j)
        \/ \E p \in Paths :
             \/ StageEntry(j, p) \/ WriteText(j, p) \/ RunCommand(j, p)
             \/ RefuseEntry(j, p) \/ MakeDirectory(j, p) \/ CopyEntry(j, p)

StagedSpec == StagedInit /\ [][StagedNext]_stagedVars

-----------------------------------------------------------------------------
(* Properties. *)

\* Whatever a container leaves in its copy, directories turned into files or
\* links and links into directories, the blocked files of the workspace stay.
BlockedUntouched == \A b \in BlockedPaths : host[b] = File(Fixture)

\* The workspace changes only where the container of a job changed its copy,
\* so that a job cannot undo what another one was EXECUTED for.
ChangesAreOwn ==
    [][\A p \in Paths : host'[p] # host[p] =>
          \E j \in StagedJobs : job[j].at = "copying" /\ p \in wrote[j]]_stagedVars

\* What an EXECUTED write left in the workspace stays until a job that writes
\* there itself: "keeps both backends behaviourally identical"
\* (executor_docker.py), for the local backend writes only its target.
ExecutedWriteStays ==
    [][\A j \in StagedJobs, p \in Paths :
         /\ job[j].receipt = "EXECUTED" /\ p \in wrote[j]
         /\ host[p] = File(j) /\ host'[p] # host[p]
         => \E k \in StagedJobs : job[k].at = "copying" /\ p \in wrote[k]]_stagedVars

\* An EXECUTED receipt accounts for everything its container wrote: it is in
\* the workspace, or it is below an entry the receipt names as refused.
NothingDroppedSilently ==
    [][\A j \in StagedJobs :
         job[j].at = "copying" /\ job'[j].receipt = "EXECUTED" =>
           \A p \in wrote[j] :
               \/ ~Exists(copy[j], p)
               \/ host'[p] = copy[j][p]
               \/ \E r \in refused'[j] : p = r \/ p \in Below(r)]_stagedVars

\* The copy back brings what the container did, and nothing else.
CopyBackIsExact == ChangesAreOwn /\ NothingDroppedSilently

=============================================================================
