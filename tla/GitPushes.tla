------------------------------ MODULE GitPushes ------------------------------
(***************************************************************************)
(* The tools of the Manager that write to a GitHub repository, as calls    *)
(* that run at once: deploy_project (tools/deploy-project.ts) and the      *)
(* actions commitAndPush, createBranch and mergeBranch of github_ops       *)
(* (tools/github-ops.ts).  Each is a sequence of API calls without a lock; *)
(* what GitHub does with a call is external.  createRepo of github_ops is  *)
(* the call that deploy_project makes.                                     *)
(***************************************************************************)
EXTENDS Integers, FiniteSets

CONSTANTS
  Deploys,      \* calls of deploy_project
  Commits,      \* calls of commitAndPush
  Merges,       \* calls of mergeBranch
  Branches,     \* branches of the repository
  Main,         \* ... and its default branch
  MaxApiFaults  \* bound on API calls that fail

CommitIds == {"root"} \cup Deploys \cup Commits \cup Merges

ASSUME GitAssumption ==
  /\ Main \in Branches /\ MaxApiFaults \in Nat
  /\ "root" \notin Deploys \cup Commits \cup Merges
  /\ Deploys \cap Commits = {} /\ Deploys \cap Merges = {} /\ Commits \cap Merges = {}

VARIABLES
  repo,       \* "absent", "created" (auto_init still to come) or "ready"
  heads,      \* heads[b]: the head of the branches that exist
  history,    \* history[c]: the commits that commit c contains, its own included
  calls,      \* calls[x]: where a call is, its branch and its parent commit
  apiFaults   \* API calls that have failed (bounded by MaxApiFaults)

gitVars == <<repo, heads, history, calls, apiFaults>>

Steps == {"repo", "create", "poll", "parent", "commit", "ref", "create_ref", "done", "failed"}

GitTypeOK ==
  /\ repo \in {"absent", "created", "ready"}
  /\ DOMAIN heads \subseteq Branches /\ \A b \in DOMAIN heads : heads[b] \in CommitIds
  /\ (repo = "ready") <=> (Main \in DOMAIN heads)
  /\ history \in [CommitIds -> SUBSET CommitIds]
  /\ calls \in [CommitIds \ {"root"} -> [pc : Steps, branch : Branches, parent : CommitIds]]
  /\ apiFaults \in 0..MaxApiFaults

\* Each call has been given a branch; a merge has been given its base.
GitInit ==
  /\ \/ repo = "absent" /\ heads = [b \in {} |-> "root"]
     \/ repo = "ready" /\ heads = [b \in {Main} |-> "root"]
  /\ history = [c \in CommitIds |-> {c}]
  /\ calls \in [CommitIds \ {"root"} -> [pc : {"repo", "parent"}, branch : Branches, parent : {"root"}]]
  /\ \A x \in CommitIds \ {"root"} : calls[x].pc = (IF x \in Deploys THEN "repo" ELSE "parent")
  /\ apiFaults = 0

At(x, pc) == calls[x].pc = pc
Goes(x, pc) == calls' = [calls EXCEPT ![x].pc = pc]
Branch(x) == calls[x].branch
Exists(b) == b \in DOMAIN heads
Point(b, c) == heads' = [x \in DOMAIN heads \cup {b} |-> IF x = b THEN c ELSE heads[x]]

\* Any call can fail: the tool throws, and the Claude loop gets the error.
ApiFails(x) ==
  /\ calls[x].pc \notin {"done", "failed"} /\ apiFaults < MaxApiFaults
  /\ apiFaults' = apiFaults + 1
  /\ UNCHANGED <<repo, heads, history>>

Throws(x) ==
  /\ x \in Merges \/ calls[x].pc \notin {"parent", "ref"}
  /\ ApiFails(x) /\ Goes(x, "failed")

-----------------------------------------------------------------------------
(* deploy_project.                                                         *)

\* repos.get: 404 and createRepo, or the caller did not allow to create it.
GetRepo(x) ==
  /\ At(x, "repo")
  /\ IF repo # "absent" THEN Goes(x, "parent") ELSE Goes(x, "create") \/ Goes(x, "failed")
  /\ UNCHANGED <<repo, heads, history, apiFaults>>

\* createForAuthenticatedUser: the name may have been taken meanwhile.
CreateRepo(x) ==
  /\ At(x, "create")
  /\ IF repo = "absent" THEN repo' = "created" /\ Goes(x, "poll")
     ELSE UNCHANGED repo /\ Goes(x, "failed")
  /\ UNCHANGED <<heads, history, apiFaults>>

AutoInit ==
  /\ repo = "created" /\ repo' = "ready" /\ Point(Main, "root")
  /\ UNCHANGED <<history, calls, apiFaults>>

\* The default branch is there, or six polls were not enough.
PollEnds(x) ==
  /\ At(x, "poll") /\ Goes(x, "parent")
  /\ UNCHANGED <<repo, heads, history, apiFaults>>

ReadHead(x, b) ==
  IF Exists(b) THEN calls' = [calls EXCEPT ![x].pc = "commit", ![x].parent = heads[b]]
  ELSE Goes(x, "failed")

\* When the head of the branch cannot be read, for whatever reason, that of the
\* default branch becomes the parent.
DeployReadsParent(x) ==
  /\ x \in Deploys /\ At(x, "parent")
  /\ \/ /\ ReadHead(x, IF Exists(Branch(x)) THEN Branch(x) ELSE Main)
        /\ UNCHANGED <<repo, heads, history, apiFaults>>
     \/ ReadHead(x, Main) /\ ApiFails(x)

\* createTree on the parent's tree and createCommit with one parent.
CommitOn(x) == {x} \cup history[calls[x].parent]

CreateCommit(x) ==
  /\ At(x, "commit") /\ Goes(x, "ref")
  /\ history' = [history EXCEPT ![x] = CommitOn(x)]
  /\ UNCHANGED <<repo, heads, apiFaults>>

ForcedUpdate(x) == TRUE  \* mutant
\* updateRef without force: GitHub refuses what is not a fast-forward.
FastForward(x) == heads[Branch(x)] \in history[x]

\* Of a deployment a refused update is followed by createRef.
UpdateRef(x) ==
  LET refused == IF x \in Deploys THEN "create_ref" ELSE "failed" IN
  /\ At(x, "ref")
  /\ \/ /\ IF Exists(Branch(x)) /\ FastForward(x) THEN Point(Branch(x), x) /\ Goes(x, "done")
           ELSE UNCHANGED heads /\ Goes(x, refused)
        /\ UNCHANGED <<repo, history, apiFaults>>
     \/ ApiFails(x) /\ Goes(x, refused)

\* createRef is refused for a branch that exists.
Creates(b) == ~Exists(b)

CreateRef(x) ==
  /\ At(x, "create_ref")
  /\ IF Creates(Branch(x)) THEN Point(Branch(x), x) /\ Goes(x, "done")
     ELSE UNCHANGED heads /\ Goes(x, "failed")
  /\ UNCHANGED <<repo, history, apiFaults>>

-----------------------------------------------------------------------------
(* github_ops.                                                             *)

\* commitAndPush: blobs, then the head of the branch.
PushReadsParent(x) ==
  /\ x \in Commits /\ At(x, "parent") /\ repo # "absent"
  /\ \/ ReadHead(x, Branch(x)) /\ UNCHANGED <<repo, heads, history, apiFaults>>
     \/ ApiFails(x) /\ Goes(x, "failed")

\* createBranch: the head of fromBranch as it was read, perhaps some time ago.
CreateBranch(b, from) ==
  /\ Exists(from) /\ Creates(b)
  /\ \E c \in history[heads[from]] : Point(b, c)
  /\ UNCHANGED <<repo, history, calls, apiFaults>>

\* mergeBranch: one call; GitHub makes the merge commit.
MergeBranch(x, head) ==
  /\ x \in Merges /\ At(x, "parent") /\ Exists(Branch(x)) /\ Exists(head) /\ head # Branch(x)
  /\ history' = [history EXCEPT ![x] = {x} \cup history[heads[Branch(x)]] \cup history[heads[head]]]
  /\ Point(Branch(x), x) /\ Goes(x, "done")
  /\ UNCHANGED <<repo, apiFaults>>

GitNext ==
  \/ AutoInit
  \/ \E x \in DOMAIN calls :
       \/ Throws(x) \/ GetRepo(x) \/ CreateRepo(x) \/ PollEnds(x)
       \/ DeployReadsParent(x) \/ PushReadsParent(x) \/ CreateCommit(x)
       \/ UpdateRef(x) \/ CreateRef(x)
       \/ \E head \in Branches : MergeBranch(x, head)
  \/ \E b, from \in Branches : CreateBranch(b, from)

GitSpec == GitInit /\ [][GitNext]_gitVars

-----------------------------------------------------------------------------
(* Properties.                                                             *)

\* No push loses a commit: what a call has reported as done is part of its
\* branch for ever, through every other deployment, push and merge.
PushesStay ==
  \A x \in DOMAIN calls : At(x, "done") => Exists(Branch(x)) /\ x \in history[heads[Branch(x)]]

\* A branch only ever moves forward: also a deployment whose read of the branch
\* failed, and which therefore builds on the default branch, cannot move it back.
HistoryKept ==
  [][\A b \in DOMAIN heads : b \in DOMAIN heads' /\ heads[b] \in history'[heads'[b]]]_gitVars
=============================================================================
