---------------------------- MODULE MCGitHubEvents ----------------------------
(* Small instances of GitHubEvents for TLC.                                 *)
EXTENDS GitHubEvents, TLC

CONSTANTS h1, h2,     \* two commits
          main, dev,  \* two base branches
          v1,         \* a tag
          shown,      \* a label
          p, q        \* two names

Stable == (h1 :> p) @@ (h2 :> p)
PerCommit == (h1 :> p) @@ (h2 :> q)

Branch(name) == [type |-> "heads", name |-> name]
Tag(name) == [type |-> "tags", name |-> name]
TwoRefs == {Branch(main), Tag(v1)}

Hook(version, action, push, pullRequest, names) ==
  [version |-> version, action |-> action, push |-> push,
   pullRequest |-> pullRequest, names |-> names]
PullRequest(types, branches, labels) ==
  [types |-> types, branches |-> branches, labels |-> labels]
AnyPullRequest == PullRequest({}, NoFilter, NoFilter)
OnlyMain == [include |-> {{main}}, exclude |-> {}]
NotMain == [include |-> {}, exclude |-> {{main}}]
OnlyShown == [include |-> {{shown}}, exclude |-> {}]

\* A hook for labelled pull requests before one of the old Webhooks, one that
\* only updates before one that takes everything, one that only creates.
PullRequestLists ==
  { << Hook("beta", "", NoPush,
            PullRequest({"labeled", "synchronize", "closed"}, NoFilter, OnlyShown), Stable),
       Hook("alpha", "", NoPush, PullRequest({}, OnlyMain, NoFilter), PerCommit) >>,
    << Hook("beta", "update", NoPush, PullRequest({}, NotMain, NoFilter), Stable),
       Hook("beta", "", NoPush, AnyPullRequest, Stable) >>,
    << Hook("beta", "create", NoPush, AnyPullRequest, PerCommit) >> }

\* Pushes: tags alone, branches alone, both without filters; with and without
\* pull requests, before one of the old Webhooks.
PushLists ==
  { << Hook("beta", "", [branches |-> NoFilter, tags |-> NotMain], AnyPullRequest, Stable) >>,
    << Hook("beta", "", [branches |-> NotMain, tags |-> NoFilter], NoPullRequest, PerCommit),
       Hook("beta", "", [branches |-> NoFilter, tags |-> NoFilter], NoPullRequest, Stable),
       Hook("alpha", "", NoPush, PullRequest({}, OnlyMain, NoFilter), PerCommit) >> }

Budget(lists, amounts) == [hooks : lists, left : {amounts}]
SmallBudgets ==
  Budget(PullRequestLists, [events |-> 3, pushes |-> 0, requests |-> 3, faults |-> 1])
  \cup Budget(PushLists, [events |-> 2, pushes |-> 2, requests |-> 2, faults |-> 1])
=============================================================================
