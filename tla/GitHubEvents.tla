------------------------------ MODULE GitHubEvents ------------------------------
(***************************************************************************)
(* The webhook's GitHub handler (internal/webhook/github): deliveries of   *)
(* the events of one repository, its pushes and one pull request, each     *)
(* handled by a goroutine of its own. A delivery goes through the hooks of *)
(* the repository, GitHubWebhooks before the old Webhooks, which take no   *)
(* pushes; a hook that accepts the event applies or deletes its previews   *)
(* (ResourceTemplates, or ResourceSets for a Webhook); the first hook that *)
(* fails ends the delivery.                                                *)
(*                                                                         *)
(* GitHub promises little: deliveries overlap, overtake each other, get    *)
(* lost, and can be sent again by hand.                                    *)
(***************************************************************************)
EXTENDS Naturals, Sequences, FiniteSets

CONSTANTS
  Budgets,     \* the lists of hooks that the repository may have, each with
               \* bounds on events, on pushes among them, on requests, and on
               \* failed API calls
  Heads, Bases, Labels, Names,
  Refs,        \* the refs that are pushed: a type and a name each
  InitialHeads, \* heads that a new pull request may have
  NoFilter, NoPreview, NoLabel,
  NoPush, NoPullRequest  \* a hook without push, without pullRequest

Amounts == [events : Nat, pushes : Nat, requests : Nat, faults : Nat]

ASSUME BudgetsAssumption == \A budget \in Budgets : budget.left \in Amounts
ASSUME HeadsAssumption == InitialHeads \subseteq Heads

\* A list of hooks, GitHubWebhooks first. The name of a preview is one of Names.
ASSUME HooksAssumption ==
  \A budget \in Budgets :
    /\ budget.hooks \in Seq({budget.hooks[h] : h \in DOMAIN budget.hooks})
    /\ \A h \in DOMAIN budget.hooks :
         /\ budget.hooks[h].names \in [Heads -> Names]
         /\ \A k \in DOMAIN budget.hooks :
              budget.hooks[h].version = "alpha" /\ h < k => budget.hooks[k].version = "alpha"

VARIABLES
  hooks,    \* the hooks, in the order of handlePullRequestEvent
  pr,       \* the pull request: its state, head, base and labels
  sent,     \* the events GitHub has sent or will send
  requests, \* the deliveries that arrived, in order of arrival
  previews, \* previews[h][n]: the object named n that hook h wrote
  left      \* what is left of the bounds

vars == <<hooks, pr, sent, requests, previews, left>>

\* One less.
Spend(what) == left[what] > 0 /\ left' = [left EXCEPT ![what] = @ - 1]

-----------------------------------------------------------------------------
(* Which events a hook accepts                                             *)

defaultPullRequestTypes == {"opened", "synchronize", "reopened", "closed"}

\* A condition, a name or a regular expression, is the set of what it matches.
FilterByConditions(conditions, input) == \E c \in conditions : input \in c

FilterWebhook(filter, inputs) ==
  filter # NoFilter =>
    /\ filter.include # {} => \E x \in inputs : FilterByConditions(filter.include, x)
    /\ \A x \in inputs : ~FilterByConditions(filter.exclude, x)

\* The label just put on or taken off hides those of the pull request.
PullRequestEventLabels(e) == IF e.label # NoLabel THEN {e.label} ELSE e.labels

AcceptsPullRequest(filter, e) ==
  /\ filter # NoPullRequest
  /\ e.action \in (IF filter.types = {} THEN defaultPullRequestTypes ELSE filter.types)
  /\ FilterWebhook(filter.branches, {e.base})
  /\ FilterWebhook(filter.labels, PullRequestEventLabels(e))

ParseRef(ref) == ref.type \in {"heads", "tags"}

MutAcceptsPush(filter, e) ==
  /\ filter # NoPush
  /\ FilterWebhook(IF e.ref.type = "heads" THEN filter.branches ELSE filter.tags,
                   {e.ref.name})
\* Without filters every branch is accepted and no tag; a filter for tags alone
\* turns the branches off.
AcceptsPush(filter, e) ==
  /\ filter # NoPush
  /\ ParseRef(e.ref)
  /\ \/ /\ e.ref.type = "heads"
        /\ filter.branches = NoFilter => filter.tags = NoFilter
        /\ FilterWebhook(filter.branches, {e.ref.name})
     \/ /\ e.ref.type = "tags"
        /\ filter.tags # NoFilter
        /\ FilterWebhook(filter.tags, {e.ref.name})

AcceptsAlpha(hook, e) ==
  /\ FilterWebhook(hook.pullRequest.branches, {e.base})
  /\ e.action \in defaultPullRequestTypes

Accepts(hook, e) ==
  CASE hook.version = "beta" /\ e.action = "push" -> AcceptsPush(hook.push, e)
    [] hook.version = "beta" /\ e.action # "push" -> AcceptsPullRequest(hook.pullRequest, e)
    [] hook.version = "alpha" -> e.action # "push" /\ AcceptsAlpha(hook, e)

\* spec.action of a GitHubWebhook, if there is one, decides for every event.
ActionOf(hook, e) ==
  IF hook.action # "" THEN hook.action
  ELSE IF e.action = "closed" THEN "delete" ELSE "apply"

\* The rendered name may depend on the event, here on the head commit.
NameOf(hook, e) == hook.names[e.head]

\* A ResourceTemplate holds the event, a ResourceSet the two commits.
Content(hook, e) ==
  IF hook.version = "beta" THEN e ELSE [head |-> e.head, base |-> e.base]

-----------------------------------------------------------------------------
Init ==
  /\ \E budget \in Budgets : hooks = budget.hooks /\ left = budget.left
  /\ pr \in [state : {"new"}, head : InitialHeads, base : Bases, labels : {{}}]
  /\ sent = {}
  /\ requests = <<>>
  /\ previews = [h \in DOMAIN hooks |-> [n \in Names |-> NoPreview]]

-----------------------------------------------------------------------------
(* GitHub                                                                  *)

Send(event) ==
  /\ sent' = sent \cup {event}
  /\ UNCHANGED <<hooks, requests, previews>>

\* Events are told apart by their number.
No == Cardinality(sent) + 1

\* Something happens to the pull request, and an event tells of it.
Emit(action, label, newPr) ==
  /\ Spend("events")
  /\ pr' = newPr
  /\ Send([no |-> No, action |-> action, label |-> label, head |-> newPr.head,
            base |-> newPr.base, labels |-> newPr.labels])

Open == pr.state = "new" /\ Emit("opened", NoLabel, [pr EXCEPT !.state = "open"])
Close == pr.state = "open" /\ Emit("closed", NoLabel, [pr EXCEPT !.state = "closed"])
Reopen == pr.state = "closed" /\ Emit("reopened", NoLabel, [pr EXCEPT !.state = "open"])
Synchronize(head) ==
  pr.state = "open" /\ pr.head # head /\ Emit("synchronize", NoLabel, [pr EXCEPT !.head = head])
Retarget(base) ==
  pr.state = "open" /\ pr.base # base /\ Emit("edited", NoLabel, [pr EXCEPT !.base = base])
AddLabel(l) ==
  /\ pr.state # "new" /\ l \notin pr.labels
  /\ Emit("labeled", l, [pr EXCEPT !.labels = @ \cup {l}])
RemoveLabel(l) ==
  /\ l \in pr.labels
  /\ Emit("unlabeled", l, [pr EXCEPT !.labels = @ \ {l}])

\* A branch or a tag is pushed. The repository sends such events if a hook
\* has been set up for them.
Push(ref, head) ==
  /\ \E h \in DOMAIN hooks : hooks[h].version = "beta" /\ hooks[h].push # NoPush
  /\ left.events > 0 /\ left.pushes > 0
  /\ left' = [left EXCEPT !.events = @ - 1, !.pushes = @ - 1]
  /\ Send([no |-> No, action |-> "push", ref |-> ref, head |-> head])
  /\ UNCHANGED pr

Running(i) == requests[i].pc \in {"hook", "patch"}

\* A delivery arrives: in any order, never, or more than once. "alone" tells
\* whether it has run without another one at its side so far.
Arrive(e) ==
  /\ Spend("requests")
  /\ requests' = Append([i \in DOMAIN requests |->
                           IF Running(i) THEN [requests[i] EXCEPT !.alone = FALSE]
                           ELSE requests[i]],
                        [event |-> e, hook |-> 1, pc |-> "hook",
                         alone |-> \A i \in DOMAIN requests : ~Running(i)])
  /\ UNCHANGED <<hooks, pr, sent, previews>>

-----------------------------------------------------------------------------
(* handlePullRequestEvent, handlePushEvent: one step for each call of the  *)
(* API server                                                              *)

Event(i) == requests[i].event
HookOf(i) == hooks[requests[i].hook]
Here(i) == previews[requests[i].hook][NameOf(HookOf(i), Event(i))]

Write(i, value) ==
  previews' = [previews EXCEPT ![requests[i].hook][NameOf(HookOf(i), Event(i))] = value]

MutNextHook(i) ==
  requests' = [requests EXCEPT ![i].hook = @ + 2, ![i].pc = "hook"]
NextHook(i) ==
  requests' = [requests EXCEPT ![i].hook = @ + 1, ![i].pc = "hook"]

AtHook(i) == requests[i].pc = "hook" /\ requests[i].hook \in DOMAIN hooks
Doing(i, actions) ==
  AtHook(i) /\ Accepts(HookOf(i), Event(i)) /\ ActionOf(HookOf(i), Event(i)) \in actions

MutSkip(i) ==
  /\ AtHook(i) /\ ~Accepts(HookOf(i), Event(i))
  /\ requests' = [requests EXCEPT ![i].pc = "ok"]
  /\ UNCHANGED <<hooks, pr, sent, previews, left>>
Skip(i) ==
  /\ AtHook(i) /\ ~Accepts(HookOf(i), Event(i))
  /\ NextHook(i)
  /\ UNCHANGED <<hooks, pr, sent, previews, left>>

Create(i) ==
  /\ Doing(i, {"create", "apply"})
  /\ Here(i) = NoPreview
  /\ Write(i, Content(HookOf(i), Event(i)))
  /\ NextHook(i)
  /\ UNCHANGED <<hooks, pr, sent, left>>

AlreadyExists(i) ==
  /\ Doing(i, {"create", "apply"})
  /\ Here(i) # NoPreview
  /\ IF ActionOf(HookOf(i), Event(i)) = "create" THEN NextHook(i)
     ELSE requests' = [requests EXCEPT ![i].pc = "patch"]
  /\ UNCHANGED <<hooks, pr, sent, previews, left>>

Patching(i) == requests[i].pc = "patch" \/ Doing(i, {"update"})

Patch(i) ==
  /\ Patching(i)
  /\ Here(i) # NoPreview
  /\ Write(i, Content(HookOf(i), Event(i)))
  /\ NextHook(i)
  /\ UNCHANGED <<hooks, pr, sent, left>>

\* The TriggerHandler calls that a success, applyResourceSet a failure.
PatchNotFound(i) ==
  /\ Patching(i)
  /\ Here(i) = NoPreview
  /\ IF HookOf(i).version = "beta" THEN NextHook(i)
     ELSE requests' = [requests EXCEPT ![i].pc = "broken"]
  /\ UNCHANGED <<hooks, pr, sent, previews, left>>

\* A GitHubWebhook deletes by the name it renders from the closing event, a
\* Webhook whatever carries its labels.
MutDelete(i) ==
  /\ Doing(i, {"delete"})
  /\ Write(i, NoPreview)
  /\ NextHook(i)
  /\ UNCHANGED <<hooks, pr, sent, left>>
Delete(i) ==
  /\ Doing(i, {"delete"})
  /\ IF HookOf(i).version = "beta" THEN Write(i, NoPreview)
     ELSE previews' = [previews EXCEPT ![requests[i].hook] = [n \in Names |-> NoPreview]]
  /\ NextHook(i)
  /\ UNCHANGED <<hooks, pr, sent, left>>

Finish(i) ==
  /\ requests[i].pc = "hook" /\ requests[i].hook \notin DOMAIN hooks
  /\ requests' = [requests EXCEPT ![i].pc = "ok"]
  /\ UNCHANGED <<hooks, pr, sent, previews, left>>

\* Any call may fail, and no later hook sees the event.
CallFails(i) ==
  /\ Running(i)
  /\ Spend("faults")
  /\ requests' = [requests EXCEPT ![i].pc = "broken"]
  /\ UNCHANGED <<hooks, pr, sent, previews>>

-----------------------------------------------------------------------------
Github ==
  \/ Open \/ Close \/ Reopen
  \/ \E head \in Heads : Synchronize(head)
  \/ \E base \in Bases : Retarget(base)
  \/ \E ref \in Refs, head \in Heads : Push(ref, head)
  \/ \E l \in Labels : AddLabel(l) \/ RemoveLabel(l)
  \/ \E e \in sent : Arrive(e)

Handle(i) ==
  \/ Skip(i) \/ Create(i) \/ AlreadyExists(i) \/ Patch(i) \/ PatchNotFound(i)
  \/ Delete(i) \/ Finish(i) \/ CallFails(i)

Next == Github \/ \E i \in DOMAIN requests : Handle(i)

Spec == Init /\ [][Next]_vars

-----------------------------------------------------------------------------
PullRequestEvents ==
  [no : 1 .. Cardinality(sent), label : Labels \cup {NoLabel}, labels : SUBSET Labels,
   action : defaultPullRequestTypes \cup {"edited", "labeled", "unlabeled"},
   head : Heads, base : Bases]
PushEvents == [no : 1 .. Cardinality(sent), action : {"push"}, ref : Refs, head : Heads]
Deliveries ==
  [event : sent, hook : 1 .. Len(hooks) + 1, pc : {"hook", "patch", "ok", "broken"},
   alone : BOOLEAN]

TypeOK ==
  /\ \E budget \in Budgets : hooks = budget.hooks
  /\ left \in Amounts
  /\ pr \in [state : {"new", "open", "closed"}, head : Heads, base : Bases,
             labels : SUBSET Labels]
  /\ \A e \in sent : e \in PullRequestEvents \cup PushEvents
  /\ requests \in Seq(Deliveries)
  /\ \A i \in DOMAIN requests : requests[i].pc = "patch" => requests[i].hook \in DOMAIN hooks
  /\ DOMAIN previews = DOMAIN hooks
  /\ \A h \in DOMAIN hooks : DOMAIN previews[h] = Names

-----------------------------------------------------------------------------
(* What a hook's last delivery leaves behind                               *)

\* Delivery i is the last that h accepted. It went well, and alone: nothing is
\* known of one that overlaps with another, since the later may write first.
Decides(i, h) ==
  /\ requests[i].pc = "ok" /\ requests[i].alone
  /\ Accepts(hooks[h], Event(i))
  /\ \A j \in i + 1 .. Len(requests) : ~Accepts(hooks[h], Event(j))

StableNames(hook) == \A x, y \in Heads : hook.names[x] = hook.names[y]

\* pull_request_beta.go:60, pull_request_alpha.go:144: whatever was lost, failed,
\* repeated or reordered before, a closing event that a hook accepts leaves no
\* preview of that hook, neither under the name of an older commit. A
\* GitHubWebhook needs names that do not change for that, a Webhook does not.
ClosedLeavesNothing ==
  \A h \in DOMAIN hooks : \A i \in DOMAIN requests :
    /\ Decides(i, h)
    /\ ActionOf(hooks[h], Event(i)) = "delete"
    /\ hooks[h].version = "beta" => StableNames(hooks[h])
    => \A n \in Names : previews[h][n] = NoPreview

\* pull_request.go:28: the hooks before it in the list, failed or not
\* interested, do not keep a hook from showing the last event that it accepted.
ShowsLatest ==
  \A h \in DOMAIN hooks : \A i \in DOMAIN requests :
    Decides(i, h) /\ ActionOf(hooks[h], Event(i)) = "apply"
    => previews[h][NameOf(hooks[h], Event(i))] = Content(hooks[h], Event(i))

\* website/docs/github-webhook.mdx:36: push and pullRequest activate a hook.
\* What a hook shows, whichever calls put it there, is an event of a kind that
\* it has been activated for; of the pushes a branch is shown where neither
\* filter is set or branches has a place for it, a tag where tags does
\* (push_beta.go:43).
Matches(filter, name) ==
  /\ filter # NoFilter
  /\ name \notin UNION filter.exclude
  /\ filter.include = {} \/ name \in UNION filter.include
Wanted(push, ref) ==
  IF ref.type = "tags" THEN Matches(push.tags, ref.name)
  ELSE \/ push.branches = NoFilter /\ push.tags = NoFilter
       \/ Matches(push.branches, ref.name)
ShowsWanted ==
  \A h \in DOMAIN hooks : \A n \in Names :
    LET preview == previews[h][n]
        hook == hooks[h]
    IN  hook.version = "beta" /\ preview # NoPreview =>
          IF preview.action = "push" THEN hook.push # NoPush /\ Wanted(hook.push, preview.ref)
          ELSE hook.pullRequest # NoPullRequest

\* website/versioned_docs/version-0.3/architecture.md:16: when a pull request is
\* closed, the webhook deletes the ResourceSets with its labels.
ClosingDeletes ==
  \A h \in DOMAIN hooks : \A i \in DOMAIN requests :
    /\ hooks[h].version = "alpha"
    /\ i = Len(requests) /\ requests[i].event.action = "closed"
    /\ requests[i].pc = "ok" /\ requests[i].alone
    => \A n \in Names : previews[h][n] = NoPreview
=============================================================================
