# Pullup: TLA+ models and proofs

Pullup copies and patches Kubernetes resources when a GitHub or an HTTP event
arrives. This directory holds TLA+ models of its controllers and of its webhook,
the TLC configurations that check them, and theorems that TLAPS proves.
`PROJECT.json` lists the components, the runs, the mutants that each property
must catch, the source lines of every definition, and the hazards of the code.

    tlc -workers 2 -config rt_safety.cfg MCResourceTemplate.tla
    tlapm ResourceTemplateProofs.tla

## 1. The system

Two processes, one replica each, that meet only in the Kubernetes API server.

| component | state | operations | talks to |
|---|---|---|---|
| HTTP server (`internal/httputil`, `internal/webhook/server.go`) | listener, connections, two goroutines | serve, shut down | handlers |
| HTTP handler (`internal/webhook/http`) | none; caches of HTTPWebhooks and secrets | parse, check secret and schema, call TriggerHandler, answer | TriggerHandler |
| GitHub handler (`internal/webhook/github`) | none; caches of the webhook objects | choose the hooks of a push or a pull request, filter, call TriggerHandler | TriggerHandler, ResourceSets (API) |
| TriggerHandler (`internal/webhook/hookutil/trigger.go`) | local to a request | render every trigger, then create, update, apply or delete a ResourceTemplate each | Triggers (cache), ResourceTemplates (API) |
| Trigger controller (`internal/controller/trigger`) | two informer caches, a work queue | copy a Trigger's patches into the templates that refer to it | Triggers, ResourceTemplates |
| ResourceTemplate controller (`internal/controller/resourcetemplate`) | an informer cache, a work queue | create, patch and delete child objects, record them in the status | ResourceTemplates, child objects |
| alpha Webhook and ResourceSet controllers (`internal/controller/{webhook,resourceset}`), alpha handler | the same | propagate resources into ResourceSets; create or update objects | Webhooks, ResourceSets |
| reducers (`internal/reducer`) | none | merge maps and named arrays | ResourceSet controller |

What is hard in it:

* Every process works from a copy. Reads of Pullup's own kinds are cached, and the copies
  lag; the objects that the controllers create are read from the API server (the manager's
  client does not cache unstructured objects), and are out of date as soon as they have been read.
  The next write is decided from what was read.
* Nothing is a transaction. A Reconcile is a sequence of API calls; an edit, a
  deletion, a garbage collection or the end of the process can come between any two.
* Two processes write `spec.patches` of a template, and a third party, the
  garbage collector, deletes children and templates.
* What must be deleted later is remembered only in `status.active`, and that
  is written only at the end of a Reconcile that changed something.
* Errors are retried by a rate-limited requeue; some are swallowed instead. The
  webhook retries nothing: its clients may send a request again.
* Documents are merged by position, by key or by name, depending on what is in them.

What makes each component correct:

* ResourceTemplate controller: it patches only what it owns when it checks, records a status
  that fits the spec it is stored with, acts on the current spec when it has it,
  forgets no child, rests only when all is applied, and gets there.
* TriggerHandler: a refused request has written nothing, an accepted one does
  its operations in order, each whole and at most once.
* HTTP handler: it turns away exactly what cannot be carried out, and what it answers
  with 200 is done, also after an earlier attempt that broke off.
* Trigger controller: idle means in step, it becomes idle, and to the webhook it is only
  a writer of newer patches.
* HTTP server: a cancelled context ends it, and requests in flight are drained.
* GitHub handler: the last event that a hook accepts decides what the hook
  shows, whatever was lost, repeated or failed before; a closing event leaves nothing; a
  hook shows nothing that it was not activated for.
* Webhook and ResourceSet controllers: they end with the set that the Webhook
  asks for and with objects that have what the set asks for, and keep what others wrote.
* Reducers: what the set asks for holds at every depth, what users added stays, the
  original's identity does not come along, and merging again changes nothing.

## 2. Modules

| module | models | kind |
|---|---|---|
| `ResourceTemplateController` | one template key: controller, informer, queue, users, other owners, garbage collector | specification and properties |
| `ResourceTemplateProofs` | theorems about it, and about its children while nothing races or fails | TLAPS |
| `TemplateStore` | what the webhook promises about ResourceTemplates | abstract specification |
| `TriggerHandler` | concurrent requests, a stale Trigger cache; `Store` is the refinement mapping to `TemplateStore` | specification |
| `HttpHandler` | extends `TriggerHandler` by everything between an HTTP request and its response | specification and properties |
| `TriggerController` | `TriggerHandler` (by INSTANCE) composed with the Trigger controller | specification |
| `WebhookServer` | `RunServer` and its two goroutines | specification |
| `GitHubEvents` | deliveries of a repository's pushes and of one pull request's events through the hooks of both API versions | specification and properties |
| `ResourceSets` | v1alpha1: the webhook, the Webhook controller and the ResourceSet controller around one set | specification and properties |
| `TriggerHandlerProofs`, `HttpHandlerProofs`, `TriggerControllerProofs`, `GitHubEventsProofs`, `ResourceSetsProofs`, `ResourceMergeProofs`, `WebhookServerProofs` | theorems about the modules they are named after | TLAPS |
| `ResourceMerge` | one resource of a ResourceSet as a JSON document: reducers, merge, comparison | specification with reducers as operators and walks as functions of levels |
| `MCResourceTemplate`, `MCHttpHandler`, `MCTriggerController`, `MCGitHubEvents`, `MCResourceSets`, `MCResourceMerge` | small instances | constants for TLC |

### ResourceTemplateController

`rt` is the template in the API server: uid (0 when there is none), resource
version, patches, `status.active`. `watch` holds the versions written and not yet
delivered, `cache` is the informer's copy, `queued` says that the key is in
the work queue; controller-runtime never reconciles one key twice at once. `pc`,
`snap`, `next`, `changed` and `inactive` are the local variables of `Reconcile`.

A Reconcile starts by copying the cache and computing the inactive references
(`StartReconcile`). For each patch it reads the current object, uncached
(`ReadCurrent`), and decides: the object is somebody else's (`ReadExists`, which
counts as an update), up to date, missing (then `CreateChild` or
`CreateConflict`) or outdated (then `PatchChild` or `PatchNotFound`). Then it
deletes what is inactive, in any order, and writes the status if anything
changed (`UpdateStatus`, `TouchStatus`, `StatusConflict`). Each API call is a
step. Errors end in `Fail`, which puts the key back.

Users and other owners act on the objects at any time, between any two calls: they create objects under a target's name
(`ForeignCreate`) and delete any object, a live template's child included (`UserDelete`, bounded by
`MaxLosses`). `lost` is a history variable: the child whose owner has been checked was removed
before the Patch. The Patch names neither a uid nor a version (`reconciler.go:355`), so an
object that has taken the name meanwhile is patched, whosever it is. `PatchRespectsOwner` says that this window is the only
one, and the instance of `rt_safety` reaches it: without `=> lost` TLC finds it violated.

`Calm` says that so far every writer of the template has waited until nothing was
pending (`Resting`: at most the retries of a list that cannot be applied) and that no
call has failed, no process ended and no list has broken off after it had created an
object; `spent["rough"]` remembers it. `NoOrphan` and `ChildrenRecorded` hold only then,
and `rt_leak` shows why. `NothingForgotten` needs no calm: edits, failures and restarts
at any moment never let the controller rest on something that it has not applied. Only
names that were blocked and children that users have deleted are excepted (`Unblocked`: the controller
does not watch its children, and nothing announces either), and contents that the source
has already (`AsAsked`).

Abstracted: rendering and the three-way merge. A patch is a reference and a content, and
all contents are values of the same fields: a patch replaces the content that the
target had. What a patch once set and no longer mentions stays in the code, as in
any merge patch, and is not modelled. Of the source object (`sourceName`) is left which
contents it has already (`Sourced`): the update is the difference of source and
desired object applied to the current one (`patch.go:42-77`), so for these nothing is
patched. `Unrenderable` contents fail before anything is applied,
`Inapplicable` ones when their turn comes. A list may name a target twice. A call
that fails before the first patch leaves everything as it was and is therefore no
step. Not modelled: a call that still takes effect after its process has died, and finalizers.

### TemplateStore and TriggerHandler

`TemplateStore` accepts a request with a whole plan of operations or refuses it;
an accepted request performs its operations one after the other, each in one
piece, and may break off between two. Only an apply whose template was there and was
removed by somebody else may end without one.

`TriggerHandler` is `Handle`: validate the action, render all triggers from a
cached copy each, then call the API server: Create, Patch of `/spec`, Delete, with
apply as a Create and then a Patch. `pc`, `rendered`, `at` are local to a request. A
template records its controller reference (`owner`) and what it was rendered
from (`trigger`, `patches`, `event`). The refinement mapping shows a request
as accepted when its rendering is complete, and an apply between its two calls as
one that has seen its template. Any call may fail and the process may end.

### HttpHandler

`HttpHandler` extends `TriggerHandler`: a request comes with a `body`, passes
`ParseFails`, `GetHook` (from `hookCache`, an informer's copy that lags as the Triggers'
does), `Forbidden`, `Rejected`, and only then gets its `input` (`StartTriggers`) and runs
`Handle` (`HandleTriggers`). `status` is the response. The translation
of errors is a part of each step: `httputil.Response` and the errors that
`hookutil.NewHandler` knows are answered with 400, 403 or 404; every other error
panics and the Recovery middleware answers 500. An action or a resource name that does not render is
such another error; one that renders to an unknown action or to no DNS subdomain is a 400 (`Responses`).
`alone` is a history variable: nobody else has changed a template while the request
ran `Handle`. `KeepsPromise` is checked of this composition, fairness included. Templates of an action or a name, schemas and
secrets are abstracted to their outcome for an event (`RenderedAction`, `NameOf`,
`rejects`, `Invalid`, `TokenFits`).

### TriggerController

`Webhook == INSTANCE TriggerHandler` shares the API server's `triggers` and
`templates`. A step of the webhook, of a user or of the garbage collector is announced to
the controller's two informers (`Announce`), which deliver independently. A Trigger
event wakes the Trigger, a template event wakes the Trigger that is its
controller reference (`Owners`). A Reconcile is a cached Get (`GetTrigger`), a
cached List by `spec.triggerRef` (`ListTemplates`), and one JSON patch per outdated
template in any order (`PatchResource`). There is no resync action: the resync's
update events keep their generation, and `GenerationChangedPredicate` drops them.
`KeepsPromise` compares the composition with `TemplateStore`: what the
controller adds to it is `Revised`, other patches for a template that is there.

### GitHubEvents

GitHub's side is the pull request `pr` and the events `sent`, pushes of branches and
tags among them; a repository sends pushes only if one of its hooks has been set up
for them. A delivery arrives in any order, never, or more than once, and is handled beside the
others (`requests`). It goes through the hooks of the repository, GitHubWebhooks
first; a hook filters (`AcceptsPullRequest`, `AcceptsPush`, `AcceptsAlpha`, with `FilterWebhook` as an
operator) and then calls the API server, one call a step: `Create`, `AlreadyExists`,
`Patch`, `PatchNotFound`, `Delete`. An error ends the delivery, and no later hook sees
it. `previews[h][n]` is the object named `n` that hook `h` wrote: a ResourceTemplate
with its event or a ResourceSet with its commits. `alone` is a history variable: the delivery
has run with no other one beside it.

A GitHubWebhook lists the repository once and has one trigger here, and no two hooks share
a name: several triggers and shared names are the subject of `TriggerHandler` and
`HttpHandler`. A condition of a filter, a string or a regular expression, is the
set of the names it matches. `AcceptsPush` is translated from the code's nested tests
(`push_beta.go:43`), and `ShowsWanted` compares its effect with a separate
statement of what the filters mean.

### ResourceSets

Three writers of one `set`: the webhook (`CreateSet`, `PatchSpec`, `DeleteSets`, from
its own copy of the Webhook), the Webhook controller (`ListSets`, `PatchResources`) and, below it,
the ResourceSet controller, which merges each resource of its snapshot `setWork`
into `objects[kind]` (`CreateObject`, `UpdateObject`, and the ways in which they
fail). Users edit and delete any object, others own some, the garbage collector
collects, all of it between any two calls.

A copy of an informer is renewed to the newest state at any time after a write.
Only Pullup's own kinds have such copies. An object is read as `*unstructured.Unstructured`, which the
manager's client takes to the API server (`getUnstructured`): `ReadObject` is a step of its own, and
`applied` what it has returned until the resource is done. `outdated` says that the object was written or deleted since,
so that the `resourceVersion` that was read is an old one: an `Update` with it is refused even if the
content is the same again. The original is read in the same way and does not change here. Objects are maps from keys to values; rendering replaces one
value by the head commit and never fails. Arrays, nesting, and
the metadata that is stripped from the original, are `ResourceMerge`'s subject. The webhook process
and the controllers have caches of their own.

### ResourceMerge

A document is a scalar, a map, an array or null; a scalar that is no string (`Number`) is no name of an
element (`HasName`); a string may be a template, and a UID is
not a string until it has been through JSON. `Document`, `JSON` and `Written` are the
documents of at most `n` levels, with arrays of any length (`Trees`). What the code does by
recursion is a function of the levels: `MergeAt[n]` merges two documents of `n` levels with
`MergeAt[n - 1]`, and `Walk` (deep copy, rendering, normalising) and `Compact` (the
comparison, the API server) are made the same way. A reducer is an operator; `Copied`, `Merged` and `Owned` compose
them in the order of `applyResource`. A document that cannot be reduced is `Error`, and
`Panic` where reflect panics. `Reconcile` renders, merges, compares
(`equal`) and sends; `Stored` is what the API server makes of it (nulls dropped, uid and
cluster IP added). Users, the set and the original change in between; a user may also take the
set's name for an object of their own, which ends a Reconcile with `"not_managed"`.

What the code does and the model repeats: a null in an array brings the process down
(`reducer/map.go:31`); an original Service without `spec.ports` makes every
Reconcile fail (`reconciler.go:182`); of two elements with one name the first is
never merged, and the array grows at every Reconcile (`named_array.go:30`). A list that names
only some of its elements is merged by position, may take the missing names from the original, and can so
become one that names two alike. `Settles` excludes both, and no property covers this growth: without `WellNamed` TLC finds `Settles`
violated by a set that names `a` twice, whose list has two elements after the first Reconcile and three after the
second. A list without names is merged by position and keeps the longer tail (`TailStays`, and section 4); an explicit null in a set's resource is dropped when its templates are
rendered, so that a set cannot delete a key; a list that has names in one
document only is merged by position at first, so that it may take two Reconciles to settle.

### WebhookServer

`net/http` is modelled from its use: `ListenAndServe` returns `ErrServerClosed`
once `Shutdown` is called, and any other error when it cannot listen (`ListenFails`) or when `Accept`
fails for good after it has served (`AcceptFails`: open connections go on, and bring further requests); `Shutdown` returns when it is
done or out of time. The condition of `server.go:60` is translated as it stands.

## 3. Runs

| run | shows | result |
|---|---|---|
| `rt_safety` | `PatchRespectsOwner`, `StatusMatchesSpec`, `FreshWritesFollowSpec`, and while `Calm` `NoOrphan` and `ChildrenRecorded`, and `NothingForgotten`, under edits at any moment, a deletion, a foreign object, a child that a user deletes and a failed Delete; a list may be impossible to render, fail at its second patch or name a target twice, and the source has one of the contents | holds, 1.5 M states |
| `rt_converge` | `NothingForgotten`, `EventsConverge`, `ResyncConverges` under racing edits, a deletion, a foreign object, a child that a user deletes, failing patches, failing calls and a crash | holds, 0.37 M |
| `rt_leak` | `NoLeak` | violated |
| `rt_foreign_deleted` | `DeletesOnlyManaged` | violated |
| `http_promise` | `RefusesExactlyBad`, `KeepsPromise`, `OkIsDone`: two requests to one HTTPWebhook, one or two triggers, all four actions | holds, 0.15 M |
| `tc_private` | `QuietInStep`, `Propagates`, `KeepsPromise`: two requests, two templates of one Trigger | holds, 0.16 M |
| `tc_shared` | `Propagates` for two Triggers with one template name | violated |
| `gh_events` | `ClosedLeavesNothing`, `ShowsLatest`, `ShowsWanted`: five lists of hooks, three pull request events or two pushes and other events | holds, 0.92 M |
| `rs_sets` | `HookInStep`, `KeepsTheRest`, `EventsConverge`, `ResyncConverges`: one pull request, two kinds of objects, edits of the Webhook and of objects, objects that users delete | holds, 65 k |
| `rs_merge` | `DesiredHolds`, `UserPartSurvives`, `TailStays`, `CopiesNoIdentity`, `FailsOnlyFor`, `Settles`: every combination of 14 resources and 6 originals, one edit | holds, 10 k |
| `ws_ok` | `NilAfterFailure`, `CancelledReturns`: every order of the goroutines and three requests, and a listener that fails at its start or later | holds, 417 |
| `ws_drain` | `DrainsBeforeReturn` | violated |

The type invariants are checked in the same runs. Deadlock is not checked in any run: the bounds on edits, requests and faults are
used up and the system is then rightly at rest.

### Bounds

Two targets and two contents let patches swap, drop and change a target. Three
writes of the template are a creation and two racing edits, or a deletion and a
new creation; a lag of two versions is what makes a snapshot stale twice. One
foreign object, one child that a user deletes (`MaxLosses`), one failed call (`rt_converge`), one failed Delete (`rt_safety`) and one crash (`rt_converge`) place
each at every point; a foreign object that takes the name of the child just deleted needs one of each. `rt_converge` has
two writes of the template.
`MaxTouches` bounds the status writes that move only `lastUpdateTime`: the
code writes again whenever a second has passed while a target is blocked, which
would not let the state space end. The two runs share the kinds of failure: in `rt_safety`
a Delete, in `rt_converge` any other call and a crash. `Sourced` is empty in `rt_converge`; see section 4. Two requests
are enough for every pairwise interleaving of API calls on a template; one edit of the
Trigger makes both the webhook's and the controller's copies stale.

`http_promise` starts in chosen pairs of a hook and two bodies (`MCScenarios`): each action against
an apply, one or two triggers, names that two triggers of one request share, and
every way to be turned away. `MaxTroubles` allows two of an edit, a failed call and a crash.

In `gh_events` three events and three arrivals give every order of two
commits, a label or a base branch that changes, a repeated delivery and one lost or
failed on the way; the three lists of hooks put a GitHubWebhook before an old
Webhook and before another GitHubWebhook, and use every action, both kinds of filters
and both kinds of names. Two more lists have push hooks with filters for branches, for tags and
for neither, with two events and two arrivals: a push and another one, or a push and a pull request.
A new pull request starts at one of the two commits, since they differ in nothing.

`rs_sets` is the union of eight small budgets (`SmallBudgets`: edits of the Webhook `edits`,
`events` of the pull request, objects that others own `others`, objects that users edit or delete `touches`,
failed calls `faults`): an edit with two events; one event and a foreign object with an edit or a failed call; one event and a
user's write with an edit, a foreign object or a failed call; two events and a user's write; and three events. Every pair of actors races with both controllers that way; three
events are what it takes to delete a set between the two calls of
another delivery. The key `port` is one that the original and users set and no
list asks for.

In `rs_merge` the lists have named, unnamed and scalar elements in different orders, a
name twice and nulls; the maps nest two deep, and with the owner references a document has four levels (`Depth`). The
empty string is no `Value`: an element of a list whose name is empty would count as one without a name. One user writes a
null for the cluster IP. Three Reconciles in a row are one more than it takes to settle.

### Fairness

* `FairSpec`: the informer delivers, the controller's worker runs, the garbage
  collector collects. These are loops of controller-runtime and of Kubernetes that
  wait for nothing else; a failed Reconcile comes back because of the
  rate-limited requeue, not by assumption. Nobody has to edit anything.
* `ResyncConverges` also assumes the periodic resync (10 hours by default).
  `EventsConverge` does without it and excludes blocked names and deleted children instead: nothing
  announces that a foreign object has gone, or a child, since the controller does not watch
  its children.
* `HttpHandler`, `TriggerHandler`: the goroutine of a request runs on. API calls end.
* `TriggerController`: its informers and its worker run on. Requests may stop.
* `ResourceSets`: informers, both workers and the garbage collector run on, as above;
  `EventsConverge` does without the resync if users leave the objects alone. `ResyncConverges` adds
  the periodic resync and cannot do without it: the controller does not watch the objects it applies
  (`cmd/controller/manager.go:59`), so one that a user edits or deletes wakes nobody.
* `GitHubEvents`, `ResourceMerge`: none. They have safety properties only; deliveries may be lost.
* `WebhookServer`: both goroutines run on; `Shutdown` ends because of its
  timeout. Handlers need not answer.

## 4. Disagreements found

1. **`rt_leak`** (`reconciler.go:112`). An edit between the snapshot and the status
   update makes the update conflict. The retry starts from the new spec; a
   child just created for a patch that the edit dropped is in no list and is never deleted.
   The same `NoLeak` fails in three more ways if the instance allows them:
   a crash between `Create` and the status update (`MaxCrashes = 1`, line 111: the next
   Reconcile changes nothing and writes no status); a list with a failing
   patch after a good one (an `Inapplicable` content, line 100: the early return skips
   the status); a failing Delete (`MaxDeleteFaults = 1`, line 152: forgotten).
   In all three nobody edits the template while anything is pending.
2. **`rt_foreign_deleted`** (`reconciler.go:146`). A target of somebody else
   enters `status.active` and is deleted when its patch is dropped.
3. **`tc_shared`** (`trigger/reconciler.go:92`). Templates are found by
   `spec.triggerRef` and woken by controller reference; after two Triggers
   have applied to one name these differ and stale patches can stay.
4. **`ws_drain`** (`server.go:60`). The inverted test of `ErrServerClosed` makes
   `RunServer` return when the shutdown begins; requests in flight are cut off.
   An error of listening or accepting, in turn, is dropped and leaves it waiting for a shutdown, after which it
   returns nil. `NilAfterFailure` says what remains true: nil means that the server has failed, and
   that `Shutdown` was waited for.

Five more that no run repeats:

* *A target that is not updated* (`resourcetemplate/patch.go:42`). If the source has the wanted
  content already, the difference of source and desired object is empty and a target that
  an older patch made different is left as it is. `EventsConverge` fails in
  `rt_converge` with `Sourced = {c1}`.
* *A list that cannot be shortened* (`internal/reducer/merge/array.go:13`). Of arrays whose elements are not all named
  `website/versioned_docs/version-0.3/architecture.md:40` says "Otherwise, replace with new values." The code merges them
  by position, and the longer one keeps its tail: a set with `[x]` over an object with `[y, y, y]` makes
  `[x, y, y]`. `DesiredHolds` speaks of the set's positions and does not see the tail; `TailStays` states what the
  code does instead. "The object's array is the set's", the documentation's statement, fails as an
  invariant of `rs_merge`.
* *A list with a name twice grows* (`internal/reducer/collection/named_array.go:30`) with every Reconcile that
  merges it, since the element of the name that is not in the index is appended again. `Settles` without `WellNamed` shows it.
* *A closing event that is filtered* (`pull_request_alpha.go:39`). The base
  branch is checked when the pull request is closed; if it was changed to one outside the filter,
  the set stays, where `website/versioned_docs/version-0.3/architecture.md:16` says that
  it is deleted. `ClosingDeletes` as an invariant of `gh_events` shows it.
* `website/docs/github-webhook.mdx:68` calls the filter of a pull request's
  labels `tags`; the field is `labels`.

## 5. Proofs

All theorems hold for every value of the constants that the named assumptions allow: any number of
requests, templates, triggers, hooks, kinds and bounds. TLC evaluates the assumptions in every run.

### ResourceTemplateProofs

From `ContentsAssumption` (contents contain the failing ones but not `NoContent`),
`PatchListsAssumption` and `BoundsAssumption`:

* `TypeCorrect`: `Spec => []TypeOK`.
* `Invariant`: `Spec => []IInv`, where `IInv` adds to `TypeOK`
  * `CopiesInv`: every copy of the template (the cache, the snapshot, each
    version on the watch) is no newer than the API server's revision, and has
    the server's patches if it has the server's version;
  * `JobInv`: the worker's snapshot is a real template, what it will delete is not
    among its targets, and before a Patch the object is still controlled by the
    snapshot's uid unless somebody has removed the one that was checked (`lost`).
* `OwnershipSafety`, `StatusSafety`, `FreshReconcileSafety`: the three action
  properties of `rt_safety`.
* `NothingIsForgotten` (`NothingForgotten`): the safety half of convergence. If the
  controller rests, all that was asked for is there; that it comes to rest is liveness
  and left to `rt_converge`. Its invariant is `AskedInv` (`AskedInvariant`).

`TypeOK` alone is too weak for all three. A status is accepted on equality of uid and
version, and only `CopiesInv` turns that into equality of patches; it must speak
of the watch and the cache because a snapshot is copied from there. The ownership
check is made one step before the Patch; that an object of the snapshot's owner, once seen, leaves its name only
by being removed, and that the worker's own steps do not do it in between, is `JobInv`. Deletions
by users are not a part of `Calm`: `NoOrphan` and `ChildrenRecorded` are proved with them.

`AskedInv` has four parts. `InformedInv`: what the informer has seen last, or will see last,
is the template that there is. `UnblockedInv`: as long as nothing was blocked there has been one
template, and every object is its child; otherwise one that was applied might be
collected again. `RenderedInv`: what is being applied has been rendered. `PendingInv`: either
an event or a queued key will start a Reconcile, or one of these very patches is under way
and those before its place show on their targets, or all of them do. A patch shows only if no later one of the list
has its target (`LastBefore`). `PendingInv` compares the snapshot's patches and not its
version, since a status update makes a new version of the same patches.

While nothing races or fails: `NothingOrphaned` (`NoOrphan`) and `EveryChildRecorded` (`ChildrenRecorded`), for all lists: those
that cannot be applied included, as long as none of them fails behind a patch that has
created something. That is part of `Calm`, and the third case of `NoLeak` in section 4 shows that
both properties need it. The invariant, `CalmInv`, holds as long as it is `Calm` and speaks of the
middle of a Reconcile, where neither property holds:

* `WatchInv`: the informer lags by one version at most;
* `StaleInv`: a Reconcile may still work on the old version (a resync can start
  one after an edit), but then the record lists all targets of that version;
* `RecordInv`: either all children are on record, or the controller is busy with the current
  version and will write the record. A Reconcile that gives up
  after it has created something forgets that it has changed anything; that the next one will
  find a change nevertheless, since the target that it failed on is still no child, is `WillRecord`;
* `ProgressInv`: what a Reconcile of the current version knows half-way;
* `RestInv`: at rest the record holds the targets, and the targets hold the children.

### TriggerHandlerProofs and HttpHandlerProofs

From `InputsAssumption`, `TriggersAssumption`, `NamesAssumption`, `BoundsAssumption`,
`NoTemplateAssumption`, and in `HttpHandler` also `HookSpecsAssumption`,
`BodiesAssumption`, `ScenariosAssumption`, `OptionsAssumption`, `NoOptionsAssumption` and `MaxTroublesAssumption`:

* `TypeCorrect` with `PlanInv`, which says where a request is in its plan: it renders before its first call,
  writes only for a valid action, and patches only in an apply.
* `SafelyKeepsPromise`: the initial states of `TriggerHandler` are initial
  states of `TemplateStore`, and every step is one of its steps or a stutter under
  the refinement mapping. `HttpKeepsPromise` is the same for the composition
  with the HTTP handler. Fairness is left to `http_promise`.
* `HttpTypeCorrect`, with `RequestInv`: what a request knows at each stage.
* `OkMeansDone` (`OkIsDone`). Its invariant `DoneInv` says of a request
  that has run alone that each operation before its place shows its effect,
  unless a later one of the same request has the same name (`LastSoFar`).
* `RefusalsAreRight` (`RefusesExactlyBad`). Its invariant `FreshInv` says that the
  copies are the originals as long as nothing is edited, and what a request has
  passed at each stage.

### TriggerControllerProofs

The module instantiates `TriggerHandlerProofs`, so that the webhook's part needs no second
proof; `WebhookAssumption` states the assumptions of that module, and
`FiniteAssumption` makes triggers and names enumerable, as `Announce` requires.

* `ControllerTypeCorrect`: `Spec => []TypeOK`.
* `NoneForgotten`: `QuietInStep`, if no two triggers share a name
  (`NoSharedNames`). `tc_shared` shows that the hypothesis is needed.
  The invariant has three parts: `InformerInv`, the events that have not been delivered lead from what an
  informer has seen to what there is; `OwnInv`, a template's owner is the
  trigger it refers to, so that its events wake the right key; and `PendingInv`, a template
  out of step has its trigger queued, an event under way, or the worker on its way with the present patches.
* `PromiseKept` (`KeepsPromise`), without `NoSharedNames`. A step of the webhook is one that
  `SafelyKeepsPromise` has mapped already, for the instance `Hook` of the proof module, which is
  the instance `Webhook` of the specification (`SamePromise`); a step of the controller leaves requests alone (`RequestsUnmoved`) and
  changes a template only by `PatchResource`, which writes if and only if there is one (`PatchRevises`).

### GitHubEventsProofs

From `BudgetsAssumption`, `HeadsAssumption` and `HooksAssumption`:

* `EventTypeCorrect` (with `PlaceInv`: a delivery patches only where an apply was
  accepted), and `WantedIsShown` (`ShowsWanted`): what is
  shown was accepted when it was written, and `AcceptsPush` agrees with what the filters mean.
* `LatestIsShown` (`ShowsLatest`) and `ClosedIsGone` (`ClosedLeavesNothing`), from `ShowInv`:
  a delivery that is alone has all later ones behind it (`AloneInv`), a hook whose names do not change has one
  object at most (`OneNameInv`), the object to be patched is there
  (`PatchInv`), and a hook that the last accepted delivery has passed shows its outcome (`DecidedInv`).

### ResourceSetsProofs

From `BudgetsAssumption`, `ResourcesAssumption`, `WritesAssumption`, `NoneAssumption`, `NoListAssumption` and `NotReadAssumption`:

* `SetsTypeCorrect`. `TypeOK` is inductive and more than types: a copy that is not stale is equal to its original, and so is
  an object that was read and is not `outdated`.
* `OthersAreKept` (`KeepsTheRest`). An Update is accepted only for the version that was read, so
  by `TypeOK` the object that was checked and merged is the one that is replaced, whatever users have done.
* `HookReachesSet` (`HookInStep`). The invariant `HookInv` compares the set with the copy
  of the Webhook that the controller has, not with the Webhook: an
  edit may put back what an unfinished write has. A set that differs will be heard of, is
  queued, or is being written with that very copy.

### ResourceMergeProofs

From `BoundsAssumption`, `DepthAssumption` (an owner reference is four levels deep), `KeyAssumption`,
`ValueAssumption` and `DocumentsAssumption` (originals and users' objects are JSON, what a set asks for
may have templates, and all have metadata): for any keys, any values, documents of any depth, with
arrays of any length.

* `TypeCorrect` (`TypeOK`, with the bounds): what is sent and what is stored is JSON. No
  template is left, and no `types.UID`, which `equal` would never find equal to the string that
  the API server stores: without the last reducer (`NormalizeValue`) every Reconcile would update.
* `SetHasTheLastWord` (`DesiredHolds`): whatever was copied from the original and whatever users made of
  the object, after a successful Reconcile it has all that the set asks for.
* `IdentityStaysBehind` (`CopiesNoIdentity`): a created object has the status, the server's keys, the
  cluster IP and the node ports that its set names, and none of the original's.
* `UsersPartIsKept` (`UserPartSurvives`, an action property): an update takes nothing away that the set is silent
  about, neither keys nor the named elements of lists.
* `FailuresJustified` (`FailsOnlyFor`): `applyResource` fails for the reasons that are listed, and for no other.

*Levels instead of recursion.* The walks and merges are recursive functions of the levels of a document.
`LevelFunction` shows that such a function exists and satisfies its equation, for any body; each walk is an instance (`MergeLevels`,
`WalkLevels`, `CompactLevels`, `CoversLevels`, `SurvivesLevels`), and `LoopFunction` the same for the loop of
`mergeResource`. `SetInduction` is induction over the levels, stated for a set instead of an operator,
since an operator parameter is what the provers cannot instantiate; it rests on the
well-foundedness of the naturals. With the two, every lemma about a walk is: for one level if for the level below.

*The argument.* An invariant over all of `Reconcile` would only repeat its definition; the theorems need
`TypeOK` as the invariant and a chain of lemmas, one per reducer, about what goes in and what comes out.
A merge of JSON over JSON is JSON (`MergeAtClosed`), it
covers its source if the source has no nulls (`MergeCovers`: a rendered document has none), and
it fails only at a null in an array. `MergeCovers` is where the index of names matters: the loop of
`mergeResource` overwrites the elements it has merged before only with the element of the same name, so that the last
of a name stays (`HeldStep`, `NamedCovers`). The later reducers write
metadata alone, normalising does nothing to JSON but to the set's own UID, and what the API server adds does not
take away what is covered. For `IdentityStaysBehind` the reducers of the copy are followed in the
other direction: what the copy no longer has can only come back from the set.

`UsersPartIsKept` is about two merges, of the object over the copy and of the resource over that, and the
property speaks of the original, not of the copy: it demands the named elements only where the original's list
has names or is no longer than the object's. `Alike` is what relates the two: a set of pairs in which a list on the left has the
length of the one on the right, and names where that has names, and which with a pair has the pairs of what is at each key. `CopiedAlike`
gives such a set for what `FromOriginal` and `ForService` make of the original (they drop nulls, keys and
node ports, but no element and no name), and `AllKept` is the induction: at a key that both documents have
it goes one level down (`MapsKept`); the names of the object survive the first merge
(`NamesMerged`), and the second moves no element that the resource does not name (`OthersStay`,
`ListsKept`). The cluster IP that the API server adds covers what a null covered (`StoredKeeps`).

*What the proofs found.* An earlier form of `ResourceMerge` had RECURSIVE operators, and TLC evaluated its
`Append` to a function made by `EXCEPT` as if the update had not been made, so that the run
checked another merge of named lists than the code's. The proof of `DesiredHolds` also showed where its
earlier statement was wrong: of elements that share a name only the last is covered, and in a list that has
names in one of the two documents only an element is covered at its position.
`UserPartSurvives` was false for a user who writes a null for the cluster IP of a Service: the API
server then assigns one. A null asks for nothing now (`CoversOne`), and `rs_merge` has such a user; without that change
TLC finds the violation too.

`Settles` was false as well, beyond the documents of its run. With the original's list `[a, b]`, a resource's
`[{k1: x}, d]`, of which only one element has a name, and a user who made the list a scalar, the third Reconcile after
it still changes the object: the list becomes `[a, d]` by position, then `[a, d, d]` by name. TLC shows it when
the two documents are added to `MCResourceMerge`. The property therefore asks that after the first Reconcile
no document has a list that names two elements alike or only some (`WellNamed`), and holds with the two documents, too.

### WebhookServerProofs

No assumption; any set of requests.

* `ServerTypeCorrect` (`TypeOK`).
* `NilHidesFailure` (`NilAfterFailure`). The invariant relates the two goroutines: only
  `Shutdown` closes the listener, after the context is cancelled; `RunServer` waits for the channel exactly after
  an error that it drops; and once `Shutdown` has drained, no request is active and none can come.

### Only model-checked

Liveness under fairness is beyond the prover: `EventsConverge` and `ResyncConverges` (twice each),
`Propagates`, `CancelledReturns`, and the fairness that `KeepsPromise` includes. 
`TailStays` compares three lists and their merge position by position. `Settles` compares the
results of two and three merges of the same lists, where the position of an element depends on all merges before; both rest on
the enumeration of `rs_merge`. Every other invariant and action property that a passing run checks is a theorem.

## 6. Not modelled

* *Templates and JSON helpers* (`internal/template`, `internal/jsonutil`,
  `internal/k8s/object.go`). Rendering is an outcome (`NameOf`, `Unrenderable`, `HeadOfPR`), a
  comparison of JSON is equality. They are conversions by libraries and keep no state.
* *Strategic and JSON merge patches* of the ResourceTemplate controller, beyond
  `Sourced`: which patch kind is sent and how it is computed is the work of
  apimachinery; the model says which content comes out.
* *JSON schemas*: their verdict on an event is a constant.
* *Payloads that do not parse*, GitHub signatures, and the texts of responses.
* *Kubernetes Events, logging, configuration, the commands*: nothing reads what they write; the
  wiring of informers and predicates in `manager.go` is part of the controllers' modules.
* *Generated code* (deep copies, clients) and *test support* (`testenv`, `golden`, `fakegithub`, `random`).
* Finalizers, and API calls that take effect after their process has died.

## 7. Plan

1. Several pull requests of one Webhook in `ResourceSets`: the controller patches all
   sets that its label selects, one after the other.
2. Fields in the contents of `ResourceTemplateController`, so that a patch that stops mentioning a field
   can be told from one that never did.
3. `Settles` as a theorem: that a merge over the same original is idempotent where lists are `WellNamed`, by
   the cases of which of the three lists have names.
