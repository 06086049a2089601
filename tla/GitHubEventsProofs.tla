--------------------------- MODULE GitHubEventsProofs ---------------------------
(***************************************************************************)
(* Theorems about GitHubEvents, for all values of its constants: it is     *)
(* type correct, a hook shows what it has been activated for, and the last *)
(* delivery that a hook accepted decides what it shows.                    *)
(***************************************************************************)
EXTENDS GitHubEvents, FiniteSetTheorems, TLAPS

\* One delivery moves, and nothing of it changes but where it is.
Moved(i) ==
  /\ requests' \in Seq(Deliveries)
  /\ Len(requests') = Len(requests)
  /\ \A j \in DOMAIN requests : j # i => requests'[j] = requests[j]
  /\ requests'[i].event = requests[i].event
  /\ requests'[i].alone = requests[i].alone

\* Where a delivery is: it is done when it is past the hooks, and it patches
\* only for an apply that its hook accepts.
PlaceOf(i) ==
  /\ requests[i].pc = "ok" => requests[i].hook \notin DOMAIN hooks
  /\ requests[i].pc = "patch" => Accepts(HookOf(i), Event(i)) /\ ActionOf(HookOf(i), Event(i)) = "apply"
PlaceInv == \A i \in DOMAIN requests : PlaceOf(i)

EventInv == TypeOK /\ IsFiniteSet(sent) /\ PlaceInv

-----------------------------------------------------------------------------
(* Type correctness                                                        *)

LEMMA HooksType ==
  ASSUME TypeOK
  PROVE  /\ Len(hooks) \in Nat /\ DOMAIN hooks = 1 .. Len(hooks)
         /\ \A h \in DOMAIN hooks : hooks[h].names \in [Heads -> Names]
<1>1. PICK budget \in Budgets : hooks = budget.hooks
  BY DEF TypeOK
<1>2. hooks \in Seq({hooks[h] : h \in DOMAIN hooks})
  BY <1>1, HooksAssumption
<1>3. QED
  BY <1>1, <1>2, HooksAssumption

LEMMA DeliveryType ==
  ASSUME TypeOK, NEW i \in DOMAIN requests
  PROVE  /\ requests[i] \in Deliveries
         /\ DOMAIN requests = 1 .. Len(requests) /\ Len(requests) \in Nat
         /\ Event(i) \in sent /\ Event(i).head \in Heads
<1>1. requests[i] \in Deliveries /\ Event(i) \in sent
  <2>1. requests[i] \in Deliveries
    BY DEF TypeOK
  <2>2. QED
    BY <2>1 DEF Deliveries, Event
<1>2. Event(i).head \in Heads
  BY <1>1 DEF TypeOK, PullRequestEvents, PushEvents
<1>3. QED
  BY <1>1, <1>2 DEF TypeOK

\* A delivery goes to the next hook.
LEMMA NextHookMoves ==
  ASSUME TypeOK, NEW i \in DOMAIN requests, requests[i].hook \in DOMAIN hooks, NextHook(i)
  PROVE  Moved(i) /\ requests'[i].hook = requests[i].hook + 1 /\ requests'[i].pc = "hook"
<1>1. requests[i] \in Deliveries /\ requests \in Seq(Deliveries)
  BY DEF TypeOK
<1>2. PICK d : d = [requests[i] EXCEPT !.hook = @ + 1, !.pc = "hook"]
  OBVIOUS
<1>3. requests' = [requests EXCEPT ![i] = d]
  BY <1>2 DEF NextHook
<1>4. /\ d \in Deliveries /\ d.hook = requests[i].hook + 1 /\ d.pc = "hook"
      /\ d.event = requests[i].event /\ d.alone = requests[i].alone
  <2>1. requests[i].hook + 1 \in 1 .. Len(hooks) + 1
    BY HooksType
  <2>2. d = [event |-> requests[i].event, hook |-> requests[i].hook + 1, pc |-> "hook",
             alone |-> requests[i].alone]
    BY <1>1, <1>2 DEF Deliveries
  <2>3. QED
    BY <1>1, <2>1, <2>2 DEF Deliveries
<1>5. QED
  BY <1>1, <1>3, <1>4 DEF Moved

\* A delivery stays at its hook.
LEMMA StayMoves ==
  ASSUME TypeOK, NEW i \in DOMAIN requests, NEW pc \in {"patch", "ok", "broken"},
         requests' = [requests EXCEPT ![i].pc = pc]
  PROVE  Moved(i) /\ requests'[i].hook = requests[i].hook /\ requests'[i].pc = pc
<1>1. requests[i] \in Deliveries /\ requests \in Seq(Deliveries)
  BY DEF TypeOK
<1>2. PICK d : d = [requests[i] EXCEPT !.pc = pc]
  OBVIOUS
<1>3. requests' = [requests EXCEPT ![i] = d]
  BY <1>2
<1>4. /\ d \in Deliveries /\ d.hook = requests[i].hook /\ d.pc = pc
      /\ d.event = requests[i].event /\ d.alone = requests[i].alone
  BY <1>1, <1>2 DEF Deliveries
<1>5. QED
  BY <1>1, <1>3, <1>4 DEF Moved

\* What every step of Handle does to the deliveries.
LEMMA HandleMoves ==
  ASSUME TypeOK, NEW i \in DOMAIN requests, Handle(i)
  PROVE  /\ Moved(i) /\ Running(i) /\ UNCHANGED <<hooks, pr, sent>>
         /\ \/ /\ requests[i].hook \in DOMAIN hooks
               /\ requests'[i].hook = requests[i].hook + 1 /\ requests'[i].pc = "hook"
            \/ /\ requests'[i].hook = requests[i].hook
               /\ requests'[i].pc \in {"patch", "ok", "broken"}
<1>1. \A pc : requests[i].pc = pc /\ pc \in {"hook", "patch"} => Running(i)
  BY DEF Running
<1>2. requests[i].pc = "patch" => requests[i].hook \in DOMAIN hooks
  BY DEF TypeOK
<1>3. CASE \/ Skip(i) \/ Create(i) \/ Patch(i) \/ Delete(i)
           \/ AlreadyExists(i) /\ NextHook(i)
           \/ PatchNotFound(i) /\ NextHook(i)
  <2>1. /\ requests[i].hook \in DOMAIN hooks /\ NextHook(i) /\ Running(i)
        /\ UNCHANGED <<hooks, pr, sent>>
    BY <1>1, <1>2, <1>3 DEF Skip, Create, Patch, Delete, AlreadyExists, PatchNotFound, Patching,
       Doing, AtHook
  <2>2. QED
    BY <2>1, NextHookMoves
<1>4. ASSUME NEW pc \in {"patch", "ok", "broken"}, requests' = [requests EXCEPT ![i].pc = pc],
             Running(i), UNCHANGED <<hooks, pr, sent>>
      PROVE  /\ Moved(i) /\ Running(i) /\ UNCHANGED <<hooks, pr, sent>>
             /\ requests'[i].hook = requests[i].hook
             /\ requests'[i].pc \in {"patch", "ok", "broken"}
  BY <1>4, StayMoves
<1>5. CASE AlreadyExists(i) /\ ~NextHook(i)
  BY <1>1, <1>4, <1>5 DEF AlreadyExists, Doing, AtHook
<1>6. CASE PatchNotFound(i) /\ ~NextHook(i)
  BY <1>1, <1>4, <1>6 DEF PatchNotFound, Patching, Doing, AtHook
<1>7. CASE Finish(i)
  BY <1>1, <1>4, <1>7 DEF Finish
<1>8. CASE CallFails(i)
  BY <1>4, <1>8 DEF CallFails
<1>9. QED
  BY <1>3, <1>5, <1>6, <1>7, <1>8 DEF Handle

\* The previews stay the previews of the hooks.
LEMMA HandlePreviews ==
  ASSUME TypeOK, NEW i \in DOMAIN requests, Handle(i)
  PROVE  /\ DOMAIN previews' = DOMAIN hooks
         /\ \A h \in DOMAIN hooks : DOMAIN previews'[h] = Names
<1>1. DOMAIN previews = DOMAIN hooks /\ \A h \in DOMAIN hooks : DOMAIN previews[h] = Names
  BY DEF TypeOK
<1>2. ASSUME NEW value, Write(i, value)
      PROVE  /\ DOMAIN previews' = DOMAIN hooks
             /\ \A h \in DOMAIN hooks : DOMAIN previews'[h] = Names
  BY <1>1, <1>2 DEF Write
<1>3. CASE UNCHANGED previews
  BY <1>1, <1>3
<1>4. CASE previews' = [previews EXCEPT ![requests[i].hook] = [n \in Names |-> NoPreview]]
  BY <1>1, <1>4
<1>5. QED
  BY <1>2, <1>3, <1>4 DEF Handle, Skip, Create, AlreadyExists, Patch, PatchNotFound, Delete,
     Finish, CallFails

\* What is spent leaves amounts.
LEMMA SpendType ==
  ASSUME left \in Amounts, NEW what \in {"events", "pushes", "requests", "faults"}, Spend(what)
  PROVE  left' \in Amounts
<1>1. PICK n : n = left[what] - 1
  OBVIOUS
<1>2. left' = [left EXCEPT ![what] = n] /\ n \in Nat
  BY <1>1 DEF Spend, Amounts
<1>3. \/ left' = [left EXCEPT !.events = n] \/ left' = [left EXCEPT !.pushes = n]
      \/ left' = [left EXCEPT !.requests = n] \/ left' = [left EXCEPT !.faults = n]
  BY <1>2
<1>4. QED
  BY <1>2, <1>3 DEF Amounts

LEMMA HandleLeft ==
  ASSUME TypeOK, NEW i \in DOMAIN requests, Handle(i)
  PROVE  left' \in Amounts
<1>1. CASE UNCHANGED left
  BY <1>1 DEF TypeOK
<1>2. CASE CallFails(i)
  BY <1>2, SpendType DEF CallFails, TypeOK
<1>3. QED
  BY <1>1, <1>2 DEF Handle, Skip, Create, AlreadyExists, Patch, PatchNotFound, Delete, Finish

LEMMA HandleType ==
  ASSUME TypeOK, NEW i \in DOMAIN requests, Handle(i)
  PROVE  TypeOK'
<1>1. UNCHANGED <<hooks, pr, sent>> /\ Moved(i)
  BY HandleMoves
<1>2. requests' \in Seq(Deliveries')
  BY <1>1 DEF Moved, Deliveries
<1>3. DOMAIN requests' = DOMAIN requests
  BY <1>1 DEF Moved, TypeOK
<1>4. \A j \in DOMAIN requests' : requests'[j].pc = "patch" => requests'[j].hook \in DOMAIN hooks'
  <2>1. requests'[i].pc = "patch" => requests'[i].hook \in DOMAIN hooks
    <3>1. CASE AlreadyExists(i)
      BY <3>1, HandleMoves DEF AlreadyExists, Doing, AtHook
    <3>2. ASSUME requests'[i].pc = "patch" PROVE AlreadyExists(i)
      <4>1. requests[i] \in Deliveries
        BY DEF TypeOK
      <4>2. ASSUME NextHook(i) PROVE requests'[i].pc = "hook"
        BY <4>1, <4>2 DEF NextHook, Deliveries
      <4>3. ASSUME NEW pc \in {"ok", "broken"}, requests' = [requests EXCEPT ![i].pc = pc]
            PROVE  requests'[i].pc = pc
        BY <4>1, <4>3 DEF Deliveries
      <4>4. QED
        BY <3>2, <4>2, <4>3 DEF Handle, Skip, Create, Patch, PatchNotFound, Delete, Finish, CallFails
    <3>3. QED
      BY <3>1, <3>2
  <2>2. QED
    BY <1>1, <1>3, <2>1 DEF Moved, TypeOK
<1>5. PullRequestEvents' = PullRequestEvents /\ PushEvents' = PushEvents
  BY <1>1 DEF PullRequestEvents, PushEvents
<1>6. QED
  BY <1>1, <1>2, <1>4, <1>5, HandlePreviews, HandleLeft DEF TypeOK
\* The events that were sent stay events when one more is sent.
LEMMA SendType ==
  ASSUME TypeOK, IsFiniteSet(sent), NEW e, e.no = No,
         e \in [no : {No}, label : Labels \cup {NoLabel}, labels : SUBSET Labels,
                action : defaultPullRequestTypes \cup {"edited", "labeled", "unlabeled"},
                head : Heads, base : Bases]
               \cup [no : {No}, action : {"push"}, ref : Refs, head : Heads],
         Send(e)
  PROVE  /\ IsFiniteSet(sent') /\ \A x \in sent' : x \in (PullRequestEvents \cup PushEvents)'
         /\ UNCHANGED <<hooks, requests, previews>> /\ sent \subseteq sent'
<1>1. sent' = sent \cup {e} /\ UNCHANGED <<hooks, requests, previews>>
  BY DEF Send
<1>2. Cardinality(sent) \in Nat
  BY FS_CardinalityType
<1>3. e \notin sent
  BY <1>2 DEF TypeOK, PullRequestEvents, PushEvents, No
<1>4. IsFiniteSet(sent') /\ Cardinality(sent') = Cardinality(sent) + 1
  BY <1>1, <1>3, FS_AddElement
<1>5. e \in (PullRequestEvents \cup PushEvents)'
  BY <1>2, <1>4 DEF PullRequestEvents, PushEvents, No
<1>6. ASSUME NEW x \in sent PROVE x \in (PullRequestEvents \cup PushEvents)'
  <2>1. x \in PullRequestEvents \cup PushEvents
    BY DEF TypeOK
  <2>2. 1 .. Cardinality(sent) \subseteq 1 .. Cardinality(sent')
    BY <1>2, <1>4
  <2>3. QED
    BY <2>1, <2>2 DEF PullRequestEvents, PushEvents
<1>7. QED
  BY <1>1, <1>4, <1>5, <1>6

\* What is left of TypeOK when deliveries and previews stay.
LEMMA SentType ==
  ASSUME TypeOK, UNCHANGED <<hooks, requests, previews>>, sent \subseteq sent',
         \A x \in sent' : x \in (PullRequestEvents \cup PushEvents)',
         left' \in Amounts,
         pr' \in [state : {"new", "open", "closed"}, head : Heads, base : Bases,
                  labels : SUBSET Labels]
  PROVE  TypeOK'
<1>1. Deliveries \subseteq Deliveries'
  BY DEF Deliveries
<1>2. requests' \in Seq(Deliveries')
  <2>1. requests \in Seq(Deliveries)
    BY DEF TypeOK
  <2>2. QED
    BY <1>1, <2>1
<1>3. QED
  BY <1>2 DEF TypeOK

LEMMA EmitType ==
  ASSUME TypeOK, IsFiniteSet(sent), NEW action \in defaultPullRequestTypes \cup {"edited", "labeled", "unlabeled"},
         NEW label \in Labels \cup {NoLabel},
         NEW newPr \in [state : {"new", "open", "closed"}, head : Heads, base : Bases,
                        labels : SUBSET Labels],
         Emit(action, label, newPr)
  PROVE  TypeOK' /\ IsFiniteSet(sent') /\ UNCHANGED <<hooks, requests, previews>>
<1>1. PICK e : e = [no |-> No, action |-> action, label |-> label, head |-> newPr.head,
                    base |-> newPr.base, labels |-> newPr.labels]
  OBVIOUS
<1>2. Send(e) /\ pr' = newPr /\ Spend("events")
  BY <1>1 DEF Emit
<1>3. /\ e.no = No
      /\ e \in [no : {No}, label : Labels \cup {NoLabel}, labels : SUBSET Labels,
                action : defaultPullRequestTypes \cup {"edited", "labeled", "unlabeled"},
                head : Heads, base : Bases]
  BY <1>1
<1>4. /\ IsFiniteSet(sent') /\ \A x \in sent' : x \in (PullRequestEvents \cup PushEvents)'
      /\ UNCHANGED <<hooks, requests, previews>> /\ sent \subseteq sent'
  BY <1>2, <1>3, SendType
<1>5. left' \in Amounts
  BY <1>2, SpendType DEF TypeOK
<1>6. QED
  BY <1>2, <1>4, <1>5, SentType

LEMMA PushType ==
  ASSUME TypeOK, IsFiniteSet(sent), NEW ref \in Refs, NEW head \in Heads, Push(ref, head)
  PROVE  TypeOK' /\ IsFiniteSet(sent') /\ UNCHANGED <<hooks, requests, previews>>
<1>1. PICK e : e = [no |-> No, action |-> "push", ref |-> ref, head |-> head]
  OBVIOUS
<1>2. Send(e) /\ UNCHANGED pr
  BY <1>1 DEF Push
<1>3. e.no = No /\ e \in [no : {No}, action : {"push"}, ref : Refs, head : Heads]
  BY <1>1
<1>4. /\ IsFiniteSet(sent') /\ \A x \in sent' : x \in (PullRequestEvents \cup PushEvents)'
      /\ UNCHANGED <<hooks, requests, previews>> /\ sent \subseteq sent'
  BY <1>2, <1>3, SendType
<1>5. left' \in Amounts
  <2>1. left.events - 1 \in Nat /\ left.pushes - 1 \in Nat /\ left \in Amounts
    BY DEF Push, TypeOK, Amounts
  <2>2. PICK m, n : m = left.events - 1 /\ n = left.pushes - 1
    OBVIOUS
  <2>3. left' = [left EXCEPT !.events = m, !.pushes = n] /\ m \in Nat /\ n \in Nat
    BY <2>1, <2>2 DEF Push
  <2>4. QED
    BY <2>1, <2>3 DEF Amounts
<1>6. pr \in [state : {"new", "open", "closed"}, head : Heads, base : Bases, labels : SUBSET Labels]
  BY DEF TypeOK
<1>7. QED
  BY <1>2, <1>4, <1>5, <1>6, SentType

\* What the repository does, but for the arrival of a delivery.
Happens ==
  \/ Open \/ Close \/ Reopen
  \/ \E head \in Heads : Synchronize(head)
  \/ \E base \in Bases : Retarget(base)
  \/ \E ref \in Refs, head \in Heads : Push(ref, head)
  \/ \E l \in Labels : AddLabel(l) \/ RemoveLabel(l)

LEMMA HappensType ==
  ASSUME TypeOK, IsFiniteSet(sent), Happens
  PROVE  TypeOK' /\ IsFiniteSet(sent') /\ UNCHANGED <<hooks, requests, previews>>
<1> DEFINE Prs == [state : {"new", "open", "closed"}, head : Heads, base : Bases,
                   labels : SUBSET Labels]
<1>1. pr \in Prs
  BY DEF TypeOK
<1>2. ASSUME NEW action, NEW label, NEW newPr, Emit(action, label, newPr),
             action \in defaultPullRequestTypes \cup {"edited", "labeled", "unlabeled"},
             label \in Labels \cup {NoLabel}, newPr \in Prs
      PROVE  TypeOK' /\ IsFiniteSet(sent') /\ UNCHANGED <<hooks, requests, previews>>
  BY <1>2, EmitType
<1> DEFINE Goal == TypeOK' /\ IsFiniteSet(sent') /\ UNCHANGED <<hooks, requests, previews>>
<1>3. CASE Open
  <2>1. [pr EXCEPT !.state = "open"] \in Prs
    BY <1>1
  <2>2. QED
    BY <1>2, <1>3, <2>1 DEF Open, defaultPullRequestTypes
<1>4. CASE Close
  <2>1. [pr EXCEPT !.state = "closed"] \in Prs
    BY <1>1
  <2>2. QED
    BY <1>2, <1>4, <2>1 DEF Close, defaultPullRequestTypes
<1>5. CASE Reopen
  <2>1. [pr EXCEPT !.state = "open"] \in Prs
    BY <1>1
  <2>2. QED
    BY <1>2, <1>5, <2>1 DEF Reopen, defaultPullRequestTypes
<1>6. ASSUME NEW head \in Heads, Synchronize(head) PROVE Goal
  <2>1. [pr EXCEPT !.head = head] \in Prs
    BY <1>1
  <2>2. QED
    BY <1>2, <1>6, <2>1 DEF Synchronize, defaultPullRequestTypes
<1>7. ASSUME NEW base \in Bases, Retarget(base) PROVE Goal
  <2>1. [pr EXCEPT !.base = base] \in Prs
    BY <1>1
  <2>2. QED
    BY <1>2, <1>7, <2>1 DEF Retarget
<1>8. ASSUME NEW l \in Labels, AddLabel(l) PROVE Goal
  <2>1. [pr EXCEPT !.labels = @ \cup {l}] \in Prs
    BY <1>1
  <2>2. QED
    BY <1>2, <1>8, <2>1 DEF AddLabel
<1>9. ASSUME NEW l \in Labels, RemoveLabel(l) PROVE Goal
  <2>1. [pr EXCEPT !.labels = @ \ {l}] \in Prs
    BY <1>1
  <2>2. QED
    BY <1>2, <1>9, <2>1 DEF RemoveLabel
<1>10. QED
  BY <1>3, <1>4, <1>5, <1>6, <1>7, <1>8, <1>9, PushType DEF Happens

\* A delivery arrives.
LEMMA ArriveMoves ==
  ASSUME TypeOK, NEW e \in sent, Arrive(e)
  PROVE  /\ requests' \in Seq(Deliveries) /\ Len(requests') = Len(requests) + 1
         /\ DOMAIN requests' = DOMAIN requests \cup {Len(requests) + 1}
         /\ \A i \in DOMAIN requests :
              /\ requests'[i].event = requests[i].event /\ requests'[i].hook = requests[i].hook
              /\ requests'[i].pc = requests[i].pc
              /\ requests'[i].alone => requests[i].alone /\ ~Running(i)
         /\ requests'[Len(requests) + 1].event = e
         /\ requests'[Len(requests) + 1].hook = 1
         /\ requests'[Len(requests) + 1].pc = "hook"
         /\ requests'[Len(requests) + 1].alone => \A i \in DOMAIN requests : ~Running(i)
         /\ UNCHANGED <<hooks, pr, sent, previews>>
<1> DEFINE Mark(i) == IF Running(i) THEN [requests[i] EXCEPT !.alone = FALSE] ELSE requests[i]
           marked == [i \in DOMAIN requests |-> Mark(i)]
           new == [event |-> e, hook |-> 1, pc |-> "hook",
                   alone |-> \A i \in DOMAIN requests : ~Running(i)]
<1>1. requests' = Append(marked, new) /\ UNCHANGED <<hooks, pr, sent, previews>>
  BY DEF Arrive
<1>2. requests \in Seq(Deliveries)
  BY DEF TypeOK
<1>3. /\ new \in Deliveries /\ new.event = e /\ new.hook = 1 /\ new.pc = "hook"
      /\ new.alone => \A i \in DOMAIN requests : ~Running(i)
  BY HooksType DEF Deliveries
<1>4. ASSUME NEW i \in DOMAIN requests
      PROVE  /\ Mark(i) \in Deliveries
             /\ Mark(i).event = requests[i].event /\ Mark(i).hook = requests[i].hook
             /\ Mark(i).pc = requests[i].pc
             /\ Mark(i).alone => requests[i].alone /\ ~Running(i)
  <2>1. requests[i] \in Deliveries
    BY <1>2
  <2>2. QED
    BY <2>1 DEF Deliveries
<1> HIDE DEF Mark, new
<1>5. marked \in Seq(Deliveries) /\ Len(marked) = Len(requests)
  BY <1>2, <1>4
<1>6. /\ requests' \in Seq(Deliveries) /\ Len(requests') = Len(requests) + 1
      /\ \A i \in DOMAIN requests : requests'[i] = Mark(i)
      /\ requests'[Len(requests) + 1] = new
  <2>1. \A i \in DOMAIN requests : marked[i] = Mark(i)
    OBVIOUS
  <2> HIDE DEF marked
  <2>2. QED
    BY <1>1, <1>2, <1>3, <1>5, <2>1
<1>7. DOMAIN requests' = DOMAIN requests \cup {Len(requests) + 1}
  BY <1>2, <1>6
<1>8. QED
  BY <1>1, <1>3, <1>4, <1>6, <1>7
LEMMA ArriveType ==
  ASSUME TypeOK, NEW e \in sent, Arrive(e)
  PROVE  TypeOK'
<1>1. /\ requests' \in Seq(Deliveries) /\ UNCHANGED <<hooks, pr, sent, previews>>
      /\ Len(requests') = Len(requests) + 1
  BY ArriveMoves
<1>2. requests' \in Seq(Deliveries')
  BY <1>1 DEF Deliveries
<1>3. left' \in Amounts
  BY SpendType DEF Arrive, TypeOK
<1>4. ASSUME NEW i \in DOMAIN requests', requests'[i].pc = "patch"
      PROVE  requests'[i].hook \in DOMAIN hooks
  <2>1. i \in DOMAIN requests \/ i = Len(requests) + 1
    BY ArriveMoves
  <2>2. CASE i = Len(requests) + 1
    <3>1. requests'[i].pc = "hook"
      BY <2>2, ArriveMoves
    <3>2. QED
      BY <1>4, <3>1
  <2>3. CASE i \in DOMAIN requests
    BY <1>4, <2>3, ArriveMoves DEF TypeOK
  <2>4. QED
    BY <2>1, <2>2, <2>3
<1>5. PullRequestEvents' = PullRequestEvents /\ PushEvents' = PushEvents
  BY <1>1 DEF PullRequestEvents, PushEvents
<1>6. QED
  BY <1>1, <1>2, <1>3, <1>4, <1>5 DEF TypeOK

LEMMA EventCases ==
  ASSUME Next
  PROVE  Happens \/ (\E e \in sent : Arrive(e)) \/ \E i \in DOMAIN requests : Handle(i)
BY DEF Next, Github, Happens

LEMMA NextEventType ==
  ASSUME TypeOK, IsFiniteSet(sent), [Next]_vars
  PROVE  TypeOK' /\ IsFiniteSet(sent') /\ UNCHANGED hooks
<1>1. ASSUME NEW e \in sent, Arrive(e) PROVE TypeOK' /\ IsFiniteSet(sent') /\ UNCHANGED hooks
  BY <1>1, ArriveType, ArriveMoves
<1>2. ASSUME NEW i \in DOMAIN requests, Handle(i)
      PROVE  TypeOK' /\ IsFiniteSet(sent') /\ UNCHANGED hooks
  BY <1>2, HandleType, HandleMoves
<1>3. CASE UNCHANGED vars
  <2>1. PullRequestEvents' = PullRequestEvents /\ PushEvents' = PushEvents /\ Deliveries' = Deliveries
    BY <1>3 DEF vars, PullRequestEvents, PushEvents, Deliveries
  <2>2. QED
    BY <1>3, <2>1 DEF vars, TypeOK
<1>4. QED
  BY <1>1, <1>2, <1>3, HappensType, EventCases

\* Which step leads where.
LEMMA PcOf ==
  ASSUME TypeOK, NEW i \in DOMAIN requests, Handle(i)
  PROVE  /\ requests'[i].pc = "ok" => Finish(i)
         /\ requests'[i].pc = "patch" =>
              AlreadyExists(i) /\ ActionOf(HookOf(i), Event(i)) # "create"
<1>1. requests[i] \in Deliveries
  BY DEF TypeOK
<1>2. ASSUME NextHook(i) PROVE requests'[i].pc = "hook"
  BY <1>1, <1>2 DEF NextHook, Deliveries
<1>3. ASSUME NEW pc \in {"patch", "ok", "broken"}, requests' = [requests EXCEPT ![i].pc = pc]
      PROVE  requests'[i].pc = pc
  BY <1>1, <1>3 DEF Deliveries
<1>4. QED
  BY <1>2, <1>3 DEF Handle, Skip, Create, AlreadyExists, Patch, PatchNotFound, Delete, Finish,
     CallFails

\* Where deliveries are carries over.
LEMMA PlaceNext ==
  ASSUME EventInv, [Next]_vars
  PROVE  PlaceInv'
<1>1. TypeOK /\ IsFiniteSet(sent) /\ PlaceInv /\ UNCHANGED hooks
  BY NextEventType DEF EventInv
<1>2. ASSUME UNCHANGED requests PROVE PlaceInv'
  BY <1>1, <1>2 DEF PlaceInv, PlaceOf, HookOf, Event
<1>3. ASSUME NEW e \in sent, Arrive(e), NEW i \in DOMAIN requests' PROVE PlaceOf(i)'
  <2>1. i \in DOMAIN requests \/ i = Len(requests) + 1
    BY <1>1, <1>3, ArriveMoves
  <2>2. CASE i \in DOMAIN requests
    <3>1. /\ requests'[i].event = requests[i].event /\ requests'[i].hook = requests[i].hook
          /\ requests'[i].pc = requests[i].pc
      BY <1>1, <1>3, <2>2, ArriveMoves
    <3>2. HookOf(i)' = HookOf(i) /\ Event(i)' = Event(i)
      BY <1>1, <3>1 DEF HookOf, Event
    <3>3. PlaceOf(i)
      BY <1>1, <2>2 DEF PlaceInv
    <3>4. QED
      BY <1>1, <3>1, <3>2, <3>3 DEF PlaceOf
  <2>3. CASE i = Len(requests) + 1
    <3>1. requests'[i].pc = "hook"
      BY <1>1, <1>3, <2>3, ArriveMoves
    <3>2. QED
      BY <3>1 DEF PlaceOf
  <2>4. QED
    BY <2>1, <2>2, <2>3
<1>4. ASSUME NEW i \in DOMAIN requests, Handle(i), NEW j \in DOMAIN requests' PROVE PlaceOf(j)'
  <2>1. Moved(i) /\ j \in DOMAIN requests
    BY <1>1, <1>4, HandleMoves DEF Moved, TypeOK
  <2>2. PlaceOf(j)
    BY <1>1, <2>1 DEF PlaceInv
  <2>3. CASE j # i
    BY <1>1, <2>1, <2>2, <2>3 DEF Moved, PlaceOf, HookOf, Event
  <2>4. CASE j = i
    <3>1. /\ requests'[i].event = requests[i].event
          /\ \/ requests'[i].pc = "hook"
             \/ /\ requests'[i].hook = requests[i].hook
                /\ requests'[i].pc \in {"patch", "ok", "broken"}
      BY <1>1, <1>4, HandleMoves DEF Moved
    <3>2. requests'[i].pc = "ok" => Finish(i)
      BY <1>1, <1>4, PcOf
    <3>3. requests'[i].pc = "patch" =>
            /\ Accepts(HookOf(i), Event(i)) /\ ActionOf(HookOf(i), Event(i)) = "apply"
      BY <1>1, <1>4, PcOf DEF AlreadyExists, Doing
    <3>4. requests'[i].hook = requests[i].hook =>
            HookOf(i)' = HookOf(i) /\ Event(i)' = Event(i)
      BY <1>1, <3>1 DEF HookOf, Event
    <3>5. QED
      BY <1>1, <2>4, <3>1, <3>2, <3>3, <3>4 DEF PlaceOf, Finish
  <2>5. QED
    BY <2>3, <2>4
<1>5. CASE UNCHANGED vars
  BY <1>2, <1>5 DEF vars
<1>6. CASE Happens
  BY <1>1, <1>2, <1>6, HappensType
<1>7. QED
  BY <1>3, <1>4, <1>5, <1>6, EventCases DEF PlaceInv

LEMMA EventNextInv == EventInv /\ [Next]_vars => EventInv'
BY NextEventType, PlaceNext DEF EventInv

LEMMA EventInitInv == Init => EventInv
<1> SUFFICES ASSUME Init PROVE EventInv
  OBVIOUS
<1>1. PICK budget \in Budgets : hooks = budget.hooks /\ left = budget.left
  BY DEF Init
<1>2. left \in Amounts
  BY <1>1, BudgetsAssumption
<1>3. pr \in [state : {"new", "open", "closed"}, head : Heads, base : Bases, labels : SUBSET Labels]
  BY HeadsAssumption DEF Init
<1>4. IsFiniteSet(sent) /\ requests = <<>> /\ sent = {}
  BY FS_EmptySet DEF Init
<1>5. DOMAIN previews = DOMAIN hooks /\ \A h \in DOMAIN hooks : DOMAIN previews[h] = Names
  BY DEF Init
<1>6. TypeOK
  BY <1>1, <1>2, <1>3, <1>4, <1>5 DEF TypeOK
<1>7. QED
  BY <1>4, <1>6 DEF EventInv, PlaceInv

LEMMA AlwaysEventInv == Spec => []EventInv
BY EventInitInv, EventNextInv, PTL DEF Spec

\* Every reachable state is well typed: events, deliveries and amounts left are
\* what they should be, and a delivery never gets past the end of the hooks
\* (github/pull_request.go:28).
THEOREM EventTypeCorrect == Spec => []TypeOK
<1>1. EventInv => TypeOK
  BY DEF EventInv
<1>2. QED
  BY <1>1, AlwaysEventInv, PTL
-----------------------------------------------------------------------------
(* What a hook shows has activated it                                      *)

\* The one preview that a step of Handle writes.
LEMMA WriteAt ==
  ASSUME TypeOK, NEW i \in DOMAIN requests, requests[i].hook \in DOMAIN hooks,
         NEW value, Write(i, value)
  PROVE  /\ NameOf(HookOf(i), Event(i)) \in Names
         /\ previews'[requests[i].hook][NameOf(HookOf(i), Event(i))] = value
         /\ \A n \in Names : n # NameOf(HookOf(i), Event(i)) =>
              previews'[requests[i].hook][n] = previews[requests[i].hook][n]
         /\ \A h \in DOMAIN hooks : h # requests[i].hook => previews'[h] = previews[h]
<1>1. NameOf(HookOf(i), Event(i)) \in Names
  BY HooksType, DeliveryType DEF NameOf, HookOf
<1>2. DOMAIN previews = DOMAIN hooks /\ DOMAIN previews[requests[i].hook] = Names
  BY DEF TypeOK
<1>3. PICK n : n = NameOf(HookOf(i), Event(i))
  OBVIOUS
<1>4. previews' = [previews EXCEPT ![requests[i].hook][n] = value]
  BY <1>3 DEF Write
<1>5. QED
  BY <1>1, <1>2, <1>3, <1>4

\* A step of Handle leaves the previews alone, or its hook accepts the event.
LEMMA HandleWrites ==
  ASSUME TypeOK, PlaceInv, NEW i \in DOMAIN requests, Handle(i)
  PROVE  \/ UNCHANGED previews
         \/ /\ Delete(i) /\ Accepts(HookOf(i), Event(i))
            /\ ActionOf(HookOf(i), Event(i)) = "delete" /\ requests[i].hook \in DOMAIN hooks
         \/ /\ Write(i, Content(HookOf(i), Event(i))) /\ Accepts(HookOf(i), Event(i))
            /\ ActionOf(HookOf(i), Event(i)) # "delete" /\ requests[i].hook \in DOMAIN hooks
<1>1. requests[i].pc = "patch" =>
        /\ Accepts(HookOf(i), Event(i)) /\ ActionOf(HookOf(i), Event(i)) = "apply"
        /\ requests[i].hook \in DOMAIN hooks
  BY DEF PlaceInv, PlaceOf, TypeOK
<1>2. QED
  BY <1>1 DEF Handle, Skip, Create, AlreadyExists, Patch, PatchNotFound, Delete, Finish, CallFails,
     Patching, Doing, AtHook

ShownInv ==
  \A h \in DOMAIN hooks : \A n \in Names :
    hooks[h].version = "beta" /\ previews[h][n] # NoPreview => Accepts(hooks[h], previews[h][n])

LEMMA ShownHandle ==
  ASSUME TypeOK, PlaceInv, ShownInv, NEW i \in DOMAIN requests, Handle(i)
  PROVE  ShownInv'
<1> USE DEF ShownInv
<1> SUFFICES ASSUME NEW h \in DOMAIN hooks, NEW n \in Names, hooks[h].version = "beta",
                    previews'[h][n] # NoPreview
             PROVE  Accepts(hooks[h], previews'[h][n])
  BY HandleMoves DEF Accepts
<1>1. CASE previews'[h][n] = previews[h][n]
  BY <1>1
<1>2. ASSUME NEW value, Write(i, value), requests[i].hook \in DOMAIN hooks,
             previews'[h][n] # previews[h][n]
      PROVE  h = requests[i].hook /\ previews'[h][n] = value
  BY <1>2, WriteAt
<1>3. CASE Delete(i) /\ requests[i].hook \in DOMAIN hooks
  <2>1. CASE HookOf(i).version = "beta"
    BY <1>1, <1>2, <1>3, <2>1 DEF Delete
  <2>2. CASE HookOf(i).version # "beta"
    <3>1. previews' = [previews EXCEPT ![requests[i].hook] = [m \in Names |-> NoPreview]]
      BY <1>3, <2>2 DEF Delete
    <3>2. h # requests[i].hook
      BY <2>2 DEF HookOf
    <3>3. QED
      BY <1>1, <3>1, <3>2 DEF TypeOK
  <2>3. QED
    BY <2>1, <2>2
<1>4. CASE /\ Write(i, Content(HookOf(i), Event(i))) /\ Accepts(HookOf(i), Event(i))
           /\ requests[i].hook \in DOMAIN hooks
  BY <1>1, <1>2, <1>4 DEF Content, HookOf
<1>5. QED
  BY <1>1, <1>3, <1>4, HandleWrites

LEMMA ShownNext ==
  ASSUME EventInv, ShownInv, [Next]_vars
  PROVE  ShownInv'
<1>1. TypeOK /\ IsFiniteSet(sent) /\ PlaceInv
  BY DEF EventInv
<1>2. CASE UNCHANGED <<hooks, previews>>
  BY <1>2 DEF ShownInv
<1>3. ASSUME NEW e \in sent, Arrive(e) PROVE ShownInv'
  BY <1>2, <1>3 DEF Arrive
<1>4. CASE Happens
  BY <1>1, <1>2, <1>4, HappensType
<1>5. CASE UNCHANGED vars
  BY <1>2, <1>5 DEF vars
<1>6. QED
  BY <1>1, <1>3, <1>4, <1>5, ShownHandle, EventCases

\* An event that a hook accepts is one that it is to show.
LEMMA AcceptsWanted ==
  ASSUME NEW hook, hook.version = "beta", NEW e, Accepts(hook, e)
  PROVE  IF e.action = "push" THEN hook.push # NoPush /\ Wanted(hook.push, e.ref)
         ELSE hook.pullRequest # NoPullRequest
<1>1. CASE e.action # "push"
  BY <1>1 DEF Accepts, AcceptsPullRequest
<1>2. CASE e.action = "push"
  <2>1. AcceptsPush(hook.push, e)
    BY <1>2 DEF Accepts
  <2>2. ASSUME NEW filter, filter # NoFilter, FilterWebhook(filter, {e.ref.name})
        PROVE  Matches(filter, e.ref.name)
    BY <2>2 DEF FilterWebhook, FilterByConditions, Matches
  <2>3. QED
    BY <1>2, <2>1, <2>2 DEF AcceptsPush, ParseRef, Wanted
<1>3. QED
  BY <1>1, <1>2

\* Whatever calls put it there, what a hook shows is an event of a kind, and for
\* a push of a ref, that the hook has been activated for (push_beta.go:43).
THEOREM WantedIsShown == Spec => []ShowsWanted
<1>1. Init => ShownInv
  BY DEF Init, ShownInv
<1>2. EventInv /\ ShownInv /\ [Next]_vars => ShownInv'
  BY ShownNext
<1>3. EventInv /\ ShownInv => ShowsWanted
  BY AcceptsWanted DEF ShownInv, ShowsWanted
<1>4. QED
  BY <1>1, <1>2, <1>3, AlwaysEventInv, PTL DEF Spec
-----------------------------------------------------------------------------
(* The last delivery that a hook accepted decides                          *)

\* While a delivery is alone no other one runs, and none before it ever again.
AloneInv ==
  \A i, j \in DOMAIN requests :
    requests[i].alone /\ j # i /\ Running(j) => i < j /\ ~Running(i)

\* A hook whose names do not change has one preview at most.
OneNameInv ==
  \A h \in DOMAIN hooks : hooks[h].version = "beta" /\ StableNames(hooks[h]) =>
    \A x \in Heads, n \in Names : n # hooks[h].names[x] => previews[h][n] = NoPreview

\* A delivery that is alone has its preview to patch.
PatchInv ==
  \A i \in DOMAIN requests :
    requests[i].alone /\ requests[i].pc = "patch" => Here(i) # NoPreview

\* What an event leaves at a hook that accepts it.
Outcome(h, e) ==
  /\ ActionOf(hooks[h], e) = "delete" /\ (hooks[h].version = "beta" => StableNames(hooks[h]))
       => \A n \in Names : previews[h][n] = NoPreview
  /\ ActionOf(hooks[h], e) = "apply"
       => previews[h][NameOf(hooks[h], e)] = Content(hooks[h], e)
IsLastAt(i, h) ==
  Accepts(hooks[h], Event(i)) /\ \A j \in i + 1 .. Len(requests) : ~Accepts(hooks[h], Event(j))
DecidedInv ==
  \A i \in DOMAIN requests : \A h \in DOMAIN hooks :
    requests[i].alone /\ h < requests[i].hook /\ IsLastAt(i, h) => Outcome(h, Event(i))

ShowInv == AloneInv /\ OneNameInv /\ PatchInv /\ DecidedInv

\* A delivery does not become another one, and does not run again.
LEMMA HandleKeeps ==
  ASSUME TypeOK, NEW k \in DOMAIN requests, Handle(k), NEW i \in DOMAIN requests
  PROVE  /\ DOMAIN requests' = DOMAIN requests /\ Len(requests') = Len(requests)
         /\ requests'[i].event = requests[i].event /\ requests'[i].alone = requests[i].alone
         /\ Running(k) /\ (Running(i)' => Running(i))
         /\ i # k => requests'[i] = requests[i]
         /\ hooks' = hooks
<1>1. Moved(k) /\ Running(k) /\ hooks' = hooks
  BY HandleMoves
<1>2. DOMAIN requests' = DOMAIN requests
  BY <1>1 DEF Moved, TypeOK
<1>3. QED
  BY <1>1, <1>2 DEF Moved, Running

LEMMA AloneHandle ==
  ASSUME TypeOK, AloneInv, NEW k \in DOMAIN requests, Handle(k)
  PROVE  AloneInv'
<1>1. DOMAIN requests' = DOMAIN requests
  BY HandleKeeps
<1> SUFFICES ASSUME NEW i \in DOMAIN requests, NEW j \in DOMAIN requests,
                    requests'[i].alone, j # i, Running(j)'
             PROVE  i < j /\ ~Running(i)'
  BY <1>1 DEF AloneInv
<1>2. requests[i].alone /\ Running(j) /\ (Running(i)' => Running(i))
  BY HandleKeeps
<1>3. QED
  BY <1>2 DEF AloneInv

LEMMA AloneArrive ==
  ASSUME TypeOK, AloneInv, NEW e \in sent, Arrive(e)
  PROVE  AloneInv'
<1>1. DOMAIN requests = 1 .. Len(requests) /\ Len(requests) \in Nat
  BY DEF TypeOK
<1> SUFFICES ASSUME NEW i \in DOMAIN requests', NEW j \in DOMAIN requests',
                    requests'[i].alone, j # i, Running(j)'
             PROVE  i < j /\ ~Running(i)'
  BY DEF AloneInv
<1>2. i \in DOMAIN requests \/ i = Len(requests) + 1
  BY ArriveMoves
<1>3. j \in DOMAIN requests \/ j = Len(requests) + 1
  BY ArriveMoves
<1>4. \A k \in DOMAIN requests : Running(k)' = Running(k)
  BY ArriveMoves DEF Running
<1>5. CASE i = Len(requests) + 1
  <2>1. \A k \in DOMAIN requests : ~Running(k)
    BY <1>5, ArriveMoves
  <2>2. QED
    BY <1>3, <1>4, <1>5, <2>1
<1>6. CASE i \in DOMAIN requests
  <2>1. requests[i].alone /\ ~Running(i)
    BY <1>6, ArriveMoves
  <2>2. QED
    BY <1>1, <1>3, <1>4, <1>6, <2>1 DEF AloneInv
<1>7. QED
  BY <1>2, <1>5, <1>6

LEMMA OneNameHandle ==
  ASSUME TypeOK, PlaceInv, OneNameInv, NEW k \in DOMAIN requests, Handle(k)
  PROVE  OneNameInv'
<1>1. hooks' = hooks
  BY HandleMoves
<1> SUFFICES ASSUME NEW h \in DOMAIN hooks, hooks[h].version = "beta", StableNames(hooks[h]),
                    NEW x \in Heads, NEW n \in Names, n # hooks[h].names[x]
             PROVE  previews'[h][n] = NoPreview
  BY <1>1 DEF OneNameInv, StableNames
<1>2. previews[h][n] = NoPreview
  BY DEF OneNameInv
<1>3. Event(k).head \in Heads
  BY DeliveryType
<1>4. CASE requests[k].hook \in DOMAIN hooks /\ requests[k].hook # h
  <2>1. ASSUME NEW value, Write(k, value) PROVE previews'[h][n] = previews[h][n]
    BY <1>4, <2>1, WriteAt
  <2>2. ASSUME previews' = [previews EXCEPT ![requests[k].hook] = [m \in Names |-> NoPreview]]
        PROVE  previews'[h][n] = previews[h][n]
    BY <1>4, <2>2 DEF TypeOK
  <2>3. QED
    BY <1>2, <2>1, <2>2, HandleWrites DEF Delete
<1>5. CASE requests[k].hook = h
  <2>1. ASSUME NEW value, Write(k, value) PROVE previews'[h][n] = previews[h][n]
    <3>1. NameOf(HookOf(k), Event(k)) # n
      BY <1>3, <1>5 DEF StableNames, NameOf, HookOf
    <3>2. QED
      BY <1>5, <2>1, <3>1, WriteAt
  <2>2. Delete(k) => Write(k, NoPreview)
    BY <1>5 DEF Delete, HookOf
  <2>3. QED
    BY <1>2, <2>1, <2>2, HandleWrites
<1>6. CASE UNCHANGED previews
  BY <1>2, <1>6
<1>7. QED
  BY <1>4, <1>5, <1>6, HandleWrites

LEMMA PatchHandle ==
  ASSUME TypeOK, PlaceInv, AloneInv, PatchInv, NEW k \in DOMAIN requests, Handle(k)
  PROVE  PatchInv'
<1>1. DOMAIN requests' = DOMAIN requests /\ hooks' = hooks
  BY HandleKeeps
<1> SUFFICES ASSUME NEW i \in DOMAIN requests, requests'[i].alone, requests'[i].pc = "patch"
             PROVE  Here(i)' # NoPreview
  BY <1>1 DEF PatchInv
<1>2. requests[i].alone /\ Running(k) /\ Running(i)
  BY HandleKeeps DEF Running
<1>3. i = k
  BY <1>2 DEF AloneInv
<1>4. AlreadyExists(i)
  BY <1>3, PcOf
<1>5. requests'[i].hook = requests[i].hook /\ requests'[i].event = requests[i].event
  BY <1>3, HandleMoves DEF Moved
<1>6. Here(i)' = Here(i)
  BY <1>1, <1>4, <1>5 DEF AlreadyExists, Here, HookOf, Event, NameOf
<1>7. QED
  BY <1>4, <1>6 DEF AlreadyExists
\* A step leaves the previews of the other hooks alone, and those of a hook that
\* does not accept its event.
LEMMA KeptAt ==
  ASSUME TypeOK, PlaceInv, NEW k \in DOMAIN requests, Handle(k), NEW h \in DOMAIN hooks,
         requests[k].hook # h \/ ~Accepts(hooks[h], Event(k))
  PROVE  previews'[h] = previews[h]
<1>1. CASE requests[k].hook # h /\ requests[k].hook \in DOMAIN hooks
  <2>1. ASSUME NEW value, Write(k, value) PROVE previews'[h] = previews[h]
    BY <1>1, <2>1, WriteAt
  <2>2. ASSUME previews' = [previews EXCEPT ![requests[k].hook] = [m \in Names |-> NoPreview]]
        PROVE  previews'[h] = previews[h]
    BY <1>1, <2>2 DEF TypeOK
  <2>3. QED
    BY <2>1, <2>2, HandleWrites DEF Delete
<1>2. QED
  BY <1>1, HandleWrites DEF HookOf

\* A delivery that has passed a hook which accepts its event has done there what
\* the event asks for.
LEMMA PassedHere ==
  ASSUME TypeOK, PlaceInv, OneNameInv, PatchInv, NEW i \in DOMAIN requests, Handle(i),
         requests[i].alone, NEW h \in DOMAIN hooks, h = requests[i].hook,
         Accepts(HookOf(i), Event(i)), requests'[i].hook # h
  PROVE  Outcome(h, Event(i))'
<1> DEFINE e == Event(i)
<1>1. /\ hooks' = hooks /\ requests'[i].pc = "hook" /\ Event(i)' = e /\ HookOf(i) = hooks[h]
  BY HandleMoves DEF Moved, Event, HookOf
<1> SUFFICES /\ ActionOf(HookOf(i), e) = "delete"
                  /\ (HookOf(i).version = "beta" => StableNames(HookOf(i)))
                  => \A n \in Names : previews'[h][n] = NoPreview
             /\ ActionOf(HookOf(i), e) = "apply"
                  => previews'[h][NameOf(HookOf(i), e)] = Content(HookOf(i), e)
  <2> DEFINE Left(hook, f) ==
               /\ ActionOf(hook, f) = "delete" /\ (hook.version = "beta" => StableNames(hook))
                    => \A n \in Names : previews'[h][n] = NoPreview
               /\ ActionOf(hook, f) = "apply"
                    => previews'[h][NameOf(hook, f)] = Content(hook, f)
  <2>1. Left(hooks'[h], Event(i)')
    BY <1>1
  <2>2. QED
    BY <2>1 DEF Outcome, ActionOf, StableNames, NameOf, Content
<1>2. CASE Delete(i) /\ ActionOf(HookOf(i), e) = "delete"
  <2>1. CASE HookOf(i).version # "beta"
    <3>1. previews' = [previews EXCEPT ![h] = [n \in Names |-> NoPreview]]
      BY <1>2, <2>1 DEF Delete
    <3>2. previews'[h] = [n \in Names |-> NoPreview]
      BY <3>1 DEF TypeOK
    <3>3. QED
      BY <1>2, <3>2
  <2>2. CASE HookOf(i).version = "beta"
    <3>1. Write(i, NoPreview)
      BY <1>2, <2>2 DEF Delete
    <3>2. ASSUME StableNames(HookOf(i)), NEW n \in Names PROVE previews'[h][n] = NoPreview
      <4>1. CASE n = NameOf(HookOf(i), e)
        BY <3>1, <4>1, WriteAt
      <4>2. CASE n # NameOf(HookOf(i), e)
        <5>1. e.head \in Heads
          BY DeliveryType
        <5>2. previews[h][n] = NoPreview
          BY <2>2, <3>2, <4>2, <5>1 DEF OneNameInv, HookOf, NameOf
        <5>3. QED
          BY <3>1, <4>2, <5>2, WriteAt
      <4>3. QED
        BY <4>1, <4>2
    <3>3. QED
      BY <1>2, <2>2, <3>2
  <2>3. QED
    BY <2>1, <2>2
<1>3. CASE Write(i, Content(HookOf(i), e)) /\ ActionOf(HookOf(i), e) # "delete"
  BY <1>3, WriteAt
<1>4. CASE UNCHANGED previews
  <2>1. ASSUME ActionOf(HookOf(i), e) \in {"apply", "delete"}
        PROVE  Create(i) \/ Patch(i) \/ Delete(i)
    <3>1. ~Skip(i)
      BY DEF Skip
    <3>2. ~Finish(i)
      BY DEF Finish
    <3>3. ~CallFails(i)
      BY <1>1, StayMoves DEF CallFails
    <3>4. ~AlreadyExists(i)
      BY <1>1, <2>1, StayMoves DEF AlreadyExists, Doing
    <3>5. ~PatchNotFound(i)
      BY <2>1 DEF PatchNotFound, PatchInv, Patching, Doing
    <3>6. QED
      BY <3>1, <3>2, <3>3, <3>4, <3>5 DEF Handle
  <2>2. ASSUME ActionOf(HookOf(i), e) = "apply"
        PROVE  Write(i, Content(HookOf(i), e))
    BY <2>1, <2>2 DEF Create, Patch, Delete, Doing
  <2>3. ASSUME ActionOf(HookOf(i), e) = "delete" PROVE Delete(i)
    BY <2>1, <2>3 DEF Create, Patch, Patching, Doing, PlaceInv, PlaceOf
  <2>4. QED
    BY <1>2, <1>3, <2>2, <2>3
<1>5. QED
  BY <1>2, <1>3, <1>4, HandleWrites

LEMMA DecidedHandle ==
  ASSUME TypeOK, PlaceInv, ShowInv, NEW k \in DOMAIN requests, Handle(k)
  PROVE  DecidedInv'
<1>1. /\ DOMAIN requests' = DOMAIN requests /\ Len(requests') = Len(requests) /\ hooks' = hooks
      /\ DOMAIN requests = 1 .. Len(requests) /\ Len(requests) \in Nat
      /\ \A i \in DOMAIN requests : Event(i)' = Event(i)
  BY HandleKeeps, DeliveryType DEF Event
<1> SUFFICES ASSUME NEW i \in DOMAIN requests, NEW h \in DOMAIN hooks,
                    requests'[i].alone, h < requests'[i].hook, IsLastAt(i, h)'
             PROVE  Outcome(h, Event(i))'
  BY <1>1 DEF DecidedInv
<1>2. IsLastAt(i, h) /\ requests[i].alone
  <2>1. Accepts(hooks[h], Event(i))
    BY <1>1 DEF IsLastAt, Accepts
  <2>2. ASSUME NEW j \in i + 1 .. Len(requests) PROVE ~Accepts(hooks[h], Event(j))
    <3>1. j \in DOMAIN requests
      BY <1>1
    <3>2. QED
      BY <1>1, <2>2, <3>1 DEF IsLastAt, Accepts
  <2>3. requests[i].alone
    BY HandleKeeps
  <2>4. QED
    BY <2>1, <2>2, <2>3 DEF IsLastAt
<1>3. ASSUME previews'[h] = previews[h], h < requests[i].hook PROVE Outcome(h, Event(i))'
  <2>1. Outcome(h, Event(i))
    BY <1>2, <1>3 DEF ShowInv, DecidedInv
  <2>2. Event(i)' = Event(i)
    BY <1>1
  <2>3. QED
    BY <1>1, <1>3, <2>1, <2>2 DEF Outcome, ActionOf, StableNames, NameOf, Content
<1>4. CASE i # k
  <2>1. i < k
    BY <1>2, <1>4, HandleKeeps DEF ShowInv, AloneInv
  <2>2. k \in i + 1 .. Len(requests)
    BY <1>1, <2>1
  <2>3. previews'[h] = previews[h]
    BY <1>2, <2>2, KeptAt DEF IsLastAt
  <2>4. QED
    BY <1>3, <1>4, <2>3, HandleKeeps
<1>5. CASE i = k
  <2>1. requests[i].hook \in Nat /\ h \in Nat
    BY HooksType, DeliveryType DEF Deliveries
  <2>2. CASE h < requests[i].hook
    BY <1>3, <1>5, <2>1, <2>2, KeptAt
  <2>3. CASE ~(h < requests[i].hook)
    <3>1. /\ requests'[i].hook = requests[i].hook + 1 \/ requests'[i].hook = requests[i].hook
      BY <1>5, HandleMoves
    <3>2. h = requests[i].hook /\ requests'[i].hook # requests[i].hook
      BY <2>1, <2>3, <3>1
    <3>3. Accepts(HookOf(i), Event(i))
      BY <1>2, <3>2 DEF IsLastAt, HookOf
    <3>4. QED
      BY <1>2, <1>5, <3>2, <3>3, PassedHere DEF ShowInv
  <2>4. QED
    BY <2>2, <2>3
<1>6. QED
  BY <1>4, <1>5
LEMMA DecidedArrive ==
  ASSUME TypeOK, ShowInv, NEW e \in sent, Arrive(e)
  PROVE  PatchInv' /\ DecidedInv' /\ OneNameInv'
<1>1. /\ DOMAIN requests = 1 .. Len(requests) /\ Len(requests) \in Nat
      /\ Len(requests') = Len(requests) + 1 /\ hooks' = hooks /\ previews' = previews
  BY ArriveMoves DEF TypeOK
<1>2. \A i \in DOMAIN requests' : i \in DOMAIN requests \/ i = Len(requests) + 1
  BY ArriveMoves
<1>3. \A i \in DOMAIN requests : Event(i)' = Event(i) /\ Here(i)' = Here(i)
  BY <1>1, ArriveMoves DEF Event, Here, HookOf, NameOf
<1>4. PatchInv'
  <2> SUFFICES ASSUME NEW i \in DOMAIN requests', requests'[i].alone, requests'[i].pc = "patch"
               PROVE  Here(i)' # NoPreview
    BY DEF PatchInv
  <2>1. CASE i \in DOMAIN requests
    BY <1>3, <2>1, ArriveMoves DEF ShowInv, PatchInv
  <2>2. CASE i = Len(requests) + 1
    <3>1. requests'[i].pc = "hook"
      BY <2>2, ArriveMoves
    <3>2. QED
      BY <3>1
  <2>3. QED
    BY <1>2, <2>1, <2>2
<1>5. DecidedInv'
  <2> SUFFICES ASSUME NEW i \in DOMAIN requests', NEW h \in DOMAIN hooks,
                      requests'[i].alone, h < requests'[i].hook, IsLastAt(i, h)'
               PROVE  Outcome(h, Event(i))'
    BY <1>1 DEF DecidedInv
  <2>1. CASE i = Len(requests) + 1
    <3>1. requests'[i].hook = 1
      BY <2>1, ArriveMoves
    <3>2. h \in 1 .. Len(hooks)
      BY HooksType
    <3>3. QED
      BY <3>1, <3>2
  <2>2. CASE i \in DOMAIN requests
    <3>1. requests[i].alone /\ h < requests[i].hook
      BY <2>2, ArriveMoves
    <3>2. Accepts(hooks[h], Event(i))
      BY <1>1, <1>3, <2>2 DEF IsLastAt, Accepts
    <3>3. ASSUME NEW j \in i + 1 .. Len(requests) PROVE ~Accepts(hooks[h], Event(j))
      <4>1. j \in DOMAIN requests /\ j \in i + 1 .. Len(requests')
        BY <1>1, <2>2
      <4>2. QED
        BY <1>1, <1>3, <4>1 DEF IsLastAt, Accepts
    <3>4. Outcome(h, Event(i))
      BY <2>2, <3>1, <3>2, <3>3 DEF ShowInv, DecidedInv, IsLastAt
    <3>5. QED
      BY <1>1, <1>3, <2>2, <3>4 DEF Outcome, ActionOf, StableNames, NameOf, Content
  <2>3. QED
    BY <1>2, <2>1, <2>2
<1>6. OneNameInv'
  BY <1>1 DEF ShowInv, OneNameInv, StableNames
<1>7. QED
  BY <1>4, <1>5, <1>6

LEMMA ShowNext ==
  ASSUME EventInv, ShowInv, [Next]_vars
  PROVE  ShowInv'
<1>1. TypeOK /\ IsFiniteSet(sent) /\ PlaceInv /\ AloneInv /\ OneNameInv /\ PatchInv
  BY DEF EventInv, ShowInv
<1>2. ASSUME NEW i \in DOMAIN requests, Handle(i) PROVE ShowInv'
  BY <1>1, <1>2, AloneHandle, OneNameHandle, PatchHandle, DecidedHandle DEF ShowInv
<1>3. ASSUME NEW e \in sent, Arrive(e) PROVE ShowInv'
  BY <1>1, <1>3, AloneArrive, DecidedArrive DEF ShowInv
<1>4. ASSUME UNCHANGED <<hooks, requests, previews>> PROVE ShowInv'
  <2>1. AloneInv'
    BY <1>1, <1>4 DEF AloneInv, Running
  <2>2. OneNameInv'
    BY <1>1, <1>4 DEF OneNameInv, StableNames
  <2>3. PatchInv'
    BY <1>1, <1>4 DEF PatchInv, Here, HookOf, NameOf, Event
  <2>4. ASSUME NEW i \in DOMAIN requests, NEW h \in DOMAIN hooks
        PROVE  /\ (Outcome(h, Event(i)))' <=> Outcome(h, Event(i))
               /\ IsLastAt(i, h)' <=> IsLastAt(i, h)
    BY <1>4 DEF Outcome, IsLastAt, Event, ActionOf, StableNames, NameOf, Content, Accepts
  <2>5. DecidedInv'
    BY <1>4, <2>4 DEF ShowInv, DecidedInv
  <2>6. QED
    BY <2>1, <2>2, <2>3, <2>5 DEF ShowInv
<1>5. CASE Happens
  BY <1>1, <1>4, <1>5, HappensType
<1>6. CASE UNCHANGED vars
  BY <1>4, <1>6 DEF vars
<1>7. QED
  BY <1>2, <1>3, <1>5, <1>6, EventCases

LEMMA AlwaysShowInv == Spec => []ShowInv
<1>1. Init => ShowInv
  <2> SUFFICES ASSUME Init PROVE ShowInv
    OBVIOUS
  <2>1. requests = <<>>
    BY DEF Init
  <2>2. OneNameInv
    BY DEF Init, OneNameInv
  <2>3. QED
    BY <2>1, <2>2 DEF ShowInv, AloneInv, PatchInv, DecidedInv
<1>2. QED
  BY <1>1, ShowNext, AlwaysEventInv, PTL DEF Spec

\* A delivery that decides has passed all hooks.
LEMMA DecidesOutcome ==
  ASSUME EventInv, ShowInv, NEW h \in DOMAIN hooks, NEW i \in DOMAIN requests, Decides(i, h)
  PROVE  Outcome(h, Event(i))
<1>1. requests[i].pc = "ok" /\ requests[i].alone /\ IsLastAt(i, h)
  BY DEF Decides, IsLastAt
<1>2. requests[i].hook \notin DOMAIN hooks
  BY <1>1 DEF EventInv, PlaceInv, PlaceOf
<1>3. h < requests[i].hook
  BY <1>2, HooksType, DeliveryType DEF EventInv, Deliveries
<1>4. QED
  BY <1>1, <1>3 DEF ShowInv, DecidedInv

\* The last event that a hook accepted is what it shows, whatever the hooks
\* before it did, for any hooks and deliveries (pull_request.go:28).
THEOREM LatestIsShown == Spec => []ShowsLatest
<1>1. EventInv /\ ShowInv => ShowsLatest
  BY DecidesOutcome DEF ShowsLatest, Outcome
<1>2. QED
  BY <1>1, AlwaysEventInv, AlwaysShowInv, PTL

\* A closing event that a hook accepts leaves no preview of that hook, for any
\* hooks and deliveries (pull_request_beta.go:60, pull_request_alpha.go:144).
THEOREM ClosedIsGone == Spec => []ClosedLeavesNothing
<1>1. EventInv /\ ShowInv => ClosedLeavesNothing
  BY DecidesOutcome DEF ClosedLeavesNothing, Outcome
<1>2. QED
  BY <1>1, AlwaysEventInv, AlwaysShowInv, PTL
=============================================================================
