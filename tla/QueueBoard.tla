------------------------------ MODULE QueueBoard ------------------------------
(***************************************************************************)
(* The queue of one branch and the check runs on GitHub that show it:      *)
(* handler-event-queue.js and handler-pullrequest.js over manager-queue.js *)
(* (BookingQueue) and manager-pullrequest.js.                              *)
(*                                                                         *)
(* ugo is one Node.js process.  A request (an HTTP call or a webhook) does *)
(* one Mongo or GitHub operation after another and, while it waits for an  *)
(* answer, other requests run.  An action here is one such operation       *)
(* together with the code that runs when its answer arrives; what that     *)
(* code does next is left in pending.  A value read by one operation and   *)
(* used by a later one travels in the pending step, and is then as old as  *)
(* the schedule likes.                                                     *)
(***************************************************************************)
EXTENDS BookingQueue, FiniteSets

CONSTANTS Shas,         \* head commits of pull requests
          Requests,     \* slots for requests running at the same time
          MaxReported,  \* MAX_REPORTED_QUEUE_POSITION
          Workload,     \* what users, GitHub and the platform do
          NoInfo,       \* no document for the pull request
          NoHead,       \* a document with a status and nothing else
          None

ASSUME BoardAssumption ==
    /\ MaxReported \in Nat
    /\ NoInfo \notin Shas
    /\ NoHead \notin Shas \cup {NoInfo}
    /\ None \notin PullRequests
    /\ Workload \subseteq {"add", "remove", "opened", "sync", "closed",
                           "status", "uninstall", "foreignRemove",
                           "lateOpened", "githubFails", "restart"}

VARIABLES info,      \* the pullRequest collection: the stored head commit
          checkRun,  \* on GitHub: the title of our check run on each commit
          pending,   \* the operations the running requests wait for
          told,      \* history: the head of the queue was sent "you are first"
          solo,      \* history: the pull request whose removal runs undisturbed
          closing    \* history: the pull request GitHub closed last

vars == <<queue, info, checkRun, pending, told, solo, closing>>

-----------------------------------------------------------------------------
(* Titles of check runs (messages/en.json).  Position i > 0 of the queue   *)
(* is "i PRs before this", success is the conclusion of First and Merged.  *)

First == 0
OverMax == MaxReported + 1
NotInQueue == -1
Merged == -2
NoRun == -3

Title == {NoRun, Merged, NotInQueue} \cup First..OverMax

\* Mutant: no upper limit.
TitleAtUncapped(index) == IF index < 0 THEN NotInQueue ELSE index

\* setPullRequestStatusByPosition for the index of an array (-1: absent).
TitleAt(index) == IF index < 0 THEN NotInQueue
                  ELSE IF index <= MaxReported THEN index ELSE OverMax

-----------------------------------------------------------------------------
(* Pending operations.  req is the request that waits; step names the      *)
(* operation that is next.                                                 *)

FindFirst(r) == [step |-> "findFirst", req |-> r]
TellFirst(r, b) == [step |-> "tellFirst", req |-> r, booking |-> b]
FindAll(r) == [step |-> "findAll", req |-> r]
FindIndex(r, pr) == [step |-> "findIndex", req |-> r, pr |-> pr]
\* getPullRequestInfo, to post title; last: handleClosed waits for it.
LookUp(r, pr, title, last) ==
    [step |-> "lookUp", req |-> r, pr |-> pr, title |-> title, last |-> last]
Post(r, pr, title, last, sha) ==
    [step |-> "post", req |-> r, pr |-> pr, title |-> title, last |-> last,
     sha |-> sha]
Locate(r, pr, title) ==
    [step |-> "locate", req |-> r, pr |-> pr, title |-> title]
PullClosed(r, b, title) ==
    [step |-> "pullClosed", req |-> r, booking |-> b, title |-> title]
Forget(r, pr) == [step |-> "forget", req |-> r, pr |-> pr]
CheckHead(r, pr) == [step |-> "checkHead", req |-> r, pr |-> pr]
StoreStatus(r, pr) == [step |-> "storeStatus", req |-> r, pr |-> pr]
DropQueue(r) == [step |-> "dropQueue", req |-> r]
DropInfos(r) == [step |-> "dropInfos", req |-> r]

Operation ==
    [step: {"findFirst", "findAll", "dropQueue", "dropInfos"}, req: Requests]
    \cup [step: {"findIndex", "forget", "checkHead", "storeStatus"},
          req: Requests, pr: PullRequests]
    \cup [step: {"tellFirst"}, req: Requests, booking: Booking]
    \cup [step: {"locate"}, req: Requests, pr: PullRequests,
          title: {Merged, NotInQueue}]
    \cup [step: {"pullClosed"}, req: Requests, booking: Booking,
          title: {Merged, NotInQueue}]
    \cup [step: {"lookUp"}, req: Requests, pr: PullRequests, title: Title,
          last: BOOLEAN]
    \cup [step: {"post"}, req: Requests, pr: PullRequests, title: Title,
          last: BOOLEAN, sha: Shas]

Idle(r) == \A op \in pending : op.req # r

-----------------------------------------------------------------------------
TypeOK == /\ QueueTypeOK
          /\ info \in [PullRequests -> Shas \cup {NoInfo, NoHead}]
          /\ checkRun \in [PullRequests -> [Shas -> Title]]
          /\ pending \subseteq Operation
          /\ told \in BOOLEAN
          /\ solo \in PullRequests \cup {None}
          /\ closing \in PullRequests \cup {None}

Init == /\ QueueInit
        /\ info = [pr \in PullRequests |-> NoInfo]
        /\ checkRun = [pr \in PullRequests |-> [sha \in Shas |-> NoRun]]
        /\ pending = {}
        /\ told = FALSE
        /\ solo = None
        /\ closing = None

-----------------------------------------------------------------------------
(* The pull request GitHub closed last stays the closing one until it      *)
(* comes back in a way that handleClosed does not undo: added to the queue *)
(* when getItem has looked for it already, or with a webhook of its own    *)
(* when deletePullRequestInfo is done.                                     *)

\* op is a step of handleClosed that is still to run for pr.
Closes(op, pr) ==
    \/ op.step \in {"locate", "forget"} /\ op.pr = pr
    \/ op.step = "pullClosed" /\ op.booking.pr = pr
    \/ op.step \in {"lookUp", "post"} /\ op.pr = pr /\ op.last

ClosingUnlessAdded(pr) ==
    IF closing = pr /\ \A op \in pending : ~(op.step = "locate" /\ op.pr = pr)
    THEN None ELSE closing

ClosingUnlessBack(pr) ==
    IF closing = pr /\ \A op \in pending : ~Closes(op, pr) THEN None ELSE closing

-----------------------------------------------------------------------------
(* Requests.                                                               *)

\* addItem and the item.add handler.  (An add that Mongo refuses, rightly or
\* in the race of QueueManager, changes nothing and publishes nothing.)
AddItem(r, b) ==
    /\ "add" \in Workload
    /\ Idle(r)
    /\ Join(b)
    /\ pending' = pending \cup {LookUp(r, b.pr, TitleAt(Len(queue)), FALSE)}
                          \cup (IF Len(queue) = 0 THEN {TellFirst(r, b)} ELSE {})
    /\ solo' = None
    /\ closing' = ClosingUnlessAdded(b.pr)
    /\ UNCHANGED <<info, checkRun, told>>

\* Mutant: the new head is looked up only when two bookings are left.
AfterRemovalOfMany(r, pr) ==
    {FindAll(r)} \cup (IF FirstItemChanged(pr) /\ Len(queue) > 2
                      THEN {FindFirst(r)} ELSE {})

\* What the item.remove handler starts, except for blocking the removed one.
AfterRemoval(r, pr) ==
    {FindAll(r)} \cup (IF FirstItemChanged(pr) THEN {FindFirst(r)} ELSE {})

\* The head left: the next one has not been told.
ToldAfterPull(b) == told /\ queue # <<>> /\ Head(queue) # b

\* removeItem and the item.remove handler.  A DELETE or a check_run action
\* may name a pull request that is not queued and, with "foreignRemove", one
\* that another user booked: $pull then matches nothing but the event goes
\* out all the same.
RemoveItem(r, b) ==
    /\ "remove" \in Workload
    /\ Idle(r)
    /\ "foreignRemove" \in Workload
       \/ \A i \in DOMAIN queue : queue[i].pr = b.pr => queue[i] = b
    /\ Leave(b)
    /\ pending' = pending \cup AfterRemoval(r, b.pr)
                          \cup {LookUp(r, b.pr, NotInQueue, FALSE)}
    /\ told' = ToldAfterPull(b)
    /\ solo' = IF pending = {} /\ ~Holds(queue', b.pr) THEN b.pr ELSE None
    /\ UNCHANGED <<info, checkRun, closing>>

\* A pull_request webhook, closed.
HandleClosed(r, pr, title) ==
    /\ "closed" \in Workload
    /\ Idle(r)
    /\ pending' = pending \cup {Locate(r, pr, title)}
    /\ solo' = None
    /\ closing' = pr
    /\ UNCHANGED <<queue, info, checkRun, told>>

\* setPullRequestInfo, as called with the head commit of a webhook; with a
\* status alone it is StoredStatus.
StoreInfo(pr, sha) == info' = [info EXCEPT ![pr] = sha]

\* opened: sent once for a pull request.  With "lateOpened" it may arrive
\* after other webhooks, or when the pull request was added to the queue.
HandleOpened(r, pr, sha) ==
    /\ "opened" \in Workload
    /\ Idle(r)
    /\ "lateOpened" \in Workload \/ (info[pr] = NoInfo /\ ~Holds(queue, pr))
    /\ StoreInfo(pr, sha)
    /\ pending' = pending \cup {LookUp(r, pr, NotInQueue, FALSE)}
    /\ solo' = None
    /\ closing' = ClosingUnlessBack(pr)
    /\ UNCHANGED <<queue, checkRun, told>>

\* Every other action of a pull_request webhook: a push, a reopening, an
\* edit.
HandleSync(r, pr, sha) ==
    /\ "sync" \in Workload
    /\ Idle(r)
    /\ StoreInfo(pr, sha)
    /\ pending' = pending \cup {FindIndex(r, pr)}
    /\ solo' = None
    /\ closing' = ClosingUnlessBack(pr)
    /\ UNCHANGED <<queue, checkRun, told>>

\* A status or check_suite webhook, up to getPullRequestInfoBySha: only a
\* document with a head commit is found.  What it does to notifications is
\* ChecksNotification's; here it is one more writer of the documents.
HandleStatusChange(r, pr) ==
    /\ "status" \in Workload
    /\ Idle(r)
    /\ info[pr] \in Shas
    /\ pending' = pending \cup {CheckHead(r, pr)}
    /\ solo' = None
    /\ UNCHANGED <<queue, info, checkRun, told, closing>>

\* installation deleted: two of the deletions it runs side by side.
Uninstall(r) ==
    /\ "uninstall" \in Workload
    /\ Idle(r)
    /\ pending' = pending \cup {DropQueue(r), DropInfos(r)}
    /\ solo' = None
    /\ UNCHANGED <<queue, info, checkRun, told, closing>>

\* The process stops, and every request in it; Mongo and GitHub keep theirs.
Restart ==
    /\ "restart" \in Workload
    /\ pending # {}
    /\ pending' = {}
    /\ solo' = None
    /\ closing' = None
    /\ UNCHANGED <<queue, info, checkRun, told>>

-----------------------------------------------------------------------------
(* Answers to reads of the queue.                                          *)

Continue(op, next) == pending' = (pending \ {op}) \cup next

\* Mutant: the answer is not published.
FoundFirstSilently(op) ==
    /\ op.step = "findFirst"
    /\ Continue(op, {})
    /\ UNCHANGED <<queue, info, checkRun, told, solo, closing>>

\* getFirstItem.
FoundFirst(op) ==
    /\ op.step = "findFirst"
    /\ Continue(op, IF queue = <<>> THEN {} ELSE {TellFirst(op.req, Head(queue))})
    /\ UNCHANGED <<queue, info, checkRun, told, solo, closing>>

\* send.queue.first is published for the booking that was read.
ToldFirst(op) ==
    /\ op.step = "tellFirst"
    /\ Continue(op, {})
    /\ told' = (told \/ (queue # <<>> /\ Head(queue) = op.booking))
    /\ UNCHANGED <<queue, info, checkRun, solo, closing>>

\* Mutant: slice(0, MAX).
FoundAllButOne(op) ==
    /\ op.step = "findAll"
    /\ Continue(op, {LookUp(op.req, queue[i].pr, TitleAt(i - 1), FALSE) :
                       i \in {j \in DOMAIN queue : j <= MaxReported}})
    /\ UNCHANGED <<queue, info, checkRun, told, solo, closing>>

\* Mutant: no slice.
FoundAllAndVisited(op) ==
    /\ op.step = "findAll"
    /\ Continue(op, {LookUp(op.req, queue[i].pr, TitleAt(i - 1), FALSE) :
                       i \in DOMAIN queue})
    /\ UNCHANGED <<queue, info, checkRun, told, solo, closing>>

\* getItems in setAllPullRequestsStatuses, slice(0, MAX + 1).
FoundAll(op) ==
    /\ op.step = "findAll"
    /\ Continue(op, {LookUp(op.req, queue[i].pr, TitleAt(i - 1), FALSE) :
                       i \in {j \in DOMAIN queue : j <= MaxReported + 1}})
    /\ UNCHANGED <<queue, info, checkRun, told, solo, closing>>

\* getItems in handleSync.
FoundIndex(op) ==
    /\ op.step = "findIndex"
    /\ Continue(op, {LookUp(op.req, op.pr, TitleAt(Position(queue, op.pr) - 1),
                            FALSE)})
    /\ UNCHANGED <<queue, info, checkRun, told, solo, closing>>

\* getFirstItem in handleStatusChange.  The head goes on to its status, which
\* comes from GitHub (getHashCombinedStatus) and depends on nothing here.
CheckedHead(op) ==
    /\ op.step = "checkHead"
    /\ Continue(op, IF queue # <<>> /\ Head(queue).pr = op.pr
                    THEN {StoreStatus(op.req, op.pr)} ELSE {})
    /\ UNCHANGED <<queue, info, checkRun, told, solo, closing>>

\* setPullRequestInfo with the status: the upsert makes a new document of a
\* pull request that was forgotten since.
StoredStatus(op) ==
    /\ op.step = "storeStatus"
    /\ info' = [info EXCEPT ![op.pr] = IF @ = NoInfo THEN NoHead ELSE @]
    /\ Continue(op, {})
    /\ UNCHANGED <<queue, checkRun, told, solo, closing>>

\* Mutant: the rest of handleClosed hangs on the item.
LocatedOnly(op) ==
    /\ op.step = "locate"
    /\ Continue(op, IF Holds(queue, op.pr)
                    THEN {PullClosed(op.req, BookingOf(queue, op.pr), op.title)}
                    ELSE {})
    /\ UNCHANGED <<queue, info, checkRun, told, solo, closing>>

\* getItem in handleClosed.
Located(op) ==
    /\ op.step = "locate"
    /\ Continue(op, IF Holds(queue, op.pr)
                    THEN {PullClosed(op.req, BookingOf(queue, op.pr), op.title)}
                    ELSE {LookUp(op.req, op.pr, op.title, TRUE)})
    /\ UNCHANGED <<queue, info, checkRun, told, solo, closing>>

\* Mutant: looks once more whether the booking is gone.
PulledClosedAgain(op) ==
    /\ op.step = "pullClosed"
    /\ Leave(op.booking)
    /\ Continue(op, AfterRemoval(op.req, op.booking.pr)
                    \cup {Locate(op.req, op.booking.pr, op.title)})
    /\ told' = ToldAfterPull(op.booking)
    /\ UNCHANGED <<info, checkRun, solo, closing>>

\* removeItem in handleClosed: {closed: true} spares the removed one the
\* title "Not in the queue", handleClosed goes on with its own.
PulledClosed(op) ==
    /\ op.step = "pullClosed"
    /\ Leave(op.booking)
    /\ Continue(op, AfterRemoval(op.req, op.booking.pr)
                    \cup {LookUp(op.req, op.booking.pr, op.title, TRUE)})
    /\ told' = ToldAfterPull(op.booking)
    /\ UNCHANGED <<info, checkRun, solo, closing>>

-----------------------------------------------------------------------------
(* Posting a title: _getPullRequestAndUpdateStatus and                     *)
(* createCheckRunForPullRequest.                                           *)

AfterPost(op) == IF op.last THEN {Forget(op.req, op.pr)} ELSE {}

\* Mutant: waits for the document.
LookedUpAgain(op) ==
    /\ op.step = "lookUp"
    /\ Continue(op, IF info[op.pr] \in Shas
                    THEN {Post(op.req, op.pr, op.title, op.last, info[op.pr])}
                    ELSE {op})
    /\ UNCHANGED <<queue, info, checkRun, told, solo, closing>>

\* Without a document nothing is posted.  Without a head commit (and without
\* an installation) the creation of the check run fails, which ends the chain.
LookedUp(op) ==
    /\ op.step = "lookUp"
    /\ Continue(op, CASE info[op.pr] \in Shas ->
                           {Post(op.req, op.pr, op.title, op.last, info[op.pr])}
                      [] info[op.pr] = NoInfo -> AfterPost(op)
                      [] info[op.pr] = NoHead -> {})
    /\ UNCHANGED <<queue, info, checkRun, told, solo, closing>>

\* Mutant: a check run that is there is not updated.
PostedOnce(op) ==
    /\ op.step = "post"
    /\ checkRun' = [checkRun EXCEPT ![op.pr][op.sha] =
                      IF @ = NoRun THEN op.title ELSE @]
    /\ Continue(op, AfterPost(op))
    /\ UNCHANGED <<queue, info, told, solo, closing>>

Posted(op) ==
    /\ op.step = "post"
    /\ checkRun' = [checkRun EXCEPT ![op.pr][op.sha] = op.title]
    /\ Continue(op, AfterPost(op))
    /\ UNCHANGED <<queue, info, told, solo, closing>>

\* An update that fails is swallowed.  A creation that fails ends the chain,
\* and handleClosed keeps the document; one is tried where there is no check
\* run, and where the list of them could not be read.
PostFailed(op) ==
    /\ "githubFails" \in Workload
    /\ op.step = "post"
    /\ \/ /\ checkRun[op.pr][op.sha] # NoRun
          /\ Continue(op, AfterPost(op))
          /\ UNCHANGED closing
       \/ /\ Continue(op, {})
          /\ closing' = IF op.last /\ closing = op.pr THEN None ELSE closing
    /\ solo' = None
    /\ UNCHANGED <<queue, info, checkRun, told>>

-----------------------------------------------------------------------------
(* Deletions.  None of them publishes an event of the queue.               *)

\* deletePullRequestInfo at the end of handleClosed.
Forgotten(op) ==
    /\ op.step = "forget"
    /\ info' = [info EXCEPT ![op.pr] = NoInfo]
    /\ Continue(op, {})
    /\ UNCHANGED <<queue, checkRun, told, solo, closing>>

DroppedQueue(op) ==
    /\ op.step = "dropQueue"
    /\ Clear
    /\ told' = FALSE
    /\ Continue(op, {})
    /\ UNCHANGED <<info, checkRun, solo, closing>>

DroppedInfos(op) ==
    /\ op.step = "dropInfos"
    /\ info' = [pr \in PullRequests |-> NoInfo]
    /\ Continue(op, {})
    /\ UNCHANGED <<queue, checkRun, told, solo, closing>>

-----------------------------------------------------------------------------
Start(r) ==
    \/ \E b \in Booking : AddItem(r, b) \/ RemoveItem(r, b)
    \/ \E pr \in PullRequests : \E title \in {Merged, NotInQueue} :
         HandleClosed(r, pr, title)
    \/ \E pr \in PullRequests, sha \in Shas :
         HandleOpened(r, pr, sha) \/ HandleSync(r, pr, sha)
    \/ \E pr \in PullRequests : HandleStatusChange(r, pr)
    \/ Uninstall(r)

Answer(op) ==
    \/ FoundFirst(op) \/ ToldFirst(op) \/ FoundAll(op) \/ FoundIndex(op)
    \/ Located(op) \/ PulledClosed(op)
    \/ CheckedHead(op) \/ StoredStatus(op)
    \/ LookedUp(op) \/ Posted(op) \/ PostFailed(op)
    \/ Forgotten(op) \/ DroppedQueue(op) \/ DroppedInfos(op)

Next == \/ \E r \in Requests : Start(r)
        \/ \E op \in pending : Answer(op)
        \/ Restart

Spec == Init /\ [][Next]_vars

\* Mongo and GitHub answer every operation, with an error if need be.
Advance(r) == \E op \in pending : op.req = r /\ Answer(op)

FairSpec == Spec /\ \A r \in Requests : WF_vars(Advance(r))

-----------------------------------------------------------------------------
(* Properties.                                                             *)

\* Whoever is at the head of the queue was told so, or the message is on its
\* way, or a request is about to look up whom to tell: no crossing of adds,
\* removals and closings makes the item.add and item.remove handlers lose the
\* announcement of a new head.
HeadIsTold ==
    \/ queue = <<>>
    \/ told
    \/ \E op \in pending :
         op.step = "findFirst"
         \/ (op.step = "tellFirst" /\ op.booking = Head(queue))

\* When handleClosed is done with the pull request GitHub closed last, it is
\* not in the queue and no document has its head commit, however its steps
\* interleave with adds, removals and other webhooks of the same pull request.
\* The exceptions are those the code has: an add that comes after getItem
\* looked stays in the queue; a check run that could not be created keeps the
\* document, and so does a restart; a webhook after the deletion stores a new
\* one.  A document without a head commit, as a status webhook in between may
\* leave it, is not looked at.
ClosedIsGone ==
    closing # None /\ (\A op \in pending : ~Closes(op, closing)) =>
      ~Holds(queue, closing) /\ info[closing] \notin Shas

\* What the check run on the head commit of a pull request says.
ShownTitle(pr) == checkRun[pr][info[pr]]

\* A removal that runs undisturbed repairs what earlier races, failures and
\* restarts left behind: setAllPullRequestsStatuses makes the titles of the
\* first MaxReported + 1 bookings right, and the removed one is blocked.
RemovalRepairs ==
    solo # None /\ pending = {} =>
      /\ \A i \in DOMAIN queue :
           i <= MaxReported + 1 /\ info[queue[i].pr] \in Shas =>
             ShownTitle(queue[i].pr) = TitleAt(i - 1)
      /\ info[solo] \in Shas => ShownTitle(solo) = NotInQueue

\* When requests run one at a time the board is right whenever none runs:
\* every known pull request shows its place in the queue, also those beyond
\* MaxReported, which a removal does not visit.
QuietBoardMatches ==
    pending = {} =>
      \A pr \in PullRequests :
        info[pr] \in Shas => ShownTitle(pr) = TitleAt(Position(queue, pr) - 1)

\* "Not in the queue" is never the last word on a queued pull request.
UnqueuedTitleIsTrue ==
    pending = {} =>
      \A pr \in PullRequests :
        info[pr] \in Shas /\ ShownTitle(pr) = NotInQueue => ~Holds(queue, pr)

\* "First in the queue" is the head and no other pull request.
FirstTitleIsTrue ==
    pending = {} =>
      \A pr \in PullRequests :
        info[pr] \in Shas /\ ShownTitle(pr) = First =>
          queue # <<>> /\ Head(queue).pr = pr

\* However long the queue is, a request has no more than the posts of the
\* first MaxReported + 1 bookings, that of the removed one and the message to
\* the new head under way at once: the slice of setAllPullRequestsStatuses
\* bounds what a removal asks of GitHub.  (Beside them the item.remove event
\* starts the getLength and getItems of the feed and the cancelling of a
\* notification; QueueFeed and ChecksNotification have those.)
FewAtATime ==
    \A r \in Requests :
      Cardinality({op \in pending : op.req = r}) <= MaxReported + 3

\* How many operations may still follow on op, one after the other.
Rank(op) == CASE op.step = "locate" -> 5
              [] op.step = "pullClosed" -> 4
              [] op.step \in {"findAll", "findFirst", "findIndex",
                             "checkHead"} -> 3
              [] op.step = "lookUp" -> 2
              [] op.step = "post" -> 1
              [] OTHER -> 0

\* No handler starts over and none waits for another: what a request starts
\* follows on an operation of its own that is done, and ranks below it.  With
\* FewAtATime this leaves every request a bounded number of operations.
ChainsDescend ==
    [][\A op \in pending' \ pending :
         \/ Idle(op.req)
         \/ \E done \in pending \ pending' :
              done.req = op.req /\ Rank(op) < Rank(done)]_vars

\* A pull request that stays at the head is told so.
HeadGetsTold ==
    \A b \in Booking :
      queue # <<>> /\ Head(queue) = b ~> told \/ queue = <<>> \/ Head(queue) # b

\* Every request comes to its end: the chains of operations are finite and
\* no handler waits for another request.
RequestsEnd == \A r \in Requests : ~Idle(r) ~> Idle(r)
===============================================================================
