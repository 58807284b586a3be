# A verification development for ugo

ugo is the server of Branch Bookkeeper, a GitHub app that keeps, for every
branch of a repository, a queue of the pull requests to be merged into it.
Users book a place through an HTTP API or a button in a GitHub check run; ugo
shows every pull request its place through a check run, and sends push
notifications to whoever is first. It is one Node.js process over MongoDB that
talks to GitHub, OneSignal and Pusher.

There are no locks and no transactions in ugo. Every handler is a chain of
promises; between two links any other handler may run, and what was read in one
link is used in the next. The models are about what this does to the queue, the
check runs, the notifications, what clients are shown, and who is let in.

Contents: [the system](#the-system), [modules](#modules), [runs](#runs),
[findings](#findings), [fairness](#fairness), [proofs](#proofs),
[abstractions](#abstractions), [not modelled](#not-modelled), [plan](#plan).

## The system

### Components

| component | state it keeps | operations | status |
|---|---|---|---|
| Queue manager, `manager-queue.js` | `queue` collection: per branch one document with an array of bookings | `addItem`, `removeItem`, `deleteQueue`, `getItems`, `getItem`, `getFirstItem`, `getLength` | modelled |
| Queue event handler, `handler-event-queue.js` | none | reacts to `item.add` and `item.remove` | partly |
| Pull request handler, `handler-pullrequest.js` | none | `handleClosed`, `handleOpened`, `handleSync`, `handleStatusChange`, and the four operations that post a title | modelled |
| Pull request manager, `manager-pullrequest.js` | `pullRequest` collection: head commit and combined status per pull request | set, get, get by sha, delete | partly |
| GitHub client, `github.js` | none; check runs, suites and statuses live on GitHub | create or update a check run, read the combined status, users, installations | partly |
| Push notifications, `handler-notification-push.js`, `manager-notification-push.js` | `pushNotification` collection: OneSignal id of the last notification per booking, with a TTL; the scheduled notification itself is at OneSignal | send, cancel | partly |
| Webhook routes, `routes-webhook.js` | none | status, check_suite, check_run, pull_request, repository, installation, installation_repositories | partly |
| Queue routes, `routes-queue.js`, `validator-queue.js` | none | GET, POST, DELETE | partly |
| Queue updates, `handler-notification-pusher.js` | none; a client shows the last update it got | `sendQueueUpdate`, `getChannelId` | modelled |
| Access, `authenticator-github.js`, `manager-token.js`, `manager-installation-info.js` | two read-through caches in Mongo | authenticate, read, fill, invalidate, expire | partly |
| Installations, `manager-installation.js` | `installation` collection: the ids of the installations of an owner | set, get, delete | modelled |
| Mongo connection, `manager-mongo.js` | the connection | connect, `enabled` | partly |
| Metrics, analytics, logging | none | output only | not modelled |
| Server, localisation, signature check | none that changes after start | wiring and pure functions | not modelled |
| Migrations, tools and mocks | none | scripts run by hand | partly: the expiry of documents |

### How they interact

```
 HTTP POST/DELETE ----+                              +--> setPullRequestStatusByPosition --+
 check_run action ----+--> addItem    --item.add-----+--> send.queue.first (if first)      |
                      +--> removeItem --item.remove--+--> getFirstItem, send.queue.first   +--> GitHub
 pull_request         |                              +--> setAllPullRequestsStatuses       |    check runs
   closed ------------+                              +--> blockPullRequest ----------------+
   opened, sync --> setPullRequestInfo --------------------------------------------------->+
 status, check_suite --> handleStatusChange --send.checks / cancel.checks--> OneSignal
 installation deleted --> four deleteMany, side by side
 item.add, item.remove --> pushQueueUpdate: getItems --> Pusher --> clients
 every HTTP request --> authenticator: token, installation id, installation info
                        (each from Mongo, else from GitHub) --> the route
 installation, installation_repositories, repository --> installation ids, infos
```

The arrows with a topic are events of `postal`, which calls its subscribers
synchronously; the publisher does not wait for the promises they start. So a
removal that has answered its client goes on in three concurrent chains.

### What is hard, and what makes it correct

- **Queue manager.** `addItem` is one `findOneAndUpdate` with `upsert`. Mongo
  matches and, when nothing matches, inserts, and other commands come between.
  Correct: the commands act like a FIFO in which a pull request appears once,
  and an add is refused for a reason.
- **Board** (queue event handler, pull request handler, pull request manager,
  check runs). Titles are computed from a queue read earlier and posted in any
  order; a closing reads the booking before it pulls it; a restart or a failing
  call cuts a chain in the middle. Correct: a new head is always announced, a
  closed pull request goes but for the cases listed below, and the titles come
  right in the end.
- **Checks notification.** Reading and storing a status are two operations, and
  cancel, send and save of a notification are up to five, without exclusion;
  a failing call is swallowed or ends the chain. Correct: as long as requests do
  not cross and no failure gets in between, nothing is scheduled that ugo has
  lost track of, and what is scheduled is true; and after that it is so again
  once what was scheduled is delivered.
- **Queue updates.** An update reads the queue after its event and sends what
  it read; updates overtake each other in both operations, and nobody repeats
  one that failed. Queues and channels of different branches have one key.
  Correct: the last update to read shows the queue, and branches do not mix.
- **Access and installations.** The cache of what a token may see is filled in
  two operations, and its invalidation may come between; webhooks are late,
  overtake each other, or are refused before Mongo is there; three lookups of
  one request see three moments. Correct: the cache is never behind what ugo
  was told, an uninstallation leaves nothing, nobody gets in who never had
  access, and a revocation takes effect in the end.

The full list of hazards, each at its line and with the properties that cover
it, is `hazards` in `PROJECT.json`. Several of them do happen: then the property
that is about the same state excepts exactly that case, by name, and the note of
the hazard says so.

## Modules

| module | what it is |
|---|---|
| `BookingQueue` | the abstract queue of one branch: `Join`, `Leave`, `Clear` |
| `QueueManager` | `manager-queue.js` at the level of Mongo commands; implements `BookingQueue` |
| `QueueBoard` | the handlers around the queue and the check runs; uses `BookingQueue` as its queue |
| `ChecksNotification` | status webhooks, combined status, scheduled notifications; uses `BookingQueue` as its queue |
| `QueueFeed` | the queues of many branches and the updates their clients get |
| `BranchQueue` | one of the branches of `QueueFeed`; implements `BookingQueue` |
| `Access` | authenticator, installation ids and infos, and the webhooks that maintain them |
| `MC...` | symmetry and constraints for TLC |
| `..._proofs`, `SequenceLemmas` | theorems and lemmas |

The layers meet in `BookingQueue`. `QueueManager` shows that the Mongo commands
provide it, so that the two larger modules may take an add, a removal and a
deletion as one step each; `BranchQueue` shows that any one branch among many
is one, so that they may have one branch; and the queues of the larger modules
are shown to be one too, so that what is proved of `BookingQueue` (bookings are
unique, nobody overtakes) holds in all of them.

### BookingQueue

`queue` is the sequence of bookings of one branch. `Join` is the `$push` under
the filter `$ne`, `Leave` the `$pull`, `Clear` the `deleteMany` of an
uninstallation. `Position`, `BookingOf` and `FirstItemChanged` are what the
readers compute. `NobodyOvertakes` is what "queue" promises to whoever waits:
the set of pull requests ahead of a booking only shrinks while it stays.

### QueueManager

`doc` is the document of the branch (or `NoDoc`). Each element of `Callers` is
an `addItem` in flight, "matching" and then, if nothing matched, "inserting".
`Insert` and `DuplicateKey` are the two outcomes of the second half: the `_id`
is free, or it is taken and the driver answers code 11000, which `addItem`
swallows. `removeItem` and `deleteQueue` are atomic commands. `seen` and `born`
are history variables for `RefusedForCause`.

### QueueBoard

| variable | code |
|---|---|
| `queue` | the queue document |
| `info` | head commit stored in the `pullRequest` collection |
| `checkRun` | title of ugo's check run on each commit, on GitHub |
| `pending` | operations the running requests wait for, with the values their closures hold |
| `told`, `solo`, `closing` | history |

An action is one operation on Mongo or GitHub together with all code that runs
when its answer arrives, up to the next operation. `Start` are the entry
points (`AddItem`, `RemoveItem`, `HandleClosed`, `HandleOpened`, `HandleSync`,
`HandleStatusChange`, `Uninstall`), `Answer` the answers. `Requests` are slots: a slot is busy until
all chains its request has started have ended.

| action | code |
|---|---|
| `AddItem` | `addItem` of the manager and of the event handler |
| `RemoveItem`, `AfterRemoval` | `removeItem` of the manager and of the event handler |
| `FoundFirst`, `ToldFirst` | `getFirstItem` and `send.queue.first` |
| `FoundAll` | `setAllPullRequestsStatuses` |
| `FoundIndex` | `handleSync` after its write |
| `Located`, `PulledClosed`, `Forgotten` | `handleClosed` |
| `LookedUp`, `Posted`, `PostFailed` | `_getPullRequestAndUpdateStatus`, `createCheckRunForPullRequest` |
| `CheckedHead`, `StoredStatus` | `handleStatusChange`, as far as it writes the pull request document |
| `DroppedQueue`, `DroppedInfos` | the deletions of an uninstallation |
| `Restart` | the process stops: `pending` is lost, Mongo and GitHub are not |

A title is an integer: `i > 0` is "i PRs before this", `OverMax` is "more than
MAX", and `First`, `NotInQueue`, `Merged`, `NoRun` are the rest.

`Workload` says which events happen in a run, including the unpleasant ones:
`foreignRemove` (a removal that names another user's booking), `lateOpened` (an
opened webhook after the booking or after other webhooks), `githubFails`,
`restart`.

`info` is `NoInfo` without a document and `NoHead` for a document that has a
status and nothing else: `handleStatusChange` upserts, and so brings back a
document that `handleClosed` has deleted. A title for such a pull request ends
in a check run that cannot be created.

`closing` is the pull request that GitHub closed last. `ClosedIsGone` says what
becomes of it, and these are its exceptions, each one a way in which the code
leaves a closed pull request behind:

- an add after `getItem` of `handleClosed` has looked (`ClosingUnlessAdded`):
  the booking stays;
- a check run that cannot be created (`PostFailed`), or a restart: the rest of
  `handleClosed` is not run, and the document stays;
- a `pull_request` webhook after the deletion (`ClosingUnlessBack`) stores a new
  document;
- a document without a head commit is not looked at.

### ChecksNotification

| variable | code |
|---|---|
| `suites`, `state` | check suites and commit statuses, on GitHub |
| `owed` | pull requests whose last change ugo has not heard of |
| `status` | combined status stored in the `pullRequest` collection |
| `scheduled` | notifications at OneSignal, not delivered yet |
| `record` | id stored in the `pushNotification` collection |
| `pending` | as in `QueueBoard` |
| `troubled` | history: pull requests for which two requests crossed, a call failed or the process stopped, as long as something of that time is pending or scheduled |

`HandleStatusChange`, `FoundFirst`, `Fetched` (or `FetchFailed`), `Stored` are
the links of `handleStatusChange`; `LookedUp`, `Cancelled`, `Deleted`, `Sent`
(or `SendFailed`), `Saved` those of `sendChecksNotification` and
`cancelChecksNotification`. `Delivered` and `Expired` are time: the default
`SEND_DELAY` of 60 s against the 120 s after which Mongo drops a record.

What fails is in actions of its own, one for each place where the code goes on
differently. A call may fail before it has any effect, or after it: then only
its answer is lost.

| action | what fails | what the code does |
|---|---|---|
| `FetchFailed` | either GitHub call of the combined status | takes it for no suites, or no statuses |
| `CancelFailed` | the read of the record, or the cancel, while the notification stays scheduled | `.catch` swallows it; a new one is sent and saved over it |
| `CancelUnheard` | the answer of a cancel that was done | the same; the record stays |
| `DeleteFailed` | the deletion of the record, or its answer | the same; the record may stay |
| `SendFailed` | the send | a record is saved without an id, or keeps an older one |
| `SendUnheard` | the answer of a send that was done | the same, and the new id is never known |
| `RemoveUnheard` | the answer of a removal's `$pull` | no `item.remove` |
| `MongoFailed` | the read of the head, the write of the status (or its answer), the save | the chain ends |
| `Restart` | the process | every chain ends |

A webhook whose first read fails is one that is not handled: the pull request
stays in `owed`. After a crossing, `CancelFailed` of what is scheduled,
`RemoveUnheard`, `SendUnheard`, `MongoFailed` or `Restart` a notification may be
left that nobody can cancel, or that is no longer true. `troubled` holds the
pull request from then on until its chains have ended and what it had scheduled
is delivered, and the three invariants except it that long. `SendFailed`,
`CancelUnheard`, `DeleteFailed`, `FetchFailed` and `Expired` are no exception:
the invariants hold through them (`NoticeIsCurrent` waits for the next webhook
after a `FetchFailed`).

### QueueFeed

| variable | code |
|---|---|
| `docs` | the `queue` collection: a document, or `NoDoc`, under each `_id` |
| `updates` | slots for updates under way: idle, about to read, or sent with what was read |
| `view` | per channel, what a client shows: the items of the last update it got |
| `displaced` | history, per channel: what is shown is not the newest that was read |

Here an id is what the code makes it, `owner-repo-branch`: a name is the
sequence of its parts between dashes and `Key` concatenates. `AddItem` and
`RemoveItem` are the operations of the manager with the `item.*` event, which
starts an update (`Publish`); `GetItems` is the client that loads the queue
itself. `Read` is the answer of `getItems`, `Deliver` the arrival at the
client, `Fail` the loss of either, `Restart` that of all. `DeleteQueue` goes by
the `owner` field and publishes nothing. A booking carries its branch as a
history value, so that a booking in a foreign queue shows.

### BranchQueue

`Branch` is any one of the branches, `BranchItems` what `getItems` returns for
it. `BranchIsABookingQueue` is the specification of `BookingQueue` with these
items as its queue. It needs no assumption on names: where the ids of two
branches collide, the adds of one are joins of the other, and the run `feed` has
a branch that collides with `Branch`.

### Access

| variable | code |
|---|---|
| `installed`, `selected`, `rights` | on GitHub: the installation of one owner, its repositories, the rights of users |
| `webhooks` | on their way, oldest first; any of them may be delivered next |
| `connected` | `mongoManager.enabled()` |
| `installations` | the `installation` collection, of this owner |
| `infos` | the `installationInfo` collection: repositories cached per installation id and token |
| `pending` | as in `QueueBoard` |
| `orderly`, `granted`, `stale` | history |

| action | code |
|---|---|
| `Authenticate`, `GotTokenInfo`, `ReadId`, `ReadInfo`, `Decide` | the chain of the authenticator |
| `FetchedInfo`, `FetchFailed`, `SavedInfo` | filling the cache: GitHub's answer, then the write |
| `Acted` | the route behind the authenticator |
| `Deliver`, `Refuse` | a webhook reaches its route, or is answered 503 |
| `SetId`, `DroppedIds`, `DroppedInfos`, `FoundId` | the operations of the installation, installation_repositories and repository routes; a `repository` event without an installation goes on to a deletion by `NoId`, which finds nothing |
| `InfoExpired` | the TTL index on `created_at` |
| `Connect`, `Restart` | Mongo becomes available; the process stops |
| `Install`, `Uninstall`, `Select`, `ChangeRights` | what happens on GitHub |

## Runs

Every property of a passing run has a mutant in `PROJECT.json`: a plausible
mistake in the code under which TLC finds the property violated in that run.

| run | bounds | shows |
|---|---|---|
| `queue_manager` | 2 pull requests, 2 users, 2 concurrent adds, any removals and deletions | `ImplementsBookingQueue`, `NobodyOvertakes`, `RefusedForCause`, `CallsSettle` |
| `board_serial` | 4 pull requests, 1 request, MAX = 1 | `QuietBoardMatches`: without concurrency the board is right after every request, also beyond MAX; `FewAtATime` |
| `board_overlap` | 2 pull requests, 2 users, 2 requests, MAX = 0, at most 5 operations waiting (`MaxPending`) | `HeadIsTold`, `ClosedIsGone`, `RemovalRepairs` |
| `board_repair` | 3 pull requests, 2 users, 1 request, failures, restarts, late webhooks | `RemovalRepairs` |
| `board_live` | 2 pull requests, 2 requests | `HeadGetsTold`, `RequestsEnd`, `ChainsDescend` |
| `checks` | 2 pull requests, 1 suite, 2 requests, 2 notification ids, every failure, restarts, deliveries, expiries, `Focus` | `NoticeIsKnown`, `NoSecondNotice`, `NoticeIsCurrent` |
| `feed` | 3 branches of 3 owners, two of them with one id, 2 pull requests, 2 updates at a time | `FeedCatchesUp`, `BookingsStayApart`, `OwnersStayApart`, `BranchIsABookingQueue` |
| `access` | 2 installation ids, 2 tokens, 1 user, 1 repository, 1 request, 1 webhook at a time, 2 on their way | `InfoIsCurrent`, `InstallationIsKnown`, `NothingIsLeft`, `AdmittedOnAGrant`, `RevokedIsNotRenewed`, `RevocationEnds` |
| `lost_upsert`, `foreign_removal`, `stale_title`, `duplicate_notice` | small | [findings](#findings) |

**Why these bounds.** One bound is in a guard: `MaxOwed`, the number of
webhooks on their way at once in `Access`. Two are constraints of a run,
`FewPending` of `board_overlap` and `Focus` of `checks`. All other state spaces
are finite
because queues have at most one booking per pull request (itself a theorem) and
a slot of a request or an update is used again only when it is idle. Beyond
that:

- Two `Callers`: the second half of an upsert can only be disturbed by another
  add, a removal or a deletion; all are there. `RefusedForCause` and
  `ImplementsBookingQueue` are proved for any number.
- MAX = 1 with 4 pull requests puts bookings at both sides of both boundaries
  (`slice(0, MAX + 1)` and `index <= MAX`), and one beyond what a removal
  visits. MAX = 0 with 2 pull requests does so with the fewest posts, which is
  what lets two requests interleave in full. The value in production is 5;
  nothing in the code compares it with anything but an index.
- Two requests: a race needs two. `HeadIsTold`, `ClosedIsGone` and
  `RemovalRepairs` are proved for any number. `solo` makes `RemovalRepairs` start
  from whatever the races left, so a third concurrent request would only widen
  the same set of starting boards. A removal alone has three operations under
  way; with `FewPending` two removals cross as soon as one of the six is done.
- One commit per pull request. Where a push changes the commit, `sync` writes
  the same value again: what matters here is that it posts a title from its own
  reading of the queue. A title on an older commit is not part of any property
  (`ShownTitle` is that of the stored commit).
- `checks` has two notification ids: a lone request that cannot cancel has both
  scheduled. `Focus` bounds where it goes: everything that can happen to one
  pull request alone, crossings and failures included; and on two pull requests
  one request at a time, or one for each, until one of them is troubled. A chain
  touches nothing of another pull request but the queue, and the theorems about
  the three invariants have no such constraint.
- `feed` has two pull requests, so that queues of two bookings are filled and
  left from either end, and two updates: one that reads last and one that it
  overtakes. `web` of `acme` and `web` of `zeta` differ in the owner alone, so
  that an id without the owner would join them. `ui` of `acme-web` has, with its
  branch `main`, the id of branch `ui-main` of `web` of `acme`: bookings of both
  are in one queue, and either owner's deletion may take it.
- `access` has two installation ids and two webhooks on their way, so that a
  deletion and a new installation overlap; an id that nobody remembers is given
  again, which is what lets two ids stand for any number. One request crosses
  all three lookups with every webhook; the four invariants are proved for any
  number of each. Of the two tokens one is of another
  client.

`TypeOK` is checked once per module. Deadlock is checked in every run.

`PROJECT.json` names the definitions; the comments above each property in the
modules state it and the behaviour of the code it is about.

## Findings

Four runs end in a violation of what a message, a test or a log line says. That
each takes what its run has, and nothing less, is a theorem: a lone add is never
lost (`LoneAddIsNeverLost`), titles are true when requests run one at a time and
remove nobody else's booking (`SerialTitlesAreTrue`), and lone requests notify
once as long as no cancel fails, no answer is lost and nothing cuts a chain short
(`LoneRequestsNotifyOnce`).

1. **`lost_upsert`**: two first adds to a branch race to create its document.
   The loser gets code 11000, which `addItem` reports as "already present", but
   its pull request was never queued. The client has had its 201. The run is
   narrow: `RefusedForCause` says that only the creation of the document can do
   this.
2. **`foreign_removal`**: `removeItem` publishes `item.remove` whether or not
   it removed anything. A removal that names the wrong user leaves the booking,
   and the pull request with the title "Not in the queue".
3. **`stale_title`**: two overlapping requests post titles from different
   states of the queue, the older one last. A pull request that is not first is
   left with a successful "First in the queue". In the run the old title is the
   one that `item.add` computed from the index of the new booking.
   `RemovalRepairs` shows how long
   this lasts for the first MAX + 1 bookings: until the next removal that runs
   alone. Behind them it lasts until the booking moves up or is posted anew.
4. **`duplicate_notice`**: overlapping `sendChecksNotification` calls for one
   booking schedule two notifications and remember one. Nothing fails in this
   run; a cancel that fails has the same effect with one request.

## Fairness

- `queue_manager`: weak fairness of `Answer(c)` for each caller: Mongo answers.
  No fairness for new calls, removals or deletions.
- `board_live`: weak fairness of `Advance(r)` for each request: Mongo and
  GitHub answer each operation, with an error if need be. It is per request and
  not per operation: within a request a chain may lag behind the others. No
  fairness for requests to arrive, and none between requests beyond this. The
  run has no `opened` or `sync`, so `info` stays empty and what is checked is
  the chains over the queue. Restarts are excluded: after one the announcement
  is lost for good, which is why `HeadIsTold` is stated for runs without them.

- `access`: weak fairness of `Advance(r)` for each HTTP request: Mongo and
  GitHub answer it or fail it. Weak fairness of `InfoExpired(key)`: Mongo's TTL
  monitor runs every minute and drops what is older than 86400 s; a read does
  not write `created_at`. There is no fairness for webhooks, their handlers, or
  the connection: `RevocationEnds` holds even when they are late for ever,
  because of the expiry alone. `feed` needs no fairness.

Liveness is checked without symmetry.

## Proofs

Checked by TLAPS for every value of the constants that satisfies the named
assumptions: any number of pull requests, users, callers, requests, commits,
any MAX. The assumptions only say that the markers (`NoDoc`, `NoInfo`, `None`,
`NoRecord`, `NoId`, `NoHead`) differ from real values, that MAX is a natural
number, that no owner's name is empty, and which words `Workload` and
`Conclusions` may contain.

| theorem | argument |
|---|---|
| `BookingQueue_proofs!BookingsStayUnique` | the invariant is inductive with `QueueTypeOK`; the work is in the lemmas on `Pull` (`PullKeepsUnique`, `PullTakes`, `PullSpares`, `PullAddsNothing`) that all other modules use |
| `BookingQueue_proofs!NobodyEverOvertakes`, `QueueManager_proofs!NobodyEverOvertakes`, `QueueBoard_proofs!BoardKeepsOrder` | `PullKeepsOrder` and `AppendKeepsOrder` for the two operators; for the Mongo commands and for the board it then follows from the refinement |
| `QueueFeed_proofs!BranchImplementsBookingQueue` | the documents have no repeated pull request (`NextEachOnce`), and `StepOfItems` says what any step does to the items of any document: nothing, a join, a leave, or all gone. `Listed` commutes with the operators on queues |
| `QueueManager_proofs!ManagerImplementsBookingQueue` | step by step: `MatchAndPush` and `Insert` map to `Join`, `RemoveItem` to `Leave`, `DeleteQueue` to `Clear`, everything else stutters |
| `QueueManager_proofs!RefusalsHaveCause` | strengthened by `InsertsForCause`: a caller that is inserting while a document is there has `seen` or `born` set already |
| `QueueManager_proofs!LoneAddIsNeverLost` | with one caller no document can be created during its call (`CreatesItself`), which leaves `RefusedForCause` its other cause |
| `QueueBoard_proofs!BoardQueueIsBookingQueue`, `BoardBookingsUnique` | every step of every handler is a step of `BookingQueue` |
| `QueueBoard_proofs!HeadAlwaysTold` | `HeadIsTold` is inductive together with `TypeOK` once `restart` is excluded: a step that changes the head sets the lookup it needs, and a lookup finds the head it announces. `UniqueBookings` is what makes `firstItemChanged`, computed from the number alone, mean that the booking at the head left |
| `QueueBoard_proofs!ClosedAlwaysGone` | `ClosedIsGone` is not inductive. `BookingWillGo`: while the closed pull request is queued, its `locate` or a `pullClosed` with the booking that is queued now is pending. `DocumentWillGo`: while its head commit is stored, some step of its `handleClosed` is pending, and every such step leads to `forget` |
| `QueueBoard_proofs!RemovalAlwaysRepairs` | `RemovalInv`: while nothing disturbs the removal, every pending operation is one of its own and posts a right title (`OnlyTheRemoval`), and each title it owes is shown or still to be posted (`TitlesWillShow`). That posts cannot overtake each other rests on there being one title for a pull request (`WantsOne`, from `UniqueBookings`) |
| `QueueBoard_proofs!QuietBoardAlwaysMatches` | for one request at a time, no foreign removal, late webhook, failure or restart (`Serial`). `SerialInv` has the same two halves for all requests. `DueAfterPull` is why the titles that a removal does not visit stay right: whoever is still behind `MaxReported` was there before, and the title of all of these is the same |
| `QueueBoard_proofs!SerialTitlesAreTrue` | from the theorem before: what a title of a place says of the place (`TitleTells`) |
| `QueueBoard_proofs!ChainsAlwaysDescend` | what a step starts is either opened by an idle request (`StartOpens`) or follows on the operation that was answered (`AnswerFollowsOn`), with a lower `Rank` |
| `QueueBoard_proofs!RequestsStaySmall` | `FewInv`: a request that is still to visit the queue has at most three operations under way, which `FoundAll` raises by `MaxReported` at most (`SliceIsBounded`); a request that is still to find or pull what was closed has one. A request visits the queue once at a time (`OneVisit`), so this happens once |
| `ChecksNotification_proofs!NoticeAlwaysKnown` | `NothingLost` adds to `NoticeIsKnown` that a pull request that is not troubled has at most one pending operation (`OneAtATime`), and that while a cancel, a delete, a send or a save of its booking is pending nothing else of it is scheduled than what that operation accounts for (`ChainKnows`). Trouble ends only when nothing of the pull request is pending or scheduled, so that what it excepted is gone (`StaysTroubled`) |
| `ChecksNotification_proofs!NeverASecondNotice` | from `NothingLost`, for ids are given once (`IdsUnique`): what is scheduled of a booking is what its record names |
| `ChecksNotification_proofs!LoneRequestsNotifyOnce` | with one request, and only `rerun`, `githubFails` and `sendFails` in `Workload`, nothing is ever troubled (`NoTrouble`) |
| `ChecksNotification_proofs!ChecksQueueIsBookingQueue` | every step is a step of `BookingQueue` |
| `ChecksNotification_proofs!NoticeStaysCurrent` | `NoticeInv`, inductive together with `NothingLost`: a notification is about to be cancelled, or concerns the head of the queue and announces the stored status, which agrees with GitHub or is about to be compared with it; what a pending operation carries, the status read, the head found, the news to send, is still so. An operation disturbs its own pull request only (`NoticeInvElsewhere`) |
| `QueueFeed_proofs!ClientsCatchUp` | `FeedInv`: either an update of the channel has yet to read, or what is marked as the newest, on its way or shown, is the queue. Every change of a queue publishes, which gives the first case; the deletion of an owner's queues marks as displaced what it does not publish |
| `QueueFeed_proofs!BranchesApart`, `OwnersApart` | `KeyInjective`: an owner and a repository of one part can be read back from the id, whatever the branch. `ApartInv`: a document is of an owner, and its bookings are of branches, that have its id. `KeyHead`: an id starts as the name of the owner does, so that one owner's documents are of one plain owner at most |
| `QueueFeed_proofs!DashesCollide` | associativity of concatenation: the premise of the two theorems above cannot be dropped |
| `Access_proofs!AdmissionIsGranted` | `GrantInv`: what is cached, on its way into the cache, or decided was granted to that user at some time, and every operation after the first has a token of the app |
| `Access_proofs!RevocationHolds` | every step accounts for what it starts and caches (`Accounted`): a new answer of GitHub lists what is granted at that step, a new entry is an answer that was under way, and who is let in was listed by one of the two. Without access the first is impossible |
| `AccessWebhooks_proofs!UninstalledLeavesNothing` | `LeftInv`: what is cached or about to be, and not `stale`, is of the installation there is, or an uninstallation on its way or a pending deletion will drop it |
| `AccessWebhooks_proofs!InstallationStaysKnown` | `OrderInv`: the webhooks about the installation that are on their way form a chain, each starts from what the one before it leaves, the first from what Mongo knows or is being told, and the last leaves what is installed |
| `AccessWebhooks_proofs!CacheStaysCurrent` | `CurrentInv`: what the cache lists wrongly, or is about to, some webhook or handler will drop. A `repository` event does not name the installation, so its handler must find the right one: `UsedInv` says that an id with anything cached is one of which everything was told, and then `OrderInv` says that it is the only one in Mongo. `UsedInv` in turn needs that a first webhook always starts from what Mongo knows, hence `LeastOf` |
| `TypeCorrect` in five modules | one lemma for the entry points and one for the answers; `OperationFields` recovers the fields of a record from the union `Operation` |

**Only model-checked**: `CallsSettle`, `HeadGetsTold`, `RequestsEnd` and
`RevocationEnds`: liveness is out of the prover's reach. Every invariant and
action property of a passing run is a theorem, and for three of the four the
theorems hold the part that needs no fairness. `RequestsEnd`: with
`ChainsAlwaysDescend` and `RequestsStaySmall` every request has a bounded number
of operations in all, so that only their being answered is left to the run.
`HeadGetsTold`: `HeadAlwaysTold` has the announcement under way.
`RevocationEnds`: by `RevocationHolds` what is left of an access is used up and
never renewed, so that only its being used up is left.

## Abstractions

- *One branch*, in all modules but `QueueFeed` and `BranchQueue`, which shows
  that this leaves nothing out: the queue of a branch among many is the one
  that the others start from. A pull request that changes its base is not
  followed.
- *Bookings* are `{pullRequestNumber, username}`. `createdAt` is never read by
  the server.
- *Refused adds* in `QueueBoard` and `ChecksNotification` are stutters: they
  publish nothing.
- *Synchronous code is one step.* `postal` delivers synchronously, so the
  handlers of an event are part of the action that publishes it. The event
  `item.add` is published with the document that `findOneAndUpdate` returns,
  which is the queue at that step.
- *Check runs.* Listing the check runs of a commit and then creating or
  updating ours is one step, `Posted`; a commit has at most one. A listing that
  fails reads as an empty one, and a creation is tried where there is a check
  run: that it fails too is in `PostFailed`, that it makes a second check run is
  not modelled.
- *Mongo's failures* in `QueueBoard` are not told apart from a restart, which
  ends every chain and not one.
- *Combined status.* The two GitHub calls of `getCombinedStatus` are read in
  one step; each may fail on its own.
- *The two halves of the pull request document* are apart: the head commit in
  `QueueBoard`, the status in `ChecksNotification`, where no pull request is
  closed or pushed to. That a status is stored at all, and may bring a document
  back, is in `QueueBoard` too.
- *The announcement of a new head* ends with the call of OneSignal
  (`ToldFirst`); whether that call fails, and a head that is told twice, are not
  followed.
- *Authorisation and validation* only restrict the inputs. `foreignRemove` is
  within what they allow.
- *Of a token* its user and its client are known and never change, so whether
  `getTokenInfo` finds them in Mongo or asks GitHub, and the write of the cache,
  are one step, `GotTokenInfo`.
- *Permissions* are one right per user and repository, to push and to pull. The
  admin right, which only widens whose booking a request may name, is left out;
  the pages of GitHub's answer are one answer, `Accessible`.
- *One owner* in `Access`: all its operations name an owner, an installation of
  that owner, or both. The deletions of queues and pull request documents in an
  uninstallation are `QueueFeed`'s and `QueueBoard`'s.
- *A new booking in `QueueFeed`* is one step, which is what `QueueManager`
  shows of `addItem`.
- *Texts* are titles by kind and position; metrics and logs are left out.

## Not modelled

- Metrics, analytics and logging, the gauge of the queue length among them:
  output only.
- The server's wiring, the texts and the signature check: no state, or set
  once. A process that never gets a connection to Mongo answers nothing.
- HTTP answers, among them the requests that are never answered because a
  rejection is not caught (`routes-webhook.js:121`, and the repository route).
- Which conclusions of a check suite should count as passed. `getCombinedStatus`
  takes every conclusion but a failure for a success, `timed_out` and
  `cancelled` included; `CombinedStatus` does as it does.
- A `SEND_DELAY` from the environment. It is a string there, and
  `getSeconds() + SEND_DELAY` puts it behind the seconds as text, so that a
  notification may be scheduled for long after its record has expired. The
  model has the default, a number.
- Two base branches of one pull request, and check runs in two steps (list, then
  create or update): see `hazards`.
- Scripts of `tools/` and `migrations/`, except for the expiry that two of them
  set up.

## Plan

Done, in this order because everything else reads the queue: `BookingQueue`,
`QueueManager`, `QueueBoard`, `ChecksNotification`, `QueueFeed`, `Access`,
`BranchQueue`, with their proofs.

Left:

1. `ChecksNotification` together with closing and pushing: the notification of
   a head that was closed.
2. `ChecksNotification` with a delay that exceeds the life of a record.
3. Check runs in two steps, and two base branches, in `QueueBoard`.
