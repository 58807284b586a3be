-------------------------- MODULE ChecksNotification --------------------------
(***************************************************************************)
(* From a status webhook to the push notification "All checks have         *)
(* passed": handleStatusChange of handler-pullrequest.js,                  *)
(* getCombinedStatus of github.js, and handler-notification-push.js over   *)
(* manager-notification-push.js.                                           *)
(*                                                                         *)
(* The notification is scheduled at OneSignal SEND_DELAY ahead, so that a  *)
(* later webhook can cancel it; the pushNotification collection remembers  *)
(* the OneSignal id of the last one of each booking.  As in QueueBoard an  *)
(* action is one operation on Mongo, GitHub or OneSignal with the code     *)
(* that runs on its answer, and what comes next waits in pending.          *)
(*                                                                         *)
(* Every pull request is known and keeps its head commit: closing and      *)
(* pushing are QueueBoard's.                                               *)
(***************************************************************************)
EXTENDS BookingQueue, FiniteSets

CONSTANTS Apps,         \* the apps with a check suite on a head commit
          Conclusions,  \* how a check suite can end
          Notices,      \* ids that OneSignal gives to notifications
          Requests,     \* slots for webhooks and HTTP calls at the same time
          Workload,     \* what else happens, and what goes wrong
          NoRecord,     \* no document of the pushNotification collection
          NoId          \* a document that was saved without an id

ASSUME ChecksAssumption ==
    /\ Conclusions \subseteq {"success", "failure", "neutral", "cancelled",
                              "timed_out", "action_required"}
    /\ NoRecord \notin Notices
    /\ NoId \notin Notices
    /\ NoRecord # NoId
    /\ Workload \subseteq {"rerun", "githubFails", "sendFails", "cancelFails",
                            "answersLost", "mongoFails", "restart"}

VARIABLES suites,     \* on GitHub: the conclusion of each check suite, or "none"
          state,      \* on GitHub: the combined state of the commit statuses
          owed,       \* pull requests whose last change ugo has not heard of:
                      \* the webhook is to come, or GitHub did not answer then
          status,     \* in Mongo: the status last stored for a pull request
          scheduled,  \* at OneSignal: notifications not delivered yet
          record,     \* in Mongo: the id remembered for each booking
          pending,    \* the operations the running requests wait for
          troubled    \* history: pull requests with something still pending or
                      \* scheduled of the time when two requests were busy
                      \* with them, or a call failed, or the process stopped

github == <<suites, state, owed>>
push == <<scheduled, record>>
vars == <<queue, github, status, push, pending, troubled>>

-----------------------------------------------------------------------------
(* The combined status.                                                    *)

News == {"success", "failure"}
Status == {"pending"} \cup News

\* Mutant: the conclusion of a suite is taken for a status.
AnyConclusion(conclusions, st) ==
    IF conclusions = {} THEN st ELSE CHOOSE c \in conclusions : TRUE

\* getCombinedStatus.  Whatever is neither pending nor a failure is success.
CombinedStatus(conclusions, st) ==
    IF "none" \in conclusions \/ st = "pending" THEN "pending"
    ELSE IF "failure" \in conclusions \/ st = "failure" THEN "failure"
    ELSE "success"

ConclusionsOf(pr) == {suites[pr][a] : a \in Apps}
GitHubStatus(pr) == CombinedStatus(ConclusionsOf(pr), state[pr])

-----------------------------------------------------------------------------
(* Pending operations.  Those of handleStatusChange carry old, the stored  *)
(* status that was read; those of a notification carry send, the status to *)
(* announce, "pending" when there is only something to cancel.             *)

FindFirst(r, pr, old) == [step |-> "findFirst", req |-> r, pr |-> pr, old |-> old]
Fetch(r, b, old) == [step |-> "fetch", req |-> r, pr |-> b.pr, user |-> b.user,
                     old |-> old]
Store(op, new) == [step |-> "store", req |-> op.req, pr |-> op.pr,
                   user |-> op.user, old |-> op.old, new |-> new]
LookUp(r, b, send) == [step |-> "lookUp", req |-> r, pr |-> b.pr,
                       user |-> b.user, send |-> send]
Cancel(op, id) == [step |-> "cancel", req |-> op.req, pr |-> op.pr,
                   user |-> op.user, send |-> op.send, id |-> id]
Delete(op) == [step |-> "delete", req |-> op.req, pr |-> op.pr,
               user |-> op.user, send |-> op.send]
Send(op) == [step |-> "send", req |-> op.req, pr |-> op.pr, user |-> op.user,
             send |-> op.send]
Save(op, id) == [step |-> "save", req |-> op.req, pr |-> op.pr,
                 user |-> op.user, send |-> op.send, id |-> id]

Operation ==
    [step: {"findFirst"}, req: Requests, pr: PullRequests, old: Status]
    \cup [step: {"fetch"}, req: Requests, pr: PullRequests, user: Users,
          old: Status]
    \cup [step: {"store"}, req: Requests, pr: PullRequests, user: Users,
          old: Status, new: Status]
    \cup [step: {"lookUp", "delete"}, req: Requests, pr: PullRequests,
          user: Users, send: Status]
    \cup [step: {"cancel"}, req: Requests, pr: PullRequests, user: Users,
          send: Status, id: Notices \cup {NoId}]
    \cup [step: {"send"}, req: Requests, pr: PullRequests, user: Users,
          send: News]
    \cup [step: {"save"}, req: Requests, pr: PullRequests, user: Users,
          send: News, id: Notices \cup {NoId}]

BookingIn(op) == [pr |-> op.pr, user |-> op.user]

Idle(r) == \A op \in pending : op.req # r

\* A scheduled notification of a booking.
Notice == [id: Notices, booking: Booking, state: News]

-----------------------------------------------------------------------------
TypeOK == /\ QueueTypeOK
          /\ suites \in [PullRequests -> [Apps -> Conclusions \cup {"none"}]]
          /\ state \in [PullRequests -> Status]
          /\ owed \subseteq PullRequests
          /\ status \in [PullRequests -> Status]
          /\ scheduled \subseteq Notice
          /\ record \in [Booking -> Notices \cup {NoRecord, NoId}]
          /\ pending \subseteq Operation
          /\ troubled \subseteq PullRequests

\* A document without a status reads as "pending".
Init == /\ QueueInit
        /\ suites = [pr \in PullRequests |-> [a \in Apps |-> "none"]]
        /\ state = [pr \in PullRequests |-> "pending"]
        /\ owed = {}
        /\ status = [pr \in PullRequests |-> "pending"]
        /\ scheduled = {}
        /\ record = [b \in Booking |-> NoRecord]
        /\ pending = {}
        /\ troubled = {}

-----------------------------------------------------------------------------
(* The history.  Nothing can be said of the notifications of a pull        *)
(* request that two requests are busy with at once, or that a failure left *)
(* something of; but only until its requests are done and what was         *)
(* scheduled is delivered.                                                 *)

\* A request gets busy with pr: do two of them now cross?
Crossing(pr) == IF \E op \in pending : op.pr = pr THEN troubled \cup {pr}
                ELSE troubled

Trouble(new) ==
    troubled' = {pr \in troubled \cup new :
                   \/ \E op \in pending' : op.pr = pr
                   \/ \E n \in scheduled' : n.booking.pr = pr}

-----------------------------------------------------------------------------
(* GitHub.  Its webhooks are owed once what they report has changed; of    *)
(* the check_suite events only "completed" reaches handleStatusChange.     *)

StatusSet(pr, st) ==
    /\ st # state[pr]
    /\ state' = [state EXCEPT ![pr] = st]
    /\ owed' = owed \cup {pr}
    /\ UNCHANGED <<queue, suites, status, push, pending, troubled>>

SuiteCompleted(pr, a, conclusion) ==
    /\ suites[pr][a] = "none"
    /\ suites' = [suites EXCEPT ![pr][a] = conclusion]
    /\ owed' = owed \cup {pr}
    /\ UNCHANGED <<queue, state, status, push, pending, troubled>>

SuiteRequested(pr, a) ==
    /\ "rerun" \in Workload
    /\ suites[pr][a] # "none"
    /\ suites' = [suites EXCEPT ![pr][a] = "none"]
    /\ UNCHANGED <<queue, state, owed, status, push, pending, troubled>>

-----------------------------------------------------------------------------
(* Requests.                                                               *)

AddItem(b) ==
    /\ Join(b)
    /\ UNCHANGED <<github, status, push, pending, troubled>>

\* removeItem, and what handler-notification-push does on item.remove.
RemoveItem(r, b) ==
    /\ Idle(r)
    /\ Leave(b)
    /\ pending' = pending \cup {LookUp(r, b, "pending")}
    /\ troubled' = Crossing(b.pr)
    /\ UNCHANGED <<github, status, push>>

\* The booking is gone, and the answer of Mongo that item.remove waits for is
\* not heard.
RemoveUnheard(b) ==
    /\ "mongoFails" \in Workload
    /\ b \in ToSet(queue)
    /\ Leave(b)
    /\ UNCHANGED <<github, status, push, pending>>
    /\ Trouble({b.pr})

\* A status webhook or a completed check_suite, also one that changes nothing
\* in the combined state, up to getPullRequestInfoBySha.
HandleStatusChange(r, pr) ==
    /\ Idle(r)
    /\ owed' = owed \ {pr}
    /\ pending' = pending \cup {FindFirst(r, pr, status[pr])}
    /\ troubled' = Crossing(pr)
    /\ UNCHANGED <<queue, suites, state, status, push>>

-----------------------------------------------------------------------------
(* handleStatusChange.                                                     *)

Continue(op, next) == pending' = (pending \ {op}) \cup next

\* getFirstItem: only the head of the queue gets on.
FoundFirst(op) ==
    /\ op.step = "findFirst"
    /\ Continue(op, IF queue # <<>> /\ Head(queue).pr = op.pr
                    THEN {Fetch(op.req, Head(queue), op.old)} ELSE {})
    /\ UNCHANGED <<queue, github, status, push>>
    /\ Trouble({})

\* getHashCombinedStatus.
Fetched(op) ==
    /\ op.step = "fetch"
    /\ Continue(op, {Store(op, GitHubStatus(op.pr))})
    /\ UNCHANGED <<queue, github, status, push>>
    /\ Trouble({})

\* Either call may fail; its answer then reads as no suites, or no state.
FetchFailed(op) ==
    /\ "githubFails" \in Workload
    /\ op.step = "fetch"
    /\ \E answer \in {CombinedStatus({}, state[op.pr]),
                      CombinedStatus(ConclusionsOf(op.pr), "unknown"),
                      CombinedStatus({}, "unknown")} :
         Continue(op, {Store(op, answer)})
    /\ owed' = owed \cup {op.pr}
    /\ UNCHANGED <<queue, suites, state, status, push>>
    /\ Trouble({})

\* Mutant: only good and bad news change anything.
StoredUnlessPending(op) ==
    /\ op.step = "store"
    /\ status' = [status EXCEPT ![op.pr] = op.new]
    /\ Continue(op, IF op.new # op.old /\ op.new # "pending"
                    THEN {LookUp(op.req, BookingIn(op), op.new)} ELSE {})
    /\ UNCHANGED <<queue, github, push>>
    /\ Trouble({})

\* setPullRequestInfo, then cancel.checks or send.checks if the status is not
\* the one read at the start.
Stored(op) ==
    /\ op.step = "store"
    /\ status' = [status EXCEPT ![op.pr] = op.new]
    /\ Continue(op, IF op.new # op.old
                    THEN {LookUp(op.req, BookingIn(op), op.new)} ELSE {})
    /\ UNCHANGED <<queue, github, push>>
    /\ Trouble({})

-----------------------------------------------------------------------------
(* cancelChecksNotification, and sendChecksNotification after it.          *)

\* Whatever became of the cancelling: its .catch swallows every error.
AfterCancel(op) == IF op.send = "pending" THEN {} ELSE {Send(op)}

\* Mutant: what is scheduled is cancelled when the checks run again, and not
\* before a new notification is sent.
LookedUpWhenPending(op) ==
    /\ op.step = "lookUp"
    /\ Continue(op, IF op.send # "pending" \/ record[BookingIn(op)] = NoRecord
                    THEN AfterCancel(op)
                    ELSE {Cancel(op, record[BookingIn(op)])})
    /\ UNCHANGED <<queue, github, status, push>>
    /\ Trouble({})

LookedUp(op) ==
    /\ op.step = "lookUp"
    /\ Continue(op, IF record[BookingIn(op)] = NoRecord THEN AfterCancel(op)
                    ELSE {Cancel(op, record[BookingIn(op)])})
    /\ UNCHANGED <<queue, github, status, push>>
    /\ Trouble({})

\* OneSignal cancels what it has scheduled and answers an error for the rest;
\* after an error the document stays.
Cancelled(op) ==
    /\ op.step = "cancel"
    /\ scheduled' = {n \in scheduled : n.id # op.id}
    /\ Continue(op, IF scheduled' # scheduled THEN {Delete(op)}
                    ELSE AfterCancel(op))
    /\ UNCHANGED <<queue, github, status, record>>
    /\ Trouble({})

Deleted(op) ==
    /\ op.step = "delete"
    /\ record' = [record EXCEPT ![BookingIn(op)] = NoRecord]
    /\ Continue(op, AfterCancel(op))
    /\ UNCHANGED <<queue, github, status, scheduled>>
    /\ Trouble({})

\* getNotification or cancelNotification fails without any effect: what is
\* scheduled stays so, and its id stays until a new one is saved over it.
CancelFailed(op) ==
    /\ "cancelFails" \in Workload
    /\ op.step \in {"lookUp", "cancel"}
    /\ Continue(op, AfterCancel(op))
    /\ UNCHANGED <<queue, github, status, push>>
    /\ Trouble(IF \E n \in scheduled : n.booking = BookingIn(op)
               THEN {op.pr} ELSE {})

\* OneSignal has cancelled, but its answer is lost.
CancelUnheard(op) ==
    /\ "answersLost" \in Workload
    /\ op.step = "cancel"
    /\ scheduled' = {n \in scheduled : n.id # op.id}
    /\ Continue(op, AfterCancel(op))
    /\ UNCHANGED <<queue, github, status, record>>
    /\ Trouble({})

\* deleteNotification fails, before or after the document has gone.
DeleteFailed(op) ==
    /\ "cancelFails" \in Workload
    /\ op.step = "delete"
    /\ record' \in {record, [record EXCEPT ![BookingIn(op)] = NoRecord]}
    /\ Continue(op, AfterCancel(op))
    /\ UNCHANGED <<queue, github, status, scheduled>>
    /\ Trouble({})

\* An id that nobody remembers.
Fresh(id) == /\ \A n \in scheduled : n.id # id
             /\ \A b \in Booking : record[b] # id
             /\ \A op \in pending : op.step \in {"cancel", "save"} => op.id # id

Sent(op) ==
    /\ op.step = "send"
    /\ \E id \in Notices :
         /\ Fresh(id)
         /\ scheduled' = scheduled \cup {[id |-> id, booking |-> BookingIn(op),
                                          state |-> op.send]}
         /\ Continue(op, {Save(op, id)})
    /\ UNCHANGED <<queue, github, status, record>>
    /\ Trouble({})

\* sent.ko: the chain goes on without an answer.
SendFailed(op) ==
    /\ "sendFails" \in Workload
    /\ op.step = "send"
    /\ Continue(op, {Save(op, NoId)})
    /\ UNCHANGED <<queue, github, status, push>>
    /\ Trouble({})

\* sent.ko as well, but OneSignal has scheduled the notification.
SendUnheard(op) ==
    /\ "answersLost" \in Workload
    /\ op.step = "send"
    /\ \E id \in Notices :
         /\ Fresh(id)
         /\ scheduled' = scheduled \cup {[id |-> id, booking |-> BookingIn(op),
                                          state |-> op.send]}
    /\ Continue(op, {Save(op, NoId)})
    /\ UNCHANGED <<queue, github, status, record>>
    /\ Trouble({op.pr})

\* Mutant: a document that is there is left alone ($setOnInsert).
SavedOnce(op) ==
    /\ op.step = "save"
    /\ record' = [record EXCEPT ![BookingIn(op)] =
                    IF @ = NoRecord THEN op.id ELSE @]
    /\ Continue(op, {})
    /\ UNCHANGED <<queue, github, status, scheduled>>
    /\ Trouble({})

\* saveNotification: $set leaves an id that is there when it brings none.
Saved(op) ==
    /\ op.step = "save"
    /\ record' = [record EXCEPT ![BookingIn(op)] =
                    IF op.id = NoId /\ @ # NoRecord THEN @ ELSE op.id]
    /\ Continue(op, {})
    /\ UNCHANGED <<queue, github, status, scheduled>>
    /\ Trouble({})

-----------------------------------------------------------------------------
(* What ends a request early.                                              *)

\* Nothing catches a rejection of getFirstItem, setPullRequestInfo (which may
\* have been written) or saveNotification.
MongoFailed(op) ==
    /\ "mongoFails" \in Workload
    /\ op.step \in {"findFirst", "store", "save"}
    /\ \/ UNCHANGED status
       \/ /\ op.step = "store"
          /\ status' = [status EXCEPT ![op.pr] = op.new]
    /\ Continue(op, {})
    /\ UNCHANGED <<queue, github, push>>
    /\ Trouble({op.pr})

\* The process stops, and starts again with nothing but what Mongo has.
Restart ==
    /\ "restart" \in Workload
    /\ pending # {}
    /\ pending' = {}
    /\ UNCHANGED <<queue, github, status, push>>
    /\ Trouble({op.pr : op \in pending})

-----------------------------------------------------------------------------
(* Time.  A document expires 120 s after it was saved, the default         *)
(* SEND_DELAY is 60 s: a notification is delivered before its document     *)
(* goes.                                                                   *)

Delivered(n) ==
    /\ scheduled' = scheduled \ {n}
    /\ UNCHANGED <<queue, github, status, record, pending>>
    /\ Trouble({})

Expired(b) ==
    /\ record[b] # NoRecord
    /\ \A n \in scheduled : n.id # record[b]
    /\ record' = [record EXCEPT ![b] = NoRecord]
    /\ UNCHANGED <<queue, github, status, scheduled, pending, troubled>>

-----------------------------------------------------------------------------
GitHub(pr) ==
    \/ \E st \in Status : StatusSet(pr, st)
    \/ \E a \in Apps :
         SuiteRequested(pr, a) \/ \E c \in Conclusions : SuiteCompleted(pr, a, c)

Start(r) ==
    \/ \E b \in Booking : RemoveItem(r, b)
    \/ \E pr \in PullRequests : HandleStatusChange(r, pr)

Answer(op) ==
    \/ FoundFirst(op) \/ Fetched(op) \/ FetchFailed(op) \/ Stored(op)
    \/ LookedUp(op) \/ Cancelled(op) \/ Deleted(op)
    \/ CancelFailed(op) \/ CancelUnheard(op) \/ DeleteFailed(op)
    \/ Sent(op) \/ SendFailed(op) \/ SendUnheard(op) \/ Saved(op)
    \/ MongoFailed(op)

Next == \/ \E pr \in PullRequests : GitHub(pr)
        \/ \E b \in Booking : AddItem(b) \/ RemoveUnheard(b) \/ Expired(b)
        \/ \E r \in Requests : Start(r)
        \/ \E op \in pending : Answer(op)
        \/ \E n \in scheduled : Delivered(n)
        \/ Restart

Spec == Init /\ [][Next]_vars

-----------------------------------------------------------------------------
(* Properties.                                                             *)

\* OneSignal never holds a notification that ugo could not cancel any more:
\* it is the one the collection remembers for its booking, or its id is about
\* to be saved.  The exceptions are two requests busy with the pull request at
\* once, a notification that stayed when its cancelling failed, an answer or
\* an id that was lost, and a stop of the process, each until the requests of
\* the pull request are done and what it had scheduled is delivered.  A send
\* that fails, a document that could not be deleted and one that expires are
\* none.
NoticeIsKnown ==
    \A n \in scheduled :
      n.booking.pr \notin troubled =>
        \/ record[n.booking] = n.id
        \/ \E op \in pending :
             op.step = "save" /\ op.id = n.id /\ BookingIn(op) = n.booking

\* Once all webhooks are handled, what is scheduled is true: it concerns the
\* head of the queue and announces the combined status GitHub has now.  The
\* exceptions are those of NoticeIsKnown, a webhook whose handling Mongo cut
\* short, and a check suite that runs again, whose start ugo does not look at.
NoticeIsCurrent ==
    pending = {} =>
      \A n \in scheduled :
        LET pr == n.booking.pr IN
        pr \notin owed \cup troubled /\ "none" \notin ConclusionsOf(pr) =>
          /\ queue # <<>>
          /\ Head(queue) = n.booking
          /\ n.state = GitHubStatus(pr)

\* Nobody gets two notifications about the same booking, with the exceptions
\* of NoticeIsKnown.
NoSecondNotice ==
    \A m, n \in scheduled :
      m.booking = n.booking /\ m.booking.pr \notin troubled => m = n

\* "First send cancels any previous notification": never two of a booking.
OneNoticePerBooking ==
    \A m, n \in scheduled : m.booking = n.booking => m = n
===============================================================================
