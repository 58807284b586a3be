---------------------- MODULE ChecksNotification_proofs ----------------------
(***************************************************************************)
(* For every number of requests, pull requests, users, apps and ids: the   *)
(* types of ChecksNotification, that its queue is the BookingQueue, and    *)
(* that OneSignal never holds a notification that ugo has lost track of, a *)
(* second one for a booking, or one that is no longer true, unless its     *)
(* pull request is troubled: requests for it crossed, or something failed, *)
(* and what was scheduled then is not delivered yet.                       *)
(***************************************************************************)
EXTENDS ChecksNotification, BookingQueue_proofs

-----------------------------------------------------------------------------
(* Lemmas about the operators.                                             *)

LEMMA CombinedStatusType ==
  ASSUME NEW conclusions, NEW st
  PROVE  CombinedStatus(conclusions, st) \in Status
BY DEF CombinedStatus, Status, News

(* The fields of an operation can be read off the step it is at.           *)
LEMMA OperationFields ==
  ASSUME NEW op \in Operation
  PROVE  /\ op.req \in Requests
         /\ op.pr \in PullRequests
         /\ op.step # "findFirst" => op.user \in Users
         /\ op.step \in {"findFirst", "fetch", "store"} => op.old \in Status
         /\ op.step = "store" => op.new \in Status
         /\ op.step \in {"lookUp", "cancel", "delete", "send", "save"} =>
              op.send \in Status
         /\ op.step \in {"send", "save"} => op.send \in News
         /\ op.step \in {"cancel", "save"} => op.id \in Notices \cup {NoId}
<1>1. CASE op \in [step: {"findFirst"}, req: Requests, pr: PullRequests,
                   old: Status]
  BY <1>1
<1>2. CASE op \in [step: {"fetch"}, req: Requests, pr: PullRequests,
                   user: Users, old: Status]
  BY <1>2
<1>3. CASE op \in [step: {"store"}, req: Requests, pr: PullRequests,
                   user: Users, old: Status, new: Status]
  BY <1>3
<1>4. CASE op \in [step: {"lookUp", "delete"}, req: Requests,
                   pr: PullRequests, user: Users, send: Status]
  BY <1>4
<1>5. CASE op \in [step: {"cancel"}, req: Requests, pr: PullRequests,
                   user: Users, send: Status, id: Notices \cup {NoId}]
  BY <1>5
<1>6. CASE op \in [step: {"send"}, req: Requests, pr: PullRequests,
                   user: Users, send: News]
  BY <1>6 DEF Status
<1>7. CASE op \in [step: {"save"}, req: Requests, pr: PullRequests,
                   user: Users, send: News, id: Notices \cup {NoId}]
  BY <1>7 DEF Status
<1> QED BY <1>1, <1>2, <1>3, <1>4, <1>5, <1>6, <1>7 DEF Operation

LEMMA BookingInType ==
  ASSUME NEW op \in Operation, op.step # "findFirst"
  PROVE  /\ BookingIn(op) \in Booking
         /\ BookingIn(op).pr = op.pr
BY OperationFields DEF BookingIn, Booking

(* What a status webhook and a removal start with.                         *)
LEMMA FirstOperations ==
  ASSUME NEW r \in Requests, NEW old \in Status
  PROVE  /\ \A pr \in PullRequests : FindFirst(r, pr, old) \in Operation
         /\ \A b \in Booking : Fetch(r, b, old) \in Operation
         /\ \A b \in Booking : LookUp(r, b, old) \in Operation
<1>1. \A pr \in PullRequests : FindFirst(r, pr, old) \in Operation
  BY DEF FindFirst, Operation
<1>2. \A b \in Booking : Fetch(r, b, old) \in Operation
  BY DEF Fetch, Operation, Booking
<1>3. \A b \in Booking : LookUp(r, b, old) \in Operation
  BY DEF LookUp, Operation, Booking
<1> QED BY <1>1, <1>2, <1>3

LEMMA StoreType ==
  ASSUME NEW op \in Operation, op.step = "fetch", NEW new \in Status
  PROVE  Store(op, new) \in Operation
BY OperationFields DEF Store, Operation

(* What follows in the chain of a notification.                            *)
LEMMA ChainOperations ==
  ASSUME NEW op \in Operation
  PROVE  /\ op.step = "lookUp" =>
              \A id \in Notices \cup {NoId} : Cancel(op, id) \in Operation
         /\ op.step = "cancel" => Delete(op) \in Operation
         /\ op.step \in {"lookUp", "cancel", "delete"} =>
              AfterCancel(op) \subseteq Operation
         /\ op.step = "send" =>
              \A id \in Notices \cup {NoId} : Save(op, id) \in Operation
<1>1. op.req \in Requests /\ op.pr \in PullRequests
  BY OperationFields
<1>2. ASSUME op.step \in {"lookUp", "cancel", "delete"}
      PROVE  /\ \A id \in Notices \cup {NoId} : Cancel(op, id) \in Operation
             /\ Delete(op) \in Operation
             /\ AfterCancel(op) \subseteq Operation
  <2>1. op.user \in Users /\ op.send \in Status
    BY <1>2, OperationFields
  <2>2. op.send # "pending" => Send(op) \in Operation
    BY <1>1, <2>1 DEF Send, Operation, Status
  <2> QED BY <1>1, <2>1, <2>2 DEF Cancel, Delete, AfterCancel, Operation
<1>3. ASSUME op.step = "send", NEW id \in Notices \cup {NoId}
      PROVE  Save(op, id) \in Operation
  <2>1. op.user \in Users /\ op.send \in News
    BY <1>3, OperationFields
  <2> QED BY <1>1, <2>1 DEF Save, Operation
<1> QED BY <1>2, <1>3

(* A pull request leaves troubled only when nothing of it is left to say   *)
(* anything about.                                                         *)
StaysTroubled ==
    /\ \A o \in pending' : o.pr \in troubled => o.pr \in troubled'
    /\ \A n \in scheduled' :
         n.booking.pr \in troubled => n.booking.pr \in troubled'

LEMMA TroubleStays ==
  ASSUME NEW new, Trouble(new)
  PROVE  /\ StaysTroubled
         /\ \A o \in pending' : o.pr \in new => o.pr \in troubled'
         /\ \A n \in scheduled' :
              n.booking.pr \in new => n.booking.pr \in troubled'
         /\ troubled' \subseteq troubled \cup new
BY DEF Trouble, StaysTroubled

LEMMA GrowingTroubleStays ==
  ASSUME troubled \subseteq troubled'
  PROVE  StaysTroubled
BY DEF StaysTroubled

-----------------------------------------------------------------------------
(* Type correctness.                                                       *)

LEMMA InitTypeOK == Init => TypeOK
<1>1. Init => QueueTypeOK
  BY EmptySeq DEF Init, QueueInit, QueueTypeOK
<1> QED BY <1>1 DEF Init, TypeOK, Status

LEMMA GitHubTypeOK ==
  ASSUME TypeOK, NEW pr \in PullRequests, GitHub(pr)
  PROVE  TypeOK'
<1> USE DEF TypeOK, QueueTypeOK, push
<1>1. ASSUME NEW st \in Status, StatusSet(pr, st) PROVE TypeOK'
  BY <1>1 DEF StatusSet
<1>2. ASSUME NEW a \in Apps, SuiteRequested(pr, a) PROVE TypeOK'
  BY <1>2 DEF SuiteRequested
<1>3. ASSUME NEW a \in Apps, NEW c \in Conclusions, SuiteCompleted(pr, a, c)
      PROVE  TypeOK'
  BY <1>3 DEF SuiteCompleted
<1> QED BY <1>1, <1>2, <1>3 DEF GitHub

LEMMA StartTypeOK ==
  ASSUME TypeOK, NEW r \in Requests, Start(r)
  PROVE  TypeOK'
<1> USE DEF TypeOK, QueueTypeOK, push, github
<1>1. ASSUME NEW b \in Booking, RemoveItem(r, b) PROVE TypeOK'
  <2>1. LookUp(r, b, "pending") \in Operation
    BY FirstOperations DEF Status
  <2>2. queue' \in Seq(Booking)
    BY <1>1, PullProperties DEF RemoveItem, Leave
  <2> QED BY <1>1, <2>1, <2>2 DEF RemoveItem, Crossing, Booking
<1>2. ASSUME NEW pr \in PullRequests, HandleStatusChange(r, pr) PROVE TypeOK'
  <2>1. FindFirst(r, pr, status[pr]) \in Operation
    BY FirstOperations
  <2> QED BY <1>2, <2>1 DEF HandleStatusChange, Crossing
<1> QED BY <1>1, <1>2 DEF Start

LEMMA AnswerTypeOK ==
  ASSUME TypeOK, NEW op \in pending, Answer(op)
  PROVE  TypeOK'
<1> USE DEF TypeOK, QueueTypeOK, push, github, Continue
<1>0. op \in Operation /\ op.pr \in PullRequests
  BY OperationFields
<1>T. troubled' \subseteq PullRequests
  <2>1. PICK new \in SUBSET PullRequests : Trouble(new)
    BY <1>0 DEF Answer, FoundFirst, Fetched, FetchFailed, Stored, LookedUp,
                Cancelled, Deleted, CancelFailed, CancelUnheard, DeleteFailed,
                Sent, SendFailed, SendUnheard, Saved, MongoFailed
  <2> QED BY <2>1, TroubleStays
<1>1. CASE FoundFirst(op)
  <2>1. queue # <<>> => Fetch(op.req, Head(queue), op.old) \in Operation
    BY <1>0, <1>1, HeadTailProperties, FirstOperations, OperationFields
       DEF FoundFirst
  <2> QED BY <1>1, <1>T, <2>1 DEF FoundFirst
<1>2. CASE Fetched(op)
  <2>1. Store(op, GitHubStatus(op.pr)) \in Operation
    BY <1>0, <1>2, StoreType, CombinedStatusType DEF Fetched, GitHubStatus
  <2> QED BY <1>2, <1>T, <2>1 DEF Fetched
<1>3. CASE FetchFailed(op)
  <2>1. PICK answer \in {CombinedStatus({}, state[op.pr]),
                         CombinedStatus(ConclusionsOf(op.pr), "unknown"),
                         CombinedStatus({}, "unknown")} :
          pending' = (pending \ {op}) \cup {Store(op, answer)}
    BY <1>3 DEF FetchFailed
  <2>2. Store(op, answer) \in Operation
    BY <1>0, <1>3, StoreType, CombinedStatusType DEF FetchFailed
  <2>3. op.pr \in PullRequests
    BY <1>0, OperationFields
  <2> QED BY <1>3, <1>T, <2>1, <2>2, <2>3 DEF FetchFailed
<1>4. CASE Stored(op)
  <2>1. /\ op.req \in Requests
        /\ op.new \in Status
        /\ BookingIn(op) \in Booking
    BY <1>0, <1>4, OperationFields, BookingInType DEF Stored
  <2>2. LookUp(op.req, BookingIn(op), op.new) \in Operation
    BY <2>1, FirstOperations
  <2> QED BY <1>4, <1>T, <2>1, <2>2 DEF Stored
<1>5. CASE LookedUp(op)
  <2>1. BookingIn(op) \in Booking
    BY <1>0, <1>5, BookingInType DEF LookedUp
  <2>2. record[BookingIn(op)] # NoRecord =>
          Cancel(op, record[BookingIn(op)]) \in Operation
    BY <1>0, <1>5, <2>1, ChainOperations DEF LookedUp
  <2>3. AfterCancel(op) \subseteq Operation
    BY <1>0, <1>5, ChainOperations DEF LookedUp
  <2> QED BY <1>5, <1>T, <2>2, <2>3 DEF LookedUp
<1>6. CASE Cancelled(op)
  <2>1. Delete(op) \in Operation /\ AfterCancel(op) \subseteq Operation
    BY <1>0, <1>6, ChainOperations DEF Cancelled
  <2> QED BY <1>6, <1>T, <2>1 DEF Cancelled
<1>7. CASE Deleted(op) \/ CancelFailed(op) \/ CancelUnheard(op) \/ DeleteFailed(op)
  <2>1. AfterCancel(op) \subseteq Operation
    BY <1>0, <1>7, ChainOperations
       DEF Deleted, CancelFailed, CancelUnheard, DeleteFailed
  <2>2. record' \in [Booking -> Notices \cup {NoRecord, NoId}]
    BY <1>7 DEF Deleted, CancelFailed, CancelUnheard, DeleteFailed
  <2>3. /\ pending' \subseteq Operation
        /\ scheduled' \subseteq Notice
        /\ UNCHANGED <<queue, suites, state, owed, status>>
    BY <1>7, <2>1 DEF Deleted, CancelFailed, CancelUnheard, DeleteFailed
  <2> QED BY <1>T, <2>2, <2>3
<1>8. CASE Sent(op)
  <2>1. PICK id \in Notices :
          /\ scheduled' = scheduled \cup {[id |-> id, booking |-> BookingIn(op),
                                           state |-> op.send]}
          /\ pending' = (pending \ {op}) \cup {Save(op, id)}
    BY <1>8 DEF Sent
  <2>2. Save(op, id) \in Operation
    BY <1>0, <1>8, ChainOperations DEF Sent
  <2>3. [id |-> id, booking |-> BookingIn(op), state |-> op.send] \in Notice
    BY <1>0, <1>8, BookingInType, OperationFields DEF Sent, Notice
  <2> QED BY <1>8, <1>T, <2>1, <2>2, <2>3 DEF Sent
<1>9. CASE SendFailed(op)
  <2>1. Save(op, NoId) \in Operation
    BY <1>0, <1>9, ChainOperations DEF SendFailed
  <2> QED BY <1>9, <1>T, <2>1 DEF SendFailed
<1>10. CASE Saved(op)
  <2>1. op.id \in Notices \cup {NoId}
    BY <1>0, <1>10, OperationFields DEF Saved
  <2> QED BY <1>10, <1>T, <2>1 DEF Saved
<1>11. CASE SendUnheard(op)
  <2>1. PICK id \in Notices :
          scheduled' = scheduled \cup {[id |-> id, booking |-> BookingIn(op),
                                        state |-> op.send]}
    BY <1>11 DEF SendUnheard
  <2>2. [id |-> id, booking |-> BookingIn(op), state |-> op.send] \in Notice
    BY <1>0, <1>11, BookingInType, OperationFields DEF SendUnheard, Notice
  <2>3. Save(op, NoId) \in Operation
    BY <1>0, <1>11, ChainOperations DEF SendUnheard
  <2> QED BY <1>11, <1>T, <2>1, <2>2, <2>3 DEF SendUnheard
<1>12. CASE MongoFailed(op)
  <2>1. status' \in [PullRequests -> Status]
    BY <1>0, <1>12, OperationFields DEF MongoFailed
  <2> QED BY <1>12, <1>T, <2>1 DEF MongoFailed
<1> QED
  BY <1>1, <1>2, <1>3, <1>4, <1>5, <1>6, <1>7, <1>8, <1>9, <1>10, <1>11, <1>12
     DEF Answer

(* Every state of ChecksNotification has the types of TypeOK.              *)
THEOREM TypeCorrect == Spec => []TypeOK
<1>1. TypeOK /\ [Next]_vars => TypeOK'
  <2> SUFFICES ASSUME TypeOK, [Next]_vars PROVE TypeOK'
    OBVIOUS
  <2>1. ASSUME NEW pr \in PullRequests, GitHub(pr) PROVE TypeOK'
    BY <2>1, GitHubTypeOK
  <2>2. ASSUME NEW b \in Booking, AddItem(b) PROVE TypeOK'
    BY <2>2 DEF AddItem, Join, TypeOK, QueueTypeOK, push, github
  <2>3. ASSUME NEW b \in Booking, Expired(b) PROVE TypeOK'
    BY <2>3 DEF Expired, TypeOK, QueueTypeOK, github
  <2>4. ASSUME NEW r \in Requests, Start(r) PROVE TypeOK'
    BY <2>4, StartTypeOK
  <2>5. ASSUME NEW op \in pending, Answer(op) PROVE TypeOK'
    BY <2>5, AnswerTypeOK
  <2>6. ASSUME NEW n \in scheduled, Delivered(n) PROVE TypeOK'
    BY <2>6, TroubleStays DEF Delivered, TypeOK, QueueTypeOK, github
  <2>7. CASE UNCHANGED vars
    BY <2>7 DEF vars, TypeOK, QueueTypeOK, push, github
  <2>8. ASSUME NEW b \in Booking, RemoveUnheard(b) PROVE TypeOK'
    <3>1. queue' \in Seq(Booking)
      BY <2>8, PullProperties DEF RemoveUnheard, Leave, TypeOK, QueueTypeOK
    <3>2. troubled' \subseteq PullRequests
      BY <2>8, TroubleStays DEF RemoveUnheard, TypeOK, Booking
    <3> QED BY <2>8, <3>1, <3>2
            DEF RemoveUnheard, TypeOK, QueueTypeOK, push, github
  <2>9. CASE Restart
    <3>1. {op.pr : op \in pending} \subseteq PullRequests
      BY OperationFields DEF TypeOK
    <3>2. troubled' \subseteq PullRequests
      BY <2>9, <3>1, TroubleStays DEF Restart, TypeOK
    <3> QED BY <2>9, <3>2 DEF Restart, TypeOK, QueueTypeOK, push, github
  <2> QED BY <2>1, <2>2, <2>3, <2>4, <2>5, <2>6, <2>7, <2>8, <2>9 DEF Next
<1> QED BY <1>1, InitTypeOK, PTL DEF Spec

(* What happens to the queue here is what BookingQueue allows, so that no  *)
(* pull request is booked twice and nobody overtakes.                      *)
THEOREM ChecksQueueIsBookingQueue == Spec => QueueSpec
<1>1. Init => QueueInit
  BY DEF Init
<1>2. [Next]_vars => [QueueNext]_queue
  <2> SUFFICES ASSUME [Next]_vars PROVE [QueueNext]_queue
    OBVIOUS
  <2>1. ASSUME NEW b \in Booking, AddItem(b) \/ RemoveUnheard(b) \/ Expired(b)
        PROVE  [QueueNext]_queue
    BY <2>1 DEF AddItem, RemoveUnheard, Expired, QueueNext
  <2>2. ASSUME NEW r \in Requests, Start(r) PROVE [QueueNext]_queue
    BY <2>2 DEF Start, RemoveItem, HandleStatusChange, QueueNext
  <2>3. ASSUME NEW op \in pending, Answer(op) PROVE UNCHANGED queue
    BY <2>3 DEF Answer, FoundFirst, Fetched, FetchFailed, Stored, LookedUp,
                Cancelled, Deleted, CancelFailed, CancelUnheard, DeleteFailed,
                Sent, SendFailed, SendUnheard, Saved, MongoFailed
  <2>4. CASE \/ \E pr \in PullRequests : GitHub(pr)
             \/ \E n \in scheduled : Delivered(n)
             \/ Restart
             \/ UNCHANGED vars
    BY <2>4 DEF GitHub, StatusSet, SuiteRequested, SuiteCompleted, Delivered,
                Restart, vars
  <2> QED BY <2>1, <2>2, <2>3, <2>4 DEF Next
<1> QED BY <1>1, <1>2, PTL DEF Spec, QueueSpec

-----------------------------------------------------------------------------
(* NoticeIsKnown.  It is not inductive: that a chain has cancelled what    *)
(* was scheduled before it sends, and that no other chain of the same      *)
(* booking runs meanwhile, has to be said too.                             *)

(* An untroubled pull request waits for one operation at most.             *)
OneAtATime ==
    \A o, p \in pending : o.pr = p.pr /\ o.pr \notin troubled => o = p

(* What an untroubled chain knows of the notifications of its booking: the *)
(* only one there can be has the id it cancels or saves, and there is none *)
(* once it was cancelled.                                                  *)
ChainKnows ==
    \A op \in pending, n \in scheduled :
      /\ op.pr \notin troubled
      /\ op.step \in {"cancel", "delete", "send", "save"}
      /\ n.booking = BookingIn(op)
      => op.step \in {"cancel", "save"} /\ n.id = op.id

NothingLost == NoticeIsKnown /\ OneAtATime /\ ChainKnows

(* Notifications that go, and pull requests in trouble, lose nothing.      *)
LEMMA NothingLostFrame ==
  ASSUME NothingLost, UNCHANGED <<record, pending>>, StaysTroubled,
         scheduled' \subseteq scheduled
  PROVE  NothingLost'
<1>1. NoticeIsKnown'
  BY DEF NothingLost, NoticeIsKnown, BookingIn, StaysTroubled
<1>2. OneAtATime' /\ ChainKnows'
  BY DEF NothingLost, OneAtATime, ChainKnows, BookingIn, StaysTroubled
<1> QED BY <1>1, <1>2 DEF NothingLost

(* A request that starts.                                                  *)
LEMMA NothingLostAfterStart ==
  ASSUME TypeOK, NothingLost, NEW r \in Requests, Start(r)
  PROVE  NothingLost'
<1>1. PICK new \in Operation :
        /\ new.step \in {"findFirst", "lookUp"}
        /\ pending' = pending \cup {new}
        /\ troubled' = Crossing(new.pr)
        /\ UNCHANGED <<scheduled, record>>
  <2>1. ASSUME NEW b \in Booking, RemoveItem(r, b)
        PROVE  /\ LookUp(r, b, "pending") \in Operation
               /\ LookUp(r, b, "pending").step = "lookUp"
               /\ LookUp(r, b, "pending").pr = b.pr
    BY FirstOperations DEF LookUp, Status
  <2>2. ASSUME NEW pr \in PullRequests, HandleStatusChange(r, pr)
        PROVE  /\ FindFirst(r, pr, status[pr]) \in Operation
               /\ FindFirst(r, pr, status[pr]).step = "findFirst"
               /\ FindFirst(r, pr, status[pr]).pr = pr
    BY FirstOperations DEF FindFirst, TypeOK
  <2> QED BY <2>1, <2>2 DEF Start, RemoveItem, HandleStatusChange, push
<1>2. troubled \subseteq troubled'
  BY <1>1 DEF Crossing
<1>3. NoticeIsKnown'
  BY <1>1, <1>2 DEF NothingLost, NoticeIsKnown, BookingIn
<1>4. OneAtATime'
  <2> SUFFICES ASSUME NEW o \in pending', NEW p \in pending',
                      o.pr = p.pr, o.pr \notin troubled'
               PROVE  o = p
    BY DEF OneAtATime
  <2>1. CASE o \in pending /\ p \in pending
    BY <1>2, <2>1 DEF NothingLost, OneAtATime
  <2>2. CASE o = new \/ p = new
    <3>1. o.pr = new.pr /\ new.pr \notin troubled'
      BY <2>2
    <3>2. \A op \in pending : op.pr # new.pr
      BY <1>1, <3>1 DEF Crossing
    <3> QED BY <1>1, <3>1, <3>2
  <2> QED BY <1>1, <2>1, <2>2
<1>5. ChainKnows'
  BY <1>1, <1>2 DEF NothingLost, ChainKnows, BookingIn
<1> QED BY <1>3, <1>4, <1>5 DEF NothingLost

(* An operation that is followed by one other at most keeps its pull       *)
(* request to itself.                                                      *)
LEMMA OneFollowsOne ==
  ASSUME OneAtATime, NEW op \in pending, NEW next, Continue(op, next),
         \A o \in next : o.pr = op.pr,
         \A o, p \in next : o = p,
         StaysTroubled
  PROVE  OneAtATime'
BY DEF OneAtATime, Continue, StaysTroubled

(* An operation that leaves its pull request in trouble, or nothing of it, *)
(* loses nothing of the others.                                            *)
LEMMA NothingLostInTrouble ==
  ASSUME NothingLost, NEW op \in pending, NEW next, Continue(op, next),
         \A o \in next : o.pr = op.pr,
         \A o, p \in next : o = p,
         \A n \in scheduled' : n \in scheduled \/ n.booking.pr = op.pr,
         UNCHANGED record, Trouble({op.pr})
  PROVE  NothingLost'
<1>1. /\ StaysTroubled
      /\ \A o \in pending' : o.pr = op.pr => o.pr \in troubled'
      /\ \A n \in scheduled' : n.booking.pr = op.pr => n.booking.pr \in troubled'
  BY TroubleStays
<1>2. OneAtATime'
  BY <1>1, OneFollowsOne DEF NothingLost
<1>3. NoticeIsKnown'
  <2> SUFFICES ASSUME NEW n \in scheduled', n.booking.pr \notin troubled'
               PROVE  \/ record[n.booking] = n.id
                      \/ \E o \in pending' : /\ o.step = "save"
                                            /\ o.id = n.id
                                            /\ BookingIn(o) = n.booking
    BY DEF NoticeIsKnown, BookingIn
  <2>1. n.booking.pr # op.pr /\ n \in scheduled /\ n.booking.pr \notin troubled
    BY <1>1 DEF StaysTroubled
  <2>2. BookingIn(op) # n.booking
    BY <2>1 DEF BookingIn
  <2> QED BY <2>1, <2>2 DEF NothingLost, NoticeIsKnown, Continue
<1>4. ChainKnows'
  <2> SUFFICES ASSUME NEW o \in pending', NEW n \in scheduled',
                      o.pr \notin troubled',
                      o.step \in {"cancel", "delete", "send", "save"},
                      n.booking = BookingIn(o)
               PROVE  o.step \in {"cancel", "save"} /\ n.id = o.id
    BY DEF ChainKnows, BookingIn
  <2>1. o.pr # op.pr /\ o \in pending /\ o.pr \notin troubled
    BY <1>1 DEF StaysTroubled, Continue
  <2>2. n.booking.pr = o.pr
    BY DEF BookingIn
  <2> QED BY <2>1, <2>2 DEF NothingLost, ChainKnows
<1> QED BY <1>2, <1>3, <1>4 DEF NothingLost

(* The operations of handleStatusChange.                                   *)
LEMMA NothingLostAfterStatus ==
  ASSUME TypeOK, NothingLost, NEW op \in pending,
         \/ FoundFirst(op) \/ Fetched(op) \/ FetchFailed(op) \/ Stored(op)
  PROVE  NothingLost'
<1>1. op.step \in {"findFirst", "fetch", "store"}
  BY DEF FoundFirst, Fetched, FetchFailed, Stored
<1>2. PICK next :
        /\ Continue(op, next)
        /\ \A o \in next : o.pr = op.pr /\ o.step \in {"fetch", "store", "lookUp"}
        /\ \A o, p \in next : o = p
        /\ UNCHANGED <<scheduled, record>>
        /\ StaysTroubled
  <2>1. CASE FoundFirst(op)
    BY <2>1, TroubleStays DEF FoundFirst, Fetch, push
  <2>2. CASE Fetched(op)
    BY <2>2, TroubleStays DEF Fetched, Store, push
  <2>3. CASE FetchFailed(op)
    <3>1. PICK answer : Continue(op, {Store(op, answer)})
      BY <2>3 DEF FetchFailed
    <3>2. \A o \in {Store(op, answer)} : o.pr = op.pr /\ o.step = "store"
      BY DEF Store
    <3> WITNESS {Store(op, answer)}
    <3> QED BY <2>3, <3>1, <3>2, TroubleStays DEF FetchFailed, push
  <2>4. CASE Stored(op)
    BY <2>4, TroubleStays DEF Stored, LookUp, BookingIn, push
  <2> QED BY <2>1, <2>2, <2>3, <2>4
<1>3. OneAtATime'
  BY <1>2, OneFollowsOne DEF NothingLost
<1>4. NoticeIsKnown'
  BY <1>1, <1>2 DEF NothingLost, NoticeIsKnown, Continue, BookingIn, StaysTroubled
<1>5. ChainKnows'
  BY <1>2 DEF NothingLost, ChainKnows, Continue, BookingIn, StaysTroubled
<1> QED BY <1>3, <1>4, <1>5 DEF NothingLost

(* What an untroubled chain that is not about to save can rely on.          *)
LEMMA RecordKnows ==
  ASSUME NothingLost, NEW op \in pending, NEW n \in scheduled,
         op.pr \notin troubled, n.booking = BookingIn(op), op.step # "save"
  PROVE  record[n.booking] = n.id
<1>1. n.booking.pr = op.pr
  BY DEF BookingIn
<1>2. ASSUME NEW p \in pending, p.step = "save", BookingIn(p) = n.booking
      PROVE  FALSE
  <2>1. p.pr = op.pr
    BY <1>1, <1>2 DEF BookingIn
  <2> QED BY <1>2, <2>1 DEF NothingLost, OneAtATime
<1> QED BY <1>1, <1>2 DEF NothingLost, NoticeIsKnown

(* The cancelling half of a chain.                                         *)
LEMMA NothingLostAfterCancel ==
  ASSUME TypeOK, NothingLost, NEW op \in pending,
         \/ LookedUp(op) \/ Cancelled(op) \/ Deleted(op)
         \/ CancelFailed(op) \/ CancelUnheard(op) \/ DeleteFailed(op)
  PROVE  NothingLost'
<1>0. /\ op \in Operation
      /\ op.step \in {"lookUp", "cancel", "delete"}
  BY DEF TypeOK, LookedUp, Cancelled, Deleted, CancelFailed, CancelUnheard,
         DeleteFailed
<1>1. BookingIn(op) \in Booking /\ BookingIn(op).pr = op.pr
  BY <1>0, BookingInType
<1>2. \A o \in AfterCancel(op) :
        o.pr = op.pr /\ o.step = "send" /\ BookingIn(o) = BookingIn(op)
  BY DEF AfterCancel, Send, BookingIn
<1>3. \A o, p \in AfterCancel(op) : o = p
  BY DEF AfterCancel
<1>4. CASE LookedUp(op)
  <2> DEFINE cancel == Cancel(op, record[BookingIn(op)])
             next == IF record[BookingIn(op)] = NoRecord THEN AfterCancel(op)
                     ELSE {cancel}
  <2>1. /\ Continue(op, next)
        /\ UNCHANGED <<scheduled, record>>
        /\ StaysTroubled
    BY <1>4, TroubleStays DEF LookedUp, push
  <2>2. /\ cancel.pr = op.pr
        /\ cancel.step = "cancel"
        /\ cancel.id = record[BookingIn(op)]
        /\ BookingIn(cancel) = BookingIn(op)
    BY DEF Cancel, BookingIn
  <2>3. OneAtATime'
    BY <1>2, <1>3, <2>1, <2>2, OneFollowsOne DEF NothingLost
  <2>4. NoticeIsKnown'
    BY <1>0, <2>1
       DEF NothingLost, NoticeIsKnown, Continue, BookingIn, StaysTroubled
  <2>5. ASSUME NEW o \in next, NEW n \in scheduled, o.pr \notin troubled,
               n.booking = BookingIn(o)
        PROVE  o.step = "cancel" /\ n.id = o.id
    <3>1. n.booking = BookingIn(op) /\ op.pr \notin troubled
      BY <1>2, <2>2, <2>5
    <3>2. record[BookingIn(op)] = n.id
      BY <1>0, <3>1, RecordKnows
    <3>3. n.id # NoRecord
      BY ChecksAssumption DEF TypeOK, Notice
    <3> QED BY <2>2, <2>5, <3>2, <3>3
  <2>6. ChainKnows'
    BY <2>1, <2>5
       DEF NothingLost, ChainKnows, Continue, BookingIn, StaysTroubled
  <2> QED BY <2>3, <2>4, <2>6 DEF NothingLost
<1>5. CASE Cancelled(op) \/ CancelUnheard(op)
  <2>1. PICK next :
          /\ Continue(op, next)
          /\ next = {Delete(op)} \/ next = AfterCancel(op)
    BY <1>5 DEF Cancelled, CancelUnheard
  <2>2. /\ Delete(op).pr = op.pr
        /\ BookingIn(Delete(op)) = BookingIn(op)
    BY DEF Delete, BookingIn
  <2>3. /\ scheduled' = {n \in scheduled : n.id # op.id}
        /\ UNCHANGED record
        /\ StaysTroubled
        /\ op.step = "cancel"
    BY <1>5, TroubleStays DEF Cancelled, CancelUnheard
  <2>4. OneAtATime'
    BY <1>2, <1>3, <2>1, <2>2, <2>3, OneFollowsOne DEF NothingLost
  <2>5. NoticeIsKnown'
    BY <2>1, <2>3
       DEF NothingLost, NoticeIsKnown, Continue, BookingIn, StaysTroubled
  <2>6. ASSUME NEW o \in next, NEW n \in scheduled', o.pr \notin troubled,
               n.booking = BookingIn(o)
        PROVE  FALSE
    <3>1. n.booking = BookingIn(op) /\ op.pr \notin troubled
      BY <1>2, <2>1, <2>2, <2>6
    <3>2. n.id = op.id
      BY <2>3, <3>1 DEF NothingLost, ChainKnows
    <3> QED BY <2>3, <3>2
  <2>7. ChainKnows'
    BY <2>1, <2>3, <2>6
       DEF NothingLost, ChainKnows, Continue, BookingIn, StaysTroubled
  <2> QED BY <2>4, <2>5, <2>7 DEF NothingLost
<1>6. CASE Deleted(op) \/ DeleteFailed(op)
  <2>1. /\ Continue(op, AfterCancel(op))
        /\ record' \in {record, [record EXCEPT ![BookingIn(op)] = NoRecord]}
        /\ UNCHANGED scheduled
        /\ StaysTroubled
        /\ op.step = "delete"
    BY <1>6, TroubleStays DEF Deleted, DeleteFailed
  <2>2. ASSUME NEW n \in scheduled, op.pr \notin troubled,
               n.booking = BookingIn(op)
        PROVE  FALSE
    BY <2>1, <2>2 DEF NothingLost, ChainKnows
  <2>3. OneAtATime'
    BY <1>2, <1>3, <2>1, OneFollowsOne DEF NothingLost
  <2>4. NoticeIsKnown'
    <3> SUFFICES ASSUME NEW n \in scheduled, n.booking.pr \notin troubled,
                        n.booking.pr \notin troubled'
                 PROVE  \/ record'[n.booking] = n.id
                        \/ \E o \in pending' : /\ o.step = "save"
                                              /\ o.id = n.id
                                              /\ BookingIn(o) = n.booking
      BY <2>1 DEF NoticeIsKnown, BookingIn, StaysTroubled
    <3>1. n.booking # BookingIn(op)
      BY <1>1, <2>2
    <3>2. record'[n.booking] = record[n.booking]
      BY <2>1, <3>1 DEF TypeOK, Notice
    <3> QED BY <2>1, <3>2 DEF NothingLost, NoticeIsKnown, Continue
  <2>5. ChainKnows'
    BY <1>2, <2>1, <2>2
       DEF NothingLost, ChainKnows, Continue, BookingIn, StaysTroubled
  <2> QED BY <2>3, <2>4, <2>5 DEF NothingLost
<1>7. CASE CancelFailed(op)
  <2>1. /\ Continue(op, AfterCancel(op))
        /\ UNCHANGED <<scheduled, record>>
    BY <1>7 DEF CancelFailed, push
  <2>2. CASE \E n \in scheduled : n.booking = BookingIn(op)
    <3>1. Trouble({op.pr})
      BY <1>7, <2>2 DEF CancelFailed
    <3> QED BY <1>2, <1>3, <2>1, <3>1, NothingLostInTrouble
  <2>3. CASE \A n \in scheduled : n.booking # BookingIn(op)
    <3>1. StaysTroubled
      BY <1>7, TroubleStays DEF CancelFailed
    <3>2. OneAtATime'
      BY <1>2, <1>3, <2>1, <3>1, OneFollowsOne DEF NothingLost
    <3>3. NoticeIsKnown'
      BY <1>0, <2>1, <3>1
         DEF NothingLost, NoticeIsKnown, Continue, BookingIn, StaysTroubled
    <3>4. ChainKnows'
      BY <1>2, <2>1, <2>3, <3>1
         DEF NothingLost, ChainKnows, Continue, BookingIn, StaysTroubled
    <3> QED BY <3>2, <3>3, <3>4 DEF NothingLost
  <2> QED BY <2>2, <2>3
<1> QED BY <1>4, <1>5, <1>6, <1>7

(* The sending half.                                                       *)
LEMMA NothingLostAfterSend ==
  ASSUME TypeOK, NothingLost, NEW op \in pending, Sent(op) \/ SendFailed(op)
  PROVE  NothingLost'
<1>1. PICK id \in Notices \cup {NoId} :
        /\ Continue(op, {Save(op, id)})
        /\ \A n \in scheduled' \ scheduled :
              n.id = id /\ n.booking = BookingIn(op)
        /\ UNCHANGED record
        /\ StaysTroubled
        /\ op.step = "send"
  <2>1. CASE Sent(op)
    <3>1. PICK id \in Notices :
            /\ scheduled' = scheduled \cup {[id |-> id, booking |-> BookingIn(op),
                                             state |-> op.send]}
            /\ Continue(op, {Save(op, id)})
      BY <2>1 DEF Sent
    <3> WITNESS id \in Notices \cup {NoId}
    <3> QED BY <2>1, <3>1, TroubleStays DEF Sent
  <2>2. CASE SendFailed(op)
    <3> WITNESS NoId \in Notices \cup {NoId}
    <3> QED BY <2>2, TroubleStays DEF SendFailed, push
  <2> QED BY <2>1, <2>2
<1>2. /\ Save(op, id).pr = op.pr
      /\ Save(op, id).step = "save"
      /\ Save(op, id).id = id
      /\ BookingIn(Save(op, id)) = BookingIn(op)
  BY DEF Save, BookingIn
<1>3. OneAtATime'
  BY <1>1, <1>2, OneFollowsOne DEF NothingLost
<1>4. NoticeIsKnown'
  <2> SUFFICES ASSUME NEW n \in scheduled', n.booking.pr \notin troubled
               PROVE  \/ record[n.booking] = n.id
                      \/ \E o \in pending' : /\ o.step = "save"
                                            /\ o.id = n.id
                                            /\ BookingIn(o) = n.booking
    BY <1>1 DEF NoticeIsKnown, BookingIn, StaysTroubled
  <2>1. CASE n \in scheduled
    BY <1>1, <2>1 DEF NothingLost, NoticeIsKnown, Continue
  <2>2. CASE n \notin scheduled
    BY <1>1, <1>2, <2>2 DEF Continue
  <2> QED BY <2>1, <2>2
<1>5. ChainKnows'
  <2> SUFFICES ASSUME NEW o \in pending', NEW n \in scheduled',
                      o.pr \notin troubled,
                      o.step \in {"cancel", "delete", "send", "save"},
                      n.booking = BookingIn(o)
               PROVE  o.step \in {"cancel", "save"} /\ n.id = o.id
    BY <1>1 DEF ChainKnows, BookingIn, StaysTroubled
  <2>1. CASE o = Save(op, id) /\ n \in scheduled
    BY <1>1, <1>2, <2>1 DEF NothingLost, ChainKnows
  <2>2. CASE o = Save(op, id) /\ n \notin scheduled
    BY <1>1, <1>2, <2>2
  <2>3. CASE o \in pending /\ o # op /\ n \in scheduled
    BY <2>3 DEF NothingLost, ChainKnows
  <2>4. CASE o \in pending /\ o # op /\ n \notin scheduled
    <3>1. BookingIn(o) = BookingIn(op)
      BY <1>1, <2>4
    <3>2. o.pr = op.pr
      BY <3>1 DEF BookingIn
    <3> QED BY <2>4, <3>2 DEF NothingLost, OneAtATime
  <2> QED BY <1>1, <2>1, <2>2, <2>3, <2>4 DEF Continue
<1> QED BY <1>3, <1>4, <1>5 DEF NothingLost

LEMMA NothingLostAfterSave ==
  ASSUME TypeOK, NothingLost, NEW op \in pending, Saved(op)
  PROVE  NothingLost'
<1>1. /\ Continue(op, {})
      /\ UNCHANGED scheduled
      /\ StaysTroubled
      /\ op \in Operation
      /\ op.step = "save"
  BY TroubleStays DEF Saved, TypeOK
<1>2. BookingIn(op) \in Booking /\ BookingIn(op).pr = op.pr
  BY <1>1, BookingInType
<1>3. /\ op.id # NoId => record'[BookingIn(op)] = op.id
      /\ \A b \in Booking : b # BookingIn(op) => record'[b] = record[b]
  BY <1>2 DEF Saved, TypeOK
<1>4. NoticeIsKnown'
  <2> SUFFICES ASSUME NEW n \in scheduled, n.booking.pr \notin troubled
               PROVE  \/ record'[n.booking] = n.id
                      \/ \E o \in pending' : /\ o.step = "save"
                                            /\ o.id = n.id
                                            /\ BookingIn(o) = n.booking
    BY <1>1 DEF NoticeIsKnown, BookingIn, StaysTroubled
  <2>1. n.booking \in Booking /\ n.id # NoId
    BY ChecksAssumption DEF TypeOK, Notice
  <2>2. CASE n.booking = BookingIn(op)
    <3>1. n.id = op.id
      BY <1>1, <1>2, <2>2 DEF NothingLost, ChainKnows
    <3> QED BY <1>3, <2>1, <2>2, <3>1
  <2>3. CASE n.booking # BookingIn(op)
    BY <1>1, <1>3, <2>1, <2>3 DEF NothingLost, NoticeIsKnown, Continue
  <2> QED BY <2>2, <2>3
<1>5. OneAtATime' /\ ChainKnows'
  BY <1>1 DEF NothingLost, OneAtATime, ChainKnows, Continue, BookingIn,
              StaysTroubled
<1> QED BY <1>4, <1>5 DEF NothingLost

(* An operation that fails and leaves what it had scheduled.               *)
LEMMA NothingLostAfterFailure ==
  ASSUME TypeOK, NothingLost, NEW op \in pending,
         SendUnheard(op) \/ MongoFailed(op)
  PROVE  NothingLost'
<1>1. PICK next :
        /\ Continue(op, next)
        /\ \A o \in next : o.pr = op.pr
        /\ \A o, p \in next : o = p
        /\ \A n \in scheduled' : n \in scheduled \/ n.booking.pr = op.pr
        /\ UNCHANGED record
        /\ Trouble({op.pr})
  <2>1. CASE SendUnheard(op)
    <3>1. PICK id \in Notices :
            scheduled' = scheduled \cup {[id |-> id, booking |-> BookingIn(op),
                                          state |-> op.send]}
      BY <2>1 DEF SendUnheard
    <3>2. \A n \in scheduled' : n \in scheduled \/ n.booking.pr = op.pr
      BY <3>1 DEF BookingIn
    <3>3. \A o \in {Save(op, NoId)} : o.pr = op.pr
      BY DEF Save
    <3> WITNESS {Save(op, NoId)}
    <3> QED BY <2>1, <3>2, <3>3 DEF SendUnheard
  <2>2. CASE MongoFailed(op)
    <3> WITNESS {}
    <3> QED BY <2>2 DEF MongoFailed, push
  <2> QED BY <2>1, <2>2
<1> QED BY <1>1, NothingLostInTrouble

(* What a restart leaves is what a pull request had that waited for        *)
(* nothing.                                                                *)
LEMMA NothingLostAfterRestart ==
  ASSUME TypeOK, NothingLost, Restart
  PROVE  NothingLost'
<1>1. /\ pending' = {}
      /\ UNCHANGED <<scheduled, record>>
      /\ StaysTroubled
      /\ \A n \in scheduled' : n.booking.pr \in {op.pr : op \in pending} =>
           n.booking.pr \in troubled'
  BY TroubleStays DEF Restart, push
<1>2. NoticeIsKnown'
  <2> SUFFICES ASSUME NEW n \in scheduled, n.booking.pr \notin troubled'
               PROVE  record[n.booking] = n.id
    BY <1>1 DEF NoticeIsKnown, BookingIn
  <2>1. \A op \in pending : op.pr # n.booking.pr
    BY <1>1
  <2>2. n.booking.pr \notin troubled
    BY <1>1 DEF StaysTroubled
  <2>3. \A op \in pending : BookingIn(op) # n.booking
    BY <2>1 DEF BookingIn
  <2> QED BY <2>2, <2>3 DEF NothingLost, NoticeIsKnown
<1>3. pending' = {}
  BY <1>1
<1>4. OneAtATime' /\ ChainKnows'
  BY <1>3 DEF OneAtATime, ChainKnows
<1> QED BY <1>2, <1>4 DEF NothingLost

LEMMA NextNothingLost == TypeOK /\ NothingLost /\ [Next]_vars => NothingLost'
<1> SUFFICES ASSUME TypeOK, NothingLost, [Next]_vars PROVE NothingLost'
  OBVIOUS
<1>1. ASSUME NEW pr \in PullRequests, GitHub(pr) PROVE NothingLost'
  <2>1. UNCHANGED <<record, scheduled, pending, troubled>>
    BY <1>1 DEF GitHub, StatusSet, SuiteRequested, SuiteCompleted, push
  <2> QED BY <2>1, NothingLostFrame, GrowingTroubleStays
<1>2. ASSUME NEW b \in Booking, AddItem(b) PROVE NothingLost'
  BY <1>2, NothingLostFrame, GrowingTroubleStays DEF AddItem, push
<1>3. ASSUME NEW b \in Booking, Expired(b) PROVE NothingLost'
  <2>1. NoticeIsKnown'
    BY <1>3 DEF Expired, NothingLost, NoticeIsKnown, BookingIn, TypeOK, Notice
  <2>2. OneAtATime' /\ ChainKnows'
    BY <1>3 DEF Expired, NothingLost, OneAtATime, ChainKnows, BookingIn
  <2> QED BY <2>1, <2>2 DEF NothingLost
<1>4. ASSUME NEW r \in Requests, Start(r) PROVE NothingLost'
  BY <1>4, NothingLostAfterStart
<1>5. ASSUME NEW op \in pending, Answer(op) PROVE NothingLost'
  BY <1>5, NothingLostAfterStatus, NothingLostAfterCancel,
     NothingLostAfterSend, NothingLostAfterSave, NothingLostAfterFailure
     DEF Answer
<1>6. ASSUME NEW n \in scheduled, Delivered(n) PROVE NothingLost'
  BY <1>6, NothingLostFrame, TroubleStays DEF Delivered
<1>7. CASE UNCHANGED vars
  BY <1>7, NothingLostFrame, GrowingTroubleStays DEF vars, push
<1>8. ASSUME NEW b \in Booking, RemoveUnheard(b) PROVE NothingLost'
  BY <1>8, NothingLostFrame, TroubleStays DEF RemoveUnheard, push
<1>9. CASE Restart
  BY <1>9, NothingLostAfterRestart
<1> QED
  BY <1>1, <1>2, <1>3, <1>4, <1>5, <1>6, <1>7, <1>8, <1>9 DEF Next

(* Whatever sends, deletes and calls to GitHub fail, a notification is     *)
(* always the one the collection remembers, or is being saved, so that the *)
(* next status change or removal will find and cancel it.  This may not be *)
(* so while its pull request is troubled: two requests crossed, a          *)
(* cancelling failed, an answer or an id was lost or the process stopped,  *)
(* and what was scheduled by then is not delivered yet.                    *)
THEOREM NoticeAlwaysKnown == Spec => []NoticeIsKnown
<1>1. Init => NothingLost
  BY DEF Init, NothingLost, NoticeIsKnown, OneAtATime, ChainKnows
<1>2. TypeOK /\ NothingLost /\ [Next]_vars => NothingLost'
  BY NextNothingLost
<1>3. NothingLost => NoticeIsKnown
  BY DEF NothingLost
<1> QED BY <1>1, <1>2, <1>3, TypeCorrect, PTL DEF Spec

-----------------------------------------------------------------------------
(* NoSecondNotice, from NothingLost: two notifications of one booking      *)
(* would have one id.                                                      *)

UniqueIds == \A m, n \in scheduled : m.id = n.id => m = n

LEMMA IdsUnique == Spec => []UniqueIds
<1>1. Init => UniqueIds
  BY DEF Init, UniqueIds
<1>2. UniqueIds /\ [Next]_vars => UniqueIds'
  <2> SUFFICES ASSUME UniqueIds, [Next]_vars PROVE UniqueIds'
    OBVIOUS
  <2>1. CASE scheduled' \subseteq scheduled
    BY <2>1 DEF UniqueIds
  <2>2. ASSUME NEW op \in pending, Sent(op) \/ SendUnheard(op)
        PROVE  UniqueIds'
    <3>1. PICK id \in Notices :
            /\ \A n \in scheduled : n.id # id
            /\ scheduled' = scheduled \cup {[id |-> id,
                                             booking |-> BookingIn(op),
                                             state |-> op.send]}
      BY <2>2 DEF Sent, SendUnheard, Fresh
    <3> QED BY <3>1 DEF UniqueIds
  <2>3. ASSUME NEW op \in pending, Answer(op), ~Sent(op), ~SendUnheard(op)
        PROVE  scheduled' \subseteq scheduled
    BY <2>3 DEF Answer, FoundFirst, Fetched, FetchFailed, Stored, LookedUp,
                Cancelled, Deleted, CancelFailed, CancelUnheard, DeleteFailed,
                SendFailed, Saved, MongoFailed, push
  <2>4. CASE \/ \E pr \in PullRequests : GitHub(pr)
             \/ \E b \in Booking : AddItem(b) \/ RemoveUnheard(b) \/ Expired(b)
             \/ \E r \in Requests : Start(r)
             \/ \E n \in scheduled : Delivered(n)
             \/ Restart
             \/ UNCHANGED vars
    BY <2>1, <2>4 DEF GitHub, StatusSet, SuiteRequested, SuiteCompleted,
                      AddItem, RemoveUnheard, Expired, Start, RemoveItem,
                      HandleStatusChange, Delivered, Restart, vars, push
  <2> QED BY <2>1, <2>2, <2>3, <2>4 DEF Next
<1> QED BY <1>1, <1>2, PTL DEF Spec

(* A booking has one notification at most, whatever sends, deletes and     *)
(* calls to GitHub fail and whenever notifications are delivered and       *)
(* records expire, unless its pull request is troubled.                    *)
THEOREM NeverASecondNotice == Spec => []NoSecondNotice
<1>1. Init => NothingLost
  BY DEF Init, NothingLost, NoticeIsKnown, OneAtATime, ChainKnows
<1>2. TypeOK /\ NothingLost /\ [Next]_vars => NothingLost'
  BY NextNothingLost
<1>3. NothingLost /\ UniqueIds => NoSecondNotice
  <2> SUFFICES ASSUME NothingLost, UniqueIds,
                      NEW m \in scheduled, NEW n \in scheduled,
                      m.booking = n.booking, m.booking.pr \notin troubled
               PROVE  m.id = n.id
    BY DEF UniqueIds, NoSecondNotice
  <2>1. CASE record[m.booking] = m.id /\ record[n.booking] = n.id
    BY <2>1
  <2>2. ASSUME NEW op \in pending, op.step = "save",
               BookingIn(op) = m.booking
        PROVE  m.id = op.id /\ n.id = op.id
    <3>1. op.pr \notin troubled
      BY <2>2 DEF BookingIn
    <3> QED BY <2>2, <3>1 DEF NothingLost, ChainKnows
  <2> QED BY <2>1, <2>2 DEF NothingLost, NoticeIsKnown
<1> QED BY <1>1, <1>2, <1>3, IdsUnique, TypeCorrect, PTL DEF Spec

NoTrouble == troubled = {}

(* The intent of the code, "First send cancels any previous notification", *)
(* holds without exception when requests come one at a time and nothing    *)
(* fails but the scheduling of a notification and GitHub's answers.  Take  *)
(* away either assumption and it does not: duplicate_notice crosses two    *)
(* requests, and a cancelling that fails is swallowed.                     *)
THEOREM LoneRequestsNotifyOnce ==
  ASSUME \A r, s \in Requests : r = s,
         Workload \subseteq {"rerun", "githubFails", "sendFails"}
  PROVE  Spec => []OneNoticePerBooking
<1>1. Init => NoTrouble
  BY DEF Init, NoTrouble
<1>2. TypeOK /\ NoTrouble /\ [Next]_vars => NoTrouble'
  <2> SUFFICES ASSUME TypeOK, NoTrouble, [Next]_vars PROVE NoTrouble'
    OBVIOUS
  <2>1. ASSUME NEW r \in Requests, Start(r) PROVE NoTrouble'
    <3>1. \A op \in pending : op.req = r
      BY OperationFields DEF TypeOK
    <3>2. pending = {}
      BY <2>1, <3>1 DEF Start, RemoveItem, HandleStatusChange, Idle
    <3> QED BY <2>1, <3>2
            DEF Start, RemoveItem, HandleStatusChange, Crossing, NoTrouble
  <2>2. CASE UNCHANGED troubled
    BY <2>2 DEF NoTrouble
  <2>3. CASE Trouble({})
    BY <2>3, TroubleStays DEF NoTrouble
  <2>4. ASSUME NEW op \in pending, Answer(op) PROVE Trouble({})
    BY <2>4 DEF Answer, FoundFirst, Fetched, FetchFailed, Stored, LookedUp,
                Cancelled, Deleted, CancelFailed, CancelUnheard, DeleteFailed,
                Sent, SendFailed, SendUnheard, Saved, MongoFailed
  <2>5. ASSUME NEW n \in scheduled, Delivered(n) PROVE Trouble({})
    BY <2>5 DEF Delivered
  <2>6. ~Restart /\ \A b \in Booking : ~RemoveUnheard(b)
    BY DEF Restart, RemoveUnheard
  <2> QED BY <2>1, <2>2, <2>3, <2>4, <2>5, <2>6
          DEF Next, GitHub, StatusSet, SuiteRequested, SuiteCompleted,
              AddItem, Expired, vars
<1>3. NoTrouble /\ NoSecondNotice => OneNoticePerBooking
  BY DEF NoTrouble, NoSecondNotice, OneNoticePerBooking
<1> QED
  BY <1>1, <1>2, <1>3, NeverASecondNotice, TypeCorrect, PTL DEF Spec

-----------------------------------------------------------------------------
(* NoticeIsCurrent.                                                        *)

IsHead(b) == queue # <<>> /\ Head(queue) = b

LEMMA PullKeepsHead ==
  ASSUME QueueTypeOK, NEW b, NEW c, IsHead(c), c # b
  PROVE  Pull(queue, b) # <<>> /\ Head(Pull(queue, b)) = c
<1>1. queue \in Seq(Booking) /\ Pull(queue, b) \in Seq(Booking)
  BY PullProperties DEF QueueTypeOK
<1>2. Len(queue) \in Nat /\ Len(queue) # 0 /\ queue[1] = c
  BY <1>1, HeadTailProperties, EmptySeq, LenProperties DEF IsHead
<1>3. CASE Pull(queue, b) = queue
  BY <1>3 DEF IsHead
<1>4. CASE Pull(queue, b) # queue
  <2>1. PICK k \in 1..Len(queue) :
          /\ queue[k] = b
          /\ Len(Pull(queue, b)) = Len(queue) - 1
          /\ \A j \in 1..(Len(queue) - 1) :
               Pull(queue, b)[j] = IF j < k THEN queue[j] ELSE queue[j + 1]
    BY <1>1, <1>4, PullProperties
  <2>2. k > 1
    BY <1>2, <2>1
  <2>3. Len(Pull(queue, b)) # 0 /\ Pull(queue, b)[1] = c
    BY <1>2, <2>1, <2>2
  <2> QED BY <1>1, <2>3, HeadTailProperties, EmptySeq
<1> QED BY <1>3, <1>4

(* st is the status GitHub has now, or no one can know yet that it is not. *)
Agrees(pr, st) == \/ pr \in owed
                  \/ "none" \in ConclusionsOf(pr)
                  \/ st = GitHubStatus(pr)

StatusSteps == {"findFirst", "fetch", "store"}
ChainSteps == {"lookUp", "cancel", "delete", "send", "save"}

(* A chain is about to cancel it.                                          *)
Doomed(n) == \E op \in pending : /\ op.step \in {"lookUp", "cancel"}
                                 /\ BookingIn(op) = n.booking

(* A notification that is not to be cancelled concerns the head of the     *)
(* queue and announces the stored status, which is right, or about to be   *)
(* compared with a newer one.                                              *)
NoticeHolds(n) ==
  \/ Doomed(n)
  \/ /\ IsHead(n.booking)
     /\ n.state = status[n.booking.pr]
     /\ \/ \E op \in pending : op.step \in StatusSteps
                               /\ op.pr = n.booking.pr
        \/ Agrees(n.booking.pr, n.state)

(* What an operation carries is still so.                                  *)
StepHolds(op) ==
  /\ op.step \in StatusSteps => op.old = status[op.pr]
  /\ op.step \in {"fetch", "store"} => IsHead(BookingIn(op))
  /\ op.step = "store" => Agrees(op.pr, op.new)
  /\ op.step \in ChainSteps /\ op.send # "pending" =>
       /\ IsHead(BookingIn(op))
       /\ op.send = status[op.pr]
       /\ Agrees(op.pr, op.send)

NoticeInv ==
  /\ \A n \in scheduled : n.booking.pr \notin troubled => NoticeHolds(n)
  /\ \A op \in pending : op.pr \notin troubled => StepHolds(op)

LEMMA NoticeInvShows == NoticeInv => NoticeIsCurrent
BY DEF NoticeInv, NoticeHolds, Doomed, IsHead, Agrees, NoticeIsCurrent

(* What users, GitHub and time do.                                         *)
LEMMA NoticeInvFrame ==
  ASSUME TypeOK, NoticeInv, UNCHANGED <<status, pending>>, StaysTroubled,
         scheduled' \subseteq scheduled,
         \A b : IsHead(b) => IsHead(b)',
         \A pr \in PullRequests : \A st : Agrees(pr, st) => Agrees(pr, st)'
  PROVE  NoticeInv'
<1>1. ASSUME NEW n \in scheduled, NoticeHolds(n)
      PROVE  NoticeHolds(n)'
  <2>1. n.booking.pr \in PullRequests
    BY DEF TypeOK, Notice, Booking
  <2> QED BY <1>1, <2>1 DEF NoticeHolds, Doomed, BookingIn
<1>2. ASSUME NEW op \in pending, StepHolds(op)
      PROVE  StepHolds(op)'
  <2>1. op.pr \in PullRequests
    BY OperationFields DEF TypeOK
  <2> QED BY <1>2, <2>1 DEF StepHolds, BookingIn
<1> QED BY <1>1, <1>2 DEF NoticeInv, StaysTroubled

LEMMA NoticeInvAfterGitHub ==
  ASSUME TypeOK, NoticeInv, NEW pr \in PullRequests, GitHub(pr)
  PROVE  NoticeInv'
<1>1. UNCHANGED <<queue, status, scheduled, pending, troubled>>
  BY DEF GitHub, StatusSet, SuiteRequested, SuiteCompleted, push
<1>2. ASSUME NEW x \in PullRequests, x # pr
      PROVE  \A st : Agrees(x, st) => Agrees(x, st)'
  <2>1. /\ suites'[x] = suites[x]
        /\ state'[x] = state[x]
        /\ x \in owed => x \in owed'
    BY <1>2 DEF GitHub, StatusSet, SuiteRequested, SuiteCompleted, TypeOK
  <2> QED BY <2>1 DEF Agrees, ConclusionsOf, GitHubStatus
<1>3. \A st : Agrees(pr, st)'
  <2>1. CASE \E st \in Status : StatusSet(pr, st)
    BY <2>1 DEF StatusSet, Agrees
  <2>2. ASSUME NEW a \in Apps, SuiteRequested(pr, a)
        PROVE  "none" \in ConclusionsOf(pr)'
    BY <2>2 DEF SuiteRequested, ConclusionsOf, TypeOK
  <2>3. CASE \E a \in Apps, c \in Conclusions : SuiteCompleted(pr, a, c)
    BY <2>3 DEF SuiteCompleted, Agrees
  <2> QED BY <2>1, <2>2, <2>3 DEF GitHub, Agrees
<1> QED BY <1>1, <1>2, <1>3, NoticeInvFrame, GrowingTroubleStays DEF IsHead

(* A request that starts.                                                  *)
LEMMA NoticeInvAfterStart ==
  ASSUME TypeOK, NoticeInv, NEW r \in Requests, Start(r)
  PROVE  NoticeInv'
<1>0. \A op \in pending : op \in Operation /\ op.pr \in PullRequests
  BY OperationFields DEF TypeOK
<1>1. ASSUME NEW b \in Booking, RemoveItem(r, b)
      PROVE  NoticeInv'
  <2> DEFINE new == LookUp(r, b, "pending")
  <2>1. /\ queue' = Pull(queue, b)
        /\ pending' = pending \cup {new}
        /\ troubled' = Crossing(b.pr)
        /\ UNCHANGED <<suites, state, owed, status, scheduled>>
    BY <1>1 DEF RemoveItem, Leave, github, push
  <2>2. /\ new.step = "lookUp" /\ new.send = "pending"
        /\ BookingIn(new) = b
    BY DEF LookUp, BookingIn, Booking
  <2> HIDE DEF new
  <2>3. troubled \subseteq troubled'
        /\ \A op \in pending : op.pr = b.pr => op.pr \in troubled'
    BY <2>1 DEF Crossing
  <2>4. \A c : IsHead(c) /\ c # b => IsHead(c)'
    BY <2>1, PullKeepsHead DEF IsHead, TypeOK
  <2>5. \A pr, st : Agrees(pr, st)' <=> Agrees(pr, st)
    BY <2>1 DEF Agrees, ConclusionsOf, GitHubStatus
  <2>6. ASSUME NEW op \in pending, op.pr \notin troubled', StepHolds(op)
        PROVE  StepHolds(op)'
    <3>1. BookingIn(op) # b
      BY <2>3, <2>6 DEF BookingIn
    <3> QED BY <2>1, <2>4, <2>5, <2>6, <3>1 DEF StepHolds, BookingIn
  <2>7. StepHolds(new)'
    BY <2>2 DEF StepHolds, StatusSteps
  <2>8. ASSUME NEW n \in scheduled, NoticeHolds(n)
        PROVE  NoticeHolds(n)'
    <3>1. CASE n.booking = b
      BY <2>1, <2>2, <3>1 DEF NoticeHolds, Doomed, BookingIn
    <3>2. CASE n.booking # b
      BY <2>1, <2>4, <2>5, <2>8, <3>2 DEF NoticeHolds, Doomed, BookingIn
    <3> QED BY <3>1, <3>2
  <2> QED BY <2>1, <2>3, <2>6, <2>7, <2>8 DEF NoticeInv
<1>2. ASSUME NEW pr \in PullRequests, HandleStatusChange(r, pr)
      PROVE  NoticeInv'
  <2>0. PICK old : old = status[pr]
    OBVIOUS
  <2> DEFINE new == FindFirst(r, pr, old)
  <2>1. /\ owed' = owed \ {pr}
        /\ pending' = pending \cup {new}
        /\ troubled' = Crossing(pr)
        /\ UNCHANGED <<queue, suites, state, status, scheduled>>
    BY <1>2, <2>0 DEF HandleStatusChange, push
  <2>2. new.step = "findFirst" /\ new.pr = pr /\ new.old = old
    BY DEF FindFirst
  <2> HIDE DEF new
  <2>3. troubled \subseteq troubled'
        /\ \A op \in pending : op.pr = pr => op.pr \in troubled'
    BY <2>1 DEF Crossing
  <2>4. \A b : IsHead(b)' <=> IsHead(b)
    BY <2>1 DEF IsHead
  <2>5. \A x, st : x # pr /\ Agrees(x, st) => Agrees(x, st)'
    BY <2>1 DEF Agrees, ConclusionsOf, GitHubStatus
  <2>6. ASSUME NEW op \in pending, op.pr \notin troubled', StepHolds(op)
        PROVE  StepHolds(op)'
    BY <2>1, <2>3, <2>4, <2>5, <2>6 DEF StepHolds, BookingIn
  <2>7. StepHolds(new)'
    BY <2>0, <2>1, <2>2 DEF StepHolds, StatusSteps, ChainSteps
  <2>8. ASSUME NEW n \in scheduled, NoticeHolds(n)
        PROVE  NoticeHolds(n)'
    <3>1. Doomed(n) => Doomed(n)'
      BY <2>1 DEF Doomed, BookingIn
    <3>2. CASE n.booking.pr = pr
      <4>1. new \in pending' /\ new.step \in StatusSteps
        BY <2>1, <2>2 DEF StatusSteps
      <4> QED BY <2>1, <2>2, <2>4, <2>8, <3>1, <3>2, <4>1 DEF NoticeHolds
    <3>3. CASE n.booking.pr # pr
      BY <2>1, <2>4, <2>5, <2>8, <3>1, <3>3 DEF NoticeHolds
    <3> QED BY <3>2, <3>3
  <2> QED BY <2>1, <2>3, <2>6, <2>7, <2>8 DEF NoticeInv
<1> QED BY <1>1, <1>2 DEF Start

(* An operation disturbs what is known of its own pull request only.       *)
LEMMA NoticeInvElsewhere ==
  ASSUME TypeOK, NothingLost, NoticeInv, NEW op \in pending, NEW next,
         Continue(op, next), \A o \in next : o.pr = op.pr,
         UNCHANGED <<queue, suites, state>>, StaysTroubled,
         owed \subseteq owed',
         \A pr \in PullRequests : pr # op.pr => status'[pr] = status[pr],
         \A n \in scheduled' : n \in scheduled \/ n.booking.pr = op.pr,
         op.pr \notin troubled /\ op.pr \notin troubled' =>
           /\ \A o \in next : StepHolds(o)'
           /\ \A n \in scheduled' : n.booking.pr = op.pr => NoticeHolds(n)'
  PROVE  NoticeInv'
<1>1. \A b : IsHead(b)' <=> IsHead(b)
  BY DEF IsHead
<1>2. \A pr, st : Agrees(pr, st) => Agrees(pr, st)'
  BY DEF Agrees, ConclusionsOf, GitHubStatus
<1>3. ASSUME NEW o \in pending, o # op, o.pr \notin troubled
      PROVE  StepHolds(o)'
  <2>1. o.pr # op.pr
    BY <1>3 DEF NothingLost, OneAtATime
  <2>2. o.pr \in PullRequests
    BY OperationFields DEF TypeOK
  <2>3. StepHolds(o) /\ status'[o.pr] = status[o.pr]
    BY <1>3, <2>1, <2>2 DEF NoticeInv
  <2> QED BY <1>1, <1>2, <2>3 DEF StepHolds, BookingIn
<1>4. ASSUME NEW n \in scheduled', n.booking.pr # op.pr,
             n.booking.pr \notin troubled
      PROVE  NoticeHolds(n)'
  <2>1. n \in scheduled /\ n.booking.pr \in PullRequests
    BY <1>4 DEF TypeOK, Notice, Booking
  <2>2. NoticeHolds(n) /\ status'[n.booking.pr] = status[n.booking.pr]
    BY <1>4, <2>1 DEF NoticeInv
  <2>3. \A o : BookingIn(o) = n.booking => o.pr # op.pr
    BY <1>4 DEF BookingIn
  <2>4. Doomed(n) => Doomed(n)'
    BY <2>3 DEF Doomed, Continue, BookingIn
  <2>5. (\E o \in pending : o.step \in StatusSteps /\ o.pr = n.booking.pr) =>
          \E o \in pending' : o.step \in StatusSteps /\ o.pr = n.booking.pr
    BY <1>4 DEF Continue
  <2> QED BY <1>1, <1>2, <2>2, <2>4, <2>5 DEF NoticeHolds
<1>5. ASSUME NEW n \in scheduled', n.booking.pr \notin troubled'
      PROVE  NoticeHolds(n)'
  <2>1. n.booking.pr \notin troubled
    BY <1>5 DEF StaysTroubled
  <2> QED BY <1>4, <1>5, <2>1
<1>6. ASSUME NEW o \in pending', o.pr \notin troubled'
      PROVE  StepHolds(o)'
  <2>1. o.pr \notin troubled
    BY <1>6 DEF StaysTroubled
  <2> QED BY <1>3, <1>6, <2>1 DEF Continue
<1> QED BY <1>5, <1>6 DEF NoticeInv

(* Nothing has to be known of a pull request in trouble.                   *)
LEMMA NoticeInvInTrouble ==
  ASSUME TypeOK, NothingLost, NoticeInv, NEW op \in pending, NEW next,
         Continue(op, next), \A o \in next : o.pr = op.pr,
         UNCHANGED <<queue, suites, state>>, Trouble({op.pr}),
         owed \subseteq owed',
         \A pr \in PullRequests : pr # op.pr => status'[pr] = status[pr],
         \A n \in scheduled' : n \in scheduled \/ n.booking.pr = op.pr
  PROVE  NoticeInv'
<1>1. /\ StaysTroubled
      /\ \A o \in pending' : o.pr = op.pr => o.pr \in troubled'
      /\ \A n \in scheduled' : n.booking.pr = op.pr => n.booking.pr \in troubled'
  BY TroubleStays
<1>2. \A o \in next : o \in pending'
  BY DEF Continue
<1>3. op.pr \notin troubled' =>
        /\ \A o \in next : FALSE
        /\ \A n \in scheduled' : n.booking.pr # op.pr
  BY <1>1, <1>2
<1> QED BY <1>1, <1>3, NoticeInvElsewhere

(* The notifications of a pull request that is waiting for op.             *)
LEMMA NoticeWhileBusy ==
  ASSUME TypeOK, NothingLost, NoticeInv, NEW op \in pending,
         op.pr \notin troubled, NEW n \in scheduled, n.booking.pr = op.pr
  PROVE  /\ op.step \in StatusSteps =>
              IsHead(n.booking) /\ n.state = status[op.pr]
         /\ op.step \in ChainSteps =>
              \/ op.step \in {"lookUp", "cancel"} /\ BookingIn(op) = n.booking
              \/ /\ IsHead(n.booking)
                 /\ n.state = status[op.pr]
                 /\ Agrees(op.pr, n.state)
<1>1. \A o \in pending : o.pr = op.pr => o = op
  BY DEF NothingLost, OneAtATime
<1>2. \A o : BookingIn(o) = n.booking => o.pr = op.pr
  BY DEF BookingIn
<1>3. NoticeHolds(n)
  BY DEF NoticeInv
<1> QED BY <1>1, <1>2, <1>3 DEF NoticeHolds, Doomed, StatusSteps, ChainSteps

LEMMA NoticeInvAfterStatus ==
  ASSUME TypeOK, NothingLost, NoticeInv, NEW op \in pending,
         \/ FoundFirst(op) \/ Fetched(op) \/ FetchFailed(op) \/ Stored(op)
  PROVE  NoticeInv'
<1>0. op \in Operation /\ op.pr \in PullRequests
  BY OperationFields DEF TypeOK
<1>1. op.step \in StatusSteps
  BY DEF FoundFirst, Fetched, FetchFailed, Stored, StatusSteps
<1>2. op.pr \notin troubled =>
        /\ StepHolds(op)
        /\ \A n \in scheduled : n.booking.pr = op.pr =>
             IsHead(n.booking) /\ n.state = status[op.pr]
  BY <1>1, NoticeWhileBusy DEF NoticeInv
<1>3. /\ UNCHANGED <<queue, suites, state, scheduled>>
      /\ StaysTroubled
      /\ owed \subseteq owed'
  BY TroubleStays DEF FoundFirst, Fetched, FetchFailed, Stored, github, push
<1>4. /\ \A b : IsHead(b)' <=> IsHead(b)
      /\ \A pr, st : Agrees(pr, st) => Agrees(pr, st)'
  BY <1>3 DEF IsHead, Agrees, ConclusionsOf, GitHubStatus
(* As long as the request goes on with a status.                           *)
<1>5. ASSUME NEW next, Continue(op, {next}), next.pr = op.pr,
             next.step \in StatusSteps, status' = status,
             op.pr \notin troubled => StepHolds(next)'
      PROVE  NoticeInv'
  <2>1. next \in pending'
    BY <1>5 DEF Continue
  <2>2. ASSUME NEW n \in scheduled, n.booking.pr = op.pr, op.pr \notin troubled
        PROVE  NoticeHolds(n)'
    BY <1>2, <1>4, <1>5, <2>1, <2>2 DEF NoticeHolds
  <2> QED BY <1>3, <1>5, <2>2, NoticeInvElsewhere
<1>6. CASE FoundFirst(op)
  <2>1. status' = status /\ op.step = "findFirst"
    BY <1>6 DEF FoundFirst, github
  <2>2. CASE queue # <<>> /\ Head(queue).pr = op.pr
    <3>1. PICK b : b = Head(queue)
      OBVIOUS
    <3>2. b \in Booking /\ IsHead(b) /\ b.pr = op.pr
      BY <2>2, <3>1, HeadTailProperties DEF TypeOK, QueueTypeOK, IsHead
    <3> DEFINE next == Fetch(op.req, b, op.old)
    <3>3. /\ next.pr = op.pr
          /\ next.step = "fetch"
          /\ next.old = op.old
          /\ BookingIn(next) = b
      BY <3>2 DEF Fetch, BookingIn, Booking
    <3>4. Continue(op, {next})
      BY <1>6, <2>2, <3>1 DEF FoundFirst
    <3> HIDE DEF next
    <3>5. op.pr \notin troubled => StepHolds(next)'
      BY <1>2, <1>4, <2>1, <3>2, <3>3
      DEF StepHolds, StatusSteps, ChainSteps, BookingIn
    <3> QED BY <1>5, <2>1, <3>3, <3>4, <3>5 DEF StatusSteps
  <2>3. CASE ~(queue # <<>> /\ Head(queue).pr = op.pr)
    <3>1. Continue(op, {})
      BY <1>6, <2>3 DEF FoundFirst
    <3>2. op.pr \notin troubled => \A n \in scheduled : n.booking.pr # op.pr
      BY <1>2, <2>3 DEF IsHead
    <3> QED BY <1>3, <2>1, <3>1, <3>2, NoticeInvElsewhere
  <2> QED BY <2>2, <2>3
<1>7. ASSUME NEW new, Continue(op, {Store(op, new)}), Agrees(op.pr, new)',
             status' = status, op.step = "fetch"
      PROVE  NoticeInv'
  <2> DEFINE next == Store(op, new)
  <2>1. /\ next.pr = op.pr
        /\ next.step = "store"
        /\ next.old = op.old
        /\ next.new = new
        /\ BookingIn(next) = BookingIn(op)
    BY DEF Store, BookingIn
  <2>2. Continue(op, {next})
    BY <1>7
  <2> HIDE DEF next
  <2>3. op.pr \notin troubled => StepHolds(next)'
    BY <1>2, <1>4, <1>7, <2>1 DEF StepHolds, StatusSteps, ChainSteps, BookingIn
  <2> QED BY <1>5, <1>7, <2>1, <2>2, <2>3 DEF StatusSteps
<1>8. CASE Fetched(op)
  <2>1. PICK new : new = GitHubStatus(op.pr)
    OBVIOUS
  <2>2. Continue(op, {Store(op, new)}) /\ status' = status /\ op.step = "fetch"
    BY <1>8, <2>1 DEF Fetched
  <2>3. Agrees(op.pr, new)'
    BY <1>4, <2>1 DEF Agrees
  <2> QED BY <1>7, <2>2, <2>3
<1>9. CASE FetchFailed(op)
  <2>1. PICK new : Continue(op, {Store(op, new)})
    BY <1>9 DEF FetchFailed
  <2>2. Agrees(op.pr, new)' /\ status' = status /\ op.step = "fetch"
    BY <1>9 DEF FetchFailed, Agrees
  <2> QED BY <1>7, <2>1, <2>2
<1>10. CASE Stored(op)
  <2>1. /\ status'[op.pr] = op.new
        /\ \A pr \in PullRequests : pr # op.pr => status'[pr] = status[pr]
        /\ op.step = "store"
    BY <1>0, <1>10 DEF Stored, TypeOK
  <2>2. CASE op.new = op.old
    <3>1. Continue(op, {})
      BY <1>10, <2>2 DEF Stored
    <3>2. ASSUME NEW n \in scheduled, n.booking.pr = op.pr, op.pr \notin troubled
          PROVE  NoticeHolds(n)'
      <4>1. n.state = op.new /\ Agrees(op.pr, op.new)
        BY <1>2, <2>1, <2>2, <3>2 DEF StepHolds, StatusSteps
      <4> QED BY <1>2, <1>4, <2>1, <3>2, <4>1 DEF NoticeHolds
    <3> QED BY <1>3, <2>1, <3>1, <3>2, NoticeInvElsewhere
  <2>3. CASE op.new # op.old
    <3>1. PICK b : b = BookingIn(op)
      OBVIOUS
    <3> DEFINE next == LookUp(op.req, b, op.new)
    <3>2. Continue(op, {next})
      BY <1>10, <2>3, <3>1 DEF Stored
    <3>3. /\ next.pr = op.pr
          /\ next.step = "lookUp"
          /\ next.send = op.new
          /\ BookingIn(next) = b
      BY <3>1 DEF LookUp, BookingIn
    <3> HIDE DEF next
    <3>4. op.pr \notin troubled =>
            IsHead(b) /\ Agrees(op.pr, op.new)
      BY <1>2, <2>1, <3>1 DEF StepHolds
    <3>5. op.pr \notin troubled => StepHolds(next)'
      BY <1>4, <2>1, <3>3, <3>4 DEF StepHolds, StatusSteps, BookingIn
    <3>6. ASSUME NEW n \in scheduled, n.booking.pr = op.pr, op.pr \notin troubled
          PROVE  NoticeHolds(n)'
      <4>1. n.booking = b
        BY <1>2, <3>4, <3>6 DEF IsHead
      <4>2. next \in pending'
        BY <3>2 DEF Continue
      <4> QED BY <3>3, <4>1, <4>2 DEF NoticeHolds, Doomed, BookingIn
    <3> QED BY <1>3, <2>1, <3>2, <3>3, <3>5, <3>6, NoticeInvElsewhere
  <2> QED BY <2>2, <2>3
<1> QED BY <1>6, <1>8, <1>9, <1>10

LEMMA NoticeInvAfterChain ==
  ASSUME TypeOK, NothingLost, NoticeInv, NEW op \in pending,
         \/ LookedUp(op) \/ Cancelled(op) \/ Deleted(op)
         \/ CancelFailed(op) \/ CancelUnheard(op) \/ DeleteFailed(op)
         \/ Sent(op) \/ SendFailed(op) \/ Saved(op)
  PROVE  NoticeInv'
<1>0. op \in Operation
  BY DEF TypeOK
<1>1. op.step \in ChainSteps
  BY DEF LookedUp, Cancelled, Deleted, CancelFailed, CancelUnheard,
         DeleteFailed, Sent, SendFailed, Saved, ChainSteps
<1>2. /\ UNCHANGED <<queue, suites, state, owed, status>>
      /\ StaysTroubled
  BY TroubleStays
     DEF LookedUp, Cancelled, Deleted, CancelFailed, CancelUnheard,
         DeleteFailed, Sent, SendFailed, Saved, github, push
<1>3. /\ \A b : IsHead(b)' <=> IsHead(b)
      /\ \A pr, st : Agrees(pr, st)' <=> Agrees(pr, st)
  BY <1>2 DEF IsHead, Agrees, ConclusionsOf, GitHubStatus
(* What follows carries the same news of the same booking.                 *)
<1>4. ASSUME NEW o, op.pr \notin troubled, o.pr = op.pr, o.user = op.user,
             o.send = op.send, o.step \in ChainSteps
      PROVE  StepHolds(o)'
  <2>1. StepHolds(op)
    BY <1>4 DEF NoticeInv
  <2>2. BookingIn(o) = BookingIn(op)
    BY <1>4 DEF BookingIn
  <2>3. o.step \notin StatusSteps
    BY <1>4 DEF StatusSteps, ChainSteps
  <2>4. op.send # "pending" => IsHead(BookingIn(op)) /\ op.send = status[op.pr]
                               /\ Agrees(op.pr, op.send)
    BY <1>1, <2>1 DEF StepHolds
  <2>5. o.send # "pending" => IsHead(BookingIn(o))' /\ o.send = status'[o.pr]
                              /\ Agrees(o.pr, o.send)'
    BY <1>2, <1>3, <1>4, <2>2, <2>4 DEF BookingIn
  <2> QED BY <2>3, <2>5 DEF StepHolds, StatusSteps
<1>5. \A o \in AfterCancel(op) \cup {Delete(op)} :
        /\ o.pr = op.pr /\ o.user = op.user /\ o.send = op.send
        /\ o.step \in ChainSteps
  BY DEF AfterCancel, Send, Delete, ChainSteps
<1>6. \A id : /\ Save(op, id).pr = op.pr
              /\ Save(op, id).user = op.user
              /\ Save(op, id).send = op.send
              /\ Save(op, id).step \in ChainSteps
  BY DEF Save, ChainSteps
(* What is not to be cancelled stays as right as it was.                   *)
<1>7. ASSUME NEW n \in scheduled, n.booking.pr = op.pr, op.pr \notin troubled,
             op.step \in {"lookUp", "cancel"} => BookingIn(op) # n.booking
      PROVE  NoticeHolds(n)'
  <2>1. /\ IsHead(n.booking)
        /\ n.state = status[op.pr]
        /\ Agrees(op.pr, n.state)
    BY <1>1, <1>7, NoticeWhileBusy
  <2> QED BY <1>2, <1>3, <1>7, <2>1 DEF NoticeHolds
<1>8. ASSUME NEW next, Continue(op, next),
             \A o \in next : /\ o.pr = op.pr /\ o.user = op.user
                             /\ o.send = op.send /\ o.step \in ChainSteps,
             scheduled' \subseteq scheduled,
             op.pr \notin troubled =>
               \A n \in scheduled' :
                 \/ op.step \in {"lookUp", "cancel"} =>
                      BookingIn(op) # n.booking
                 \/ NoticeHolds(n)'
      PROVE  NoticeInv'
  <2>1. op.pr \notin troubled => \A o \in next : StepHolds(o)'
    BY <1>4, <1>8
  <2>2. op.pr \notin troubled =>
          \A n \in scheduled' : n.booking.pr = op.pr => NoticeHolds(n)'
    BY <1>7, <1>8
  <2> QED BY <1>2, <1>8, <2>1, <2>2, NoticeInvElsewhere
<1>9. CASE LookedUp(op)
  <2>1. scheduled' = scheduled /\ op.step = "lookUp"
    BY <1>9 DEF LookedUp, push
  <2>2. ASSUME NEW n \in scheduled, op.pr \notin troubled,
               BookingIn(op) = n.booking
        PROVE  record[n.booking] = n.id /\ n.id # NoRecord
    BY <2>1, <2>2, RecordKnows, ChecksAssumption DEF TypeOK, Notice
  <2>3. CASE record[BookingIn(op)] = NoRecord
    <3>1. Continue(op, AfterCancel(op))
      BY <1>9, <2>3 DEF LookedUp
    <3>2. op.pr \notin troubled =>
            \A n \in scheduled : BookingIn(op) # n.booking
      BY <2>2, <2>3
    <3> QED BY <1>5, <1>8, <2>1, <3>1, <3>2
  <2>4. CASE record[BookingIn(op)] # NoRecord
    <3>1. PICK id : id = record[BookingIn(op)]
      OBVIOUS
    <3> DEFINE next == Cancel(op, id)
    <3>2. Continue(op, {next})
      BY <1>9, <2>4, <3>1 DEF LookedUp
    <3>3. /\ next.pr = op.pr /\ next.user = op.user
          /\ next.send = op.send /\ next.step = "cancel"
          /\ BookingIn(next) = BookingIn(op)
      BY DEF Cancel, BookingIn
    <3> HIDE DEF next
    <3>4. ASSUME NEW n \in scheduled, BookingIn(op) = n.booking
          PROVE  NoticeHolds(n)'
      <4>1. next \in pending'
        BY <3>2 DEF Continue
      <4> QED BY <3>3, <3>4, <4>1 DEF NoticeHolds, Doomed, BookingIn
    <3> QED BY <1>8, <2>1, <3>2, <3>3, <3>4 DEF ChainSteps
  <2> QED BY <2>3, <2>4
<1>10. CASE Cancelled(op) \/ CancelUnheard(op)
  <2>1. /\ scheduled' = {n \in scheduled : n.id # op.id}
        /\ op.step = "cancel"
    BY <1>10 DEF Cancelled, CancelUnheard
  <2>2. op.pr \notin troubled => \A n \in scheduled' : BookingIn(op) # n.booking
    BY <2>1 DEF NothingLost, ChainKnows
  <2>3. Continue(op, {Delete(op)}) \/ Continue(op, AfterCancel(op))
    BY <1>10 DEF Cancelled, CancelUnheard
  <2> QED BY <1>5, <1>8, <2>1, <2>2, <2>3
<1>11. CASE Deleted(op) \/ DeleteFailed(op)
  <2>1. /\ scheduled' = scheduled
        /\ op.step = "delete"
        /\ Continue(op, AfterCancel(op))
    BY <1>11 DEF Deleted, DeleteFailed
  <2> QED BY <1>5, <1>8, <2>1
<1>12. CASE Sent(op)
  <2>1. PICK id \in Notices :
          /\ scheduled' = scheduled \cup {[id |-> id, booking |-> BookingIn(op),
                                           state |-> op.send]}
          /\ Continue(op, {Save(op, id)})
    BY <1>12 DEF Sent
  <2> DEFINE new == [id |-> id, booking |-> BookingIn(op), state |-> op.send]
  <2>2. new.booking = BookingIn(op) /\ new.state = op.send
        /\ BookingIn(op).pr = op.pr /\ op.step = "send"
    BY <1>12 DEF BookingIn, Sent
  <2>3. scheduled' = scheduled \cup {new}
    BY <2>1
  <2> HIDE DEF new
  <2>4. op.send # "pending"
    BY <1>0, <2>2, OperationFields DEF News
  <2>5. op.pr \notin troubled => NoticeHolds(new)'
    <3> SUFFICES ASSUME op.pr \notin troubled
                 PROVE  NoticeHolds(new)'
      OBVIOUS
    <3>1. /\ IsHead(BookingIn(op))
          /\ op.send = status[op.pr]
          /\ Agrees(op.pr, op.send)
      BY <1>1, <2>4 DEF NoticeInv, StepHolds
    <3> QED BY <1>2, <1>3, <2>2, <3>1 DEF NoticeHolds, BookingIn
  <2>6. \A n \in scheduled' : n \in scheduled \/ n.booking.pr = op.pr
    BY <2>2, <2>3
  <2>7. op.pr \notin troubled =>
          \A n \in scheduled' : n.booking.pr = op.pr => NoticeHolds(n)'
    BY <1>7, <2>2, <2>3, <2>5
  <2>8. op.pr \notin troubled => \A o \in {Save(op, id)} : StepHolds(o)'
    BY <1>4, <1>6
  <2> QED BY <1>2, <1>6, <2>1, <2>6, <2>7, <2>8, NoticeInvElsewhere
<1>13. CASE SendFailed(op)
  <2>1. scheduled' = scheduled /\ op.step = "send"
        /\ Continue(op, {Save(op, NoId)})
    BY <1>13 DEF SendFailed, push
  <2> QED BY <1>6, <1>8, <2>1
<1>14. CASE Saved(op)
  <2>1. scheduled' = scheduled /\ op.step = "save" /\ Continue(op, {})
    BY <1>14 DEF Saved
  <2> QED BY <1>8, <2>1
<1>15. CASE CancelFailed(op)
  <2>1. /\ scheduled' = scheduled
        /\ Continue(op, AfterCancel(op))
    BY <1>15 DEF CancelFailed, push
  <2>2. CASE \E n \in scheduled : n.booking = BookingIn(op)
    <3>1. Trouble({op.pr})
      BY <1>15, <2>2 DEF CancelFailed
    <3> QED BY <1>2, <1>5, <2>1, <3>1, NoticeInvInTrouble
  <2>3. CASE \A n \in scheduled : n.booking # BookingIn(op)
    BY <1>5, <1>8, <2>1, <2>3
  <2> QED BY <2>2, <2>3
<1> QED BY <1>9, <1>10, <1>11, <1>12, <1>13, <1>14, <1>15

(* An operation that fails and leaves what it had scheduled.               *)
LEMMA NoticeInvAfterFailure ==
  ASSUME TypeOK, NothingLost, NoticeInv, NEW op \in pending,
         SendUnheard(op) \/ MongoFailed(op)
  PROVE  NoticeInv'
<1>1. PICK next :
        /\ Continue(op, next)
        /\ \A o \in next : o.pr = op.pr
        /\ \A n \in scheduled' : n \in scheduled \/ n.booking.pr = op.pr
  <2>1. CASE SendUnheard(op)
    <3>1. PICK id \in Notices :
            scheduled' = scheduled \cup {[id |-> id, booking |-> BookingIn(op),
                                          state |-> op.send]}
      BY <2>1 DEF SendUnheard
    <3>2. \A n \in scheduled' : n \in scheduled \/ n.booking.pr = op.pr
      BY <3>1 DEF BookingIn
    <3>3. \A o \in {Save(op, NoId)} : o.pr = op.pr
      BY DEF Save
    <3> WITNESS {Save(op, NoId)}
    <3> QED BY <2>1, <3>2, <3>3 DEF SendUnheard
  <2>2. CASE MongoFailed(op)
    <3> WITNESS {}
    <3> QED BY <2>2 DEF MongoFailed, push
  <2> QED BY <2>1, <2>2
<1>2. /\ UNCHANGED <<queue, suites, state, owed>>
      /\ Trouble({op.pr})
      /\ \A pr \in PullRequests : pr # op.pr => status'[pr] = status[pr]
  BY DEF SendUnheard, MongoFailed, github, TypeOK
<1> QED BY <1>1, <1>2, NoticeInvInTrouble

LEMMA NoticeInvAfterRestart ==
  ASSUME TypeOK, NothingLost, NoticeInv, Restart
  PROVE  NoticeInv'
<1>1. /\ UNCHANGED <<queue, suites, state, owed, status, scheduled>>
      /\ StaysTroubled
      /\ \A n \in scheduled' : n.booking.pr \in {op.pr : op \in pending} =>
           n.booking.pr \in troubled'
  BY TroubleStays DEF Restart, github, push
<1>2. pending' = {}
  BY DEF Restart
<1>3. ASSUME NEW n \in scheduled, n.booking.pr \notin troubled'
      PROVE  NoticeHolds(n)'
  <2>1. \A op \in pending : op.pr # n.booking.pr
    BY <1>1, <1>3
  <2>2. NoticeHolds(n)
    BY <1>1, <1>3 DEF NoticeInv, StaysTroubled
  <2>3. /\ IsHead(n.booking)
        /\ n.state = status[n.booking.pr]
        /\ Agrees(n.booking.pr, n.state)
    <3>1. \A op \in pending : BookingIn(op) # n.booking
      BY <2>1 DEF BookingIn
    <3> QED BY <2>1, <2>2, <3>1 DEF NoticeHolds, Doomed
  <2>4. Agrees(n.booking.pr, n.state)'
    BY <1>1, <2>3 DEF Agrees, ConclusionsOf, GitHubStatus
  <2> QED BY <1>1, <2>3, <2>4 DEF NoticeHolds, IsHead
<1> QED BY <1>1, <1>2, <1>3 DEF NoticeInv

LEMMA NoticeInvAfterRemoveUnheard ==
  ASSUME TypeOK, NoticeInv, NEW b \in Booking, RemoveUnheard(b)
  PROVE  NoticeInv'
<1>1. /\ queue' = Pull(queue, b)
      /\ UNCHANGED <<suites, state, owed, status, scheduled, pending>>
  BY DEF RemoveUnheard, Leave, github, push
<1>2. /\ StaysTroubled
      /\ \A o \in pending : o.pr = b.pr => o.pr \in troubled'
      /\ \A n \in scheduled : n.booking.pr = b.pr => n.booking.pr \in troubled'
  BY <1>1, TroubleStays DEF RemoveUnheard
<1>3. \A c : IsHead(c) /\ c # b => IsHead(c)'
  BY <1>1, PullKeepsHead DEF IsHead, TypeOK
<1>4. \A pr, st : Agrees(pr, st)' <=> Agrees(pr, st)
  BY <1>1 DEF Agrees, ConclusionsOf, GitHubStatus
<1>5. ASSUME NEW op \in pending, op.pr \notin troubled'
      PROVE  StepHolds(op)'
  <2>1. BookingIn(op) # b
    BY <1>2, <1>5 DEF BookingIn
  <2>2. StepHolds(op)
    BY <1>1, <1>2, <1>5 DEF NoticeInv, StaysTroubled
  <2> QED BY <1>1, <1>3, <1>4, <2>1, <2>2 DEF StepHolds, BookingIn
<1>6. ASSUME NEW n \in scheduled, n.booking.pr \notin troubled'
      PROVE  NoticeHolds(n)'
  <2>1. n.booking # b
    BY <1>2, <1>6
  <2>2. NoticeHolds(n)
    BY <1>1, <1>2, <1>6 DEF NoticeInv, StaysTroubled
  <2> QED BY <1>1, <1>3, <1>4, <2>1, <2>2 DEF NoticeHolds, Doomed, BookingIn
<1> QED BY <1>1, <1>5, <1>6 DEF NoticeInv


LEMMA NextNoticeInv ==
  TypeOK /\ NothingLost /\ NoticeInv /\ [Next]_vars => NoticeInv'
<1> SUFFICES ASSUME TypeOK, NothingLost, NoticeInv, [Next]_vars
             PROVE  NoticeInv'
  OBVIOUS
<1>1. ASSUME NEW pr \in PullRequests, GitHub(pr) PROVE NoticeInv'
  BY <1>1, NoticeInvAfterGitHub
<1>2. ASSUME UNCHANGED <<queue, github, status, pending>>, StaysTroubled,
             scheduled' \subseteq scheduled
      PROVE  NoticeInv'
  <2>1. /\ \A b : IsHead(b)' <=> IsHead(b)
        /\ \A pr, st : Agrees(pr, st)' <=> Agrees(pr, st)
    BY <1>2 DEF IsHead, Agrees, ConclusionsOf, GitHubStatus, github
  <2> QED BY <1>2, <2>1, NoticeInvFrame
<1>3. ASSUME NEW b \in Booking, AddItem(b) PROVE NoticeInv'
  <2>1. queue' = Append(queue, b)
        /\ UNCHANGED <<github, status, scheduled, pending, troubled>>
    BY <1>3 DEF AddItem, Join, push
  <2>2. \A c : IsHead(c) => IsHead(c)'
    BY <2>1 DEF IsHead, TypeOK, QueueTypeOK
  <2>3. \A pr, st : Agrees(pr, st)' <=> Agrees(pr, st)
    BY <2>1 DEF Agrees, ConclusionsOf, GitHubStatus, github
  <2> QED BY <2>1, <2>2, <2>3, NoticeInvFrame, GrowingTroubleStays
<1>4. ASSUME NEW b \in Booking, Expired(b) PROVE NoticeInv'
  BY <1>2, <1>4, GrowingTroubleStays DEF Expired
<1>5. ASSUME NEW r \in Requests, Start(r) PROVE NoticeInv'
  BY <1>5, NoticeInvAfterStart
<1>6. ASSUME NEW op \in pending, Answer(op) PROVE NoticeInv'
  BY <1>6, NoticeInvAfterStatus, NoticeInvAfterChain, NoticeInvAfterFailure
     DEF Answer
<1>7. ASSUME NEW n \in scheduled, Delivered(n) PROVE NoticeInv'
  BY <1>2, <1>7, TroubleStays DEF Delivered
<1>8. CASE UNCHANGED vars
  BY <1>2, <1>8, GrowingTroubleStays DEF vars, push
<1>9. ASSUME NEW b \in Booking, RemoveUnheard(b) PROVE NoticeInv'
  BY <1>9, NoticeInvAfterRemoveUnheard
<1>10. CASE Restart
  BY <1>10, NoticeInvAfterRestart
<1> QED
  BY <1>1, <1>3, <1>4, <1>5, <1>6, <1>7, <1>8, <1>9, <1>10 DEF Next

(* Once no request is busy, what is scheduled is of the head of the queue  *)
(* and announces the status GitHub has, unless a webhook is to come, a     *)
(* check suite runs again, or its pull request is troubled: requests for   *)
(* it crossed, or a cancelling, an answer or a Mongo call failed or the    *)
(* process stopped, and what was scheduled by then is not delivered yet.   *)
THEOREM NoticeStaysCurrent == Spec => []NoticeIsCurrent
<1>1. Init => TypeOK /\ NothingLost /\ NoticeInv
  BY InitTypeOK DEF Init, NothingLost, NoticeIsKnown, OneAtATime, ChainKnows,
     NoticeInv
<1>2. TypeOK /\ NothingLost /\ NoticeInv /\ [Next]_vars =>
        (NothingLost /\ NoticeInv)'
  BY NextNothingLost, NextNoticeInv
<1> QED BY <1>1, <1>2, NoticeInvShows, TypeCorrect, PTL DEF Spec
===============================================================================
