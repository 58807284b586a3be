-------------------------- MODULE QueueBoard_proofs --------------------------
(***************************************************************************)
(* For every number of pull requests, users, commits and concurrent        *)
(* requests: the types of QueueBoard, that its queue is the BookingQueue   *)
(* and keeps pull requests unique and in order, that the head of the queue *)
(* is told, that a closed pull request leaves nothing behind, that an      *)
(* undisturbed removal repairs the titles, that they are right without     *)
(* that whenever requests run one at a time, and that a request goes down  *)
(* its chain with a bounded number of operations under way.                *)
(***************************************************************************)
EXTENDS QueueBoard, BookingQueue_proofs, FiniteSetTheorems

-----------------------------------------------------------------------------
(* Lemmas about the operators.                                             *)

LEMMA TitleAtType ==
  ASSUME NEW index \in Int
  PROVE  TitleAt(index) \in Title
BY BoardAssumption DEF TitleAt, Title, NotInQueue, OverMax, First

LEMMA PositionType ==
  ASSUME NEW q \in Seq(Booking), NEW pr
  PROVE  Position(q, pr) \in 0..Len(q)
<1>1. Len(q) \in Nat /\ DOMAIN q = 1..Len(q)
  BY LenProperties
<1> QED BY <1>1 DEF Position, Holds

LEMMA BookingOfType ==
  ASSUME NEW q \in Seq(Booking), NEW pr, Holds(q, pr)
  PROVE  /\ BookingOf(q, pr) \in Booking
         /\ BookingOf(q, pr) \in ToSet(q)
         /\ BookingOf(q, pr).pr = pr
<1>1. \E b \in ToSet(q) : b.pr = pr
  BY DEF Holds, ToSet
<1>2. BookingOf(q, pr) \in ToSet(q) /\ BookingOf(q, pr).pr = pr
  BY <1>1 DEF BookingOf
<1>3. ToSet(q) \subseteq Booking
  BY LenProperties, ElementOfSeq DEF ToSet
<1> QED BY <1>2, <1>3

(* The constructors of pending operations make operations ...              *)
LEMMA OperationMade ==
  ASSUME NEW r \in Requests
  PROVE  /\ FindFirst(r) \in Operation
         /\ FindAll(r) \in Operation
         /\ DropQueue(r) \in Operation
         /\ DropInfos(r) \in Operation
         /\ \A b \in Booking : TellFirst(r, b) \in Operation
         /\ \A pr \in PullRequests : FindIndex(r, pr) \in Operation
         /\ \A pr \in PullRequests : Forget(r, pr) \in Operation
         /\ \A pr \in PullRequests : CheckHead(r, pr) \in Operation
         /\ \A pr \in PullRequests : StoreStatus(r, pr) \in Operation
         /\ \A pr \in PullRequests, title \in {Merged, NotInQueue} :
              Locate(r, pr, title) \in Operation
         /\ \A b \in Booking, title \in {Merged, NotInQueue} :
              PullClosed(r, b, title) \in Operation
         /\ \A pr \in PullRequests, title \in Title, last \in BOOLEAN :
              LookUp(r, pr, title, last) \in Operation
         /\ \A pr \in PullRequests, title \in Title, last \in BOOLEAN,
               sha \in Shas : Post(r, pr, title, last, sha) \in Operation
<1>1. FindFirst(r) \in Operation /\ FindAll(r) \in Operation
  BY DEF FindFirst, FindAll, Operation
<1>2. DropQueue(r) \in Operation /\ DropInfos(r) \in Operation
  BY DEF DropQueue, DropInfos, Operation
<1>3. \A b \in Booking : TellFirst(r, b) \in Operation
  BY DEF TellFirst, Operation
<1>4. \A pr \in PullRequests : FindIndex(r, pr) \in Operation
  BY DEF FindIndex, Operation
<1>5. \A pr \in PullRequests : Forget(r, pr) \in Operation
  BY DEF Forget, Operation
<1>6. \A pr \in PullRequests, title \in {Merged, NotInQueue} :
        Locate(r, pr, title) \in Operation
  BY DEF Locate, Operation
<1>7. \A b \in Booking, title \in {Merged, NotInQueue} :
        PullClosed(r, b, title) \in Operation
  BY DEF PullClosed, Operation
<1>8. \A pr \in PullRequests, title \in Title, last \in BOOLEAN :
        LookUp(r, pr, title, last) \in Operation
  BY DEF LookUp, Operation
<1>9. \A pr \in PullRequests, title \in Title, last \in BOOLEAN, sha \in Shas :
        Post(r, pr, title, last, sha) \in Operation
  BY DEF Post, Operation
<1>10. \A pr \in PullRequests :
         CheckHead(r, pr) \in Operation /\ StoreStatus(r, pr) \in Operation
  BY DEF CheckHead, StoreStatus, Operation
<1> QED BY <1>1, <1>2, <1>3, <1>4, <1>5, <1>6, <1>7, <1>8, <1>9, <1>10

(* ... and their fields can be read off the step they are at.              *)
LEMMA OperationFields ==
  ASSUME NEW op \in Operation
  PROVE  /\ op.req \in Requests
         /\ op.step \in {"findIndex", "forget", "checkHead", "storeStatus",
                        "locate", "lookUp", "post"} => op.pr \in PullRequests
         /\ op.step \in {"tellFirst", "pullClosed"} => op.booking \in Booking
         /\ op.step \in {"locate", "pullClosed"} =>
              op.title \in {Merged, NotInQueue}
         /\ op.step \in {"lookUp", "post"} =>
              op.title \in Title /\ op.last \in BOOLEAN
         /\ op.step = "post" => op.sha \in Shas
<1>1. CASE op \in [step: {"findFirst", "findAll", "dropQueue", "dropInfos"},
                   req: Requests]
  BY <1>1
<1>2. CASE op \in [step: {"findIndex", "forget", "checkHead", "storeStatus"},
                   req: Requests, pr: PullRequests]
  BY <1>2
<1>3. CASE op \in [step: {"tellFirst"}, req: Requests, booking: Booking]
  BY <1>3
<1>4. CASE op \in [step: {"locate"}, req: Requests, pr: PullRequests,
                   title: {Merged, NotInQueue}]
  BY <1>4
<1>5. CASE op \in [step: {"pullClosed"}, req: Requests, booking: Booking,
                   title: {Merged, NotInQueue}]
  BY <1>5
<1>6. CASE op \in [step: {"lookUp"}, req: Requests, pr: PullRequests,
                   title: Title, last: BOOLEAN]
  BY <1>6
<1>7. CASE op \in [step: {"post"}, req: Requests, pr: PullRequests,
                   title: Title, last: BOOLEAN, sha: Shas]
  BY <1>7
<1> QED BY <1>1, <1>2, <1>3, <1>4, <1>5, <1>6, <1>7 DEF Operation

(* The two titles handleClosed posts are titles.                           *)
LEMMA ClosedTitles == {Merged, NotInQueue} \subseteq Title
  BY DEF Title

LEMMA AfterRemovalType ==
  ASSUME NEW r \in Requests, NEW pr
  PROVE  AfterRemoval(r, pr) \subseteq Operation
BY OperationMade DEF AfterRemoval

LEMMA AfterPostType ==
  ASSUME NEW op \in Operation, op.step \in {"lookUp", "post"}
  PROVE  AfterPost(op) \subseteq Operation
BY OperationMade, OperationFields DEF AfterPost

(* What _getPullRequestAndUpdateStatus goes on with: a document with a     *)
(* head commit, or none.                                                   *)
LEMMA LookUpLeadsTo ==
  ASSUME TypeOK, NEW op \in Operation, LookedUp(op)
  PROVE  /\ info[op.pr] \in Shas =>
              Continue(op, {Post(op.req, op.pr, op.title, op.last,
                                 info[op.pr])})
         /\ info[op.pr] = NoInfo => Continue(op, AfterPost(op))
         /\ info[op.pr] \notin Shas \cup {NoInfo} => Continue(op, {})
<1>1. info[op.pr] \in Shas \cup {NoInfo, NoHead}
  BY OperationFields DEF LookedUp, TypeOK
<1>2. CASE info[op.pr] \in Shas
  <2>1. info[op.pr] # NoInfo /\ info[op.pr] # NoHead
    BY <1>2, BoardAssumption
  <2> QED BY <1>2, <2>1 DEF LookedUp
<1>3. CASE info[op.pr] = NoInfo
  <2>1. info[op.pr] \notin Shas /\ info[op.pr] # NoHead
    BY <1>3, BoardAssumption
  <2> QED BY <1>3, <2>1 DEF LookedUp
<1>4. CASE info[op.pr] = NoHead
  <2>1. info[op.pr] \notin Shas /\ info[op.pr] # NoInfo
    BY <1>4, BoardAssumption
  <2> QED BY <1>4, <2>1 DEF LookedUp
<1> QED BY <1>1, <1>2, <1>3, <1>4

-----------------------------------------------------------------------------
(* Type correctness.                                                       *)

LEMMA InitTypeOK == Init => TypeOK
<1>1. Init => QueueTypeOK
  BY EmptySeq DEF Init, QueueInit, QueueTypeOK
<1>2. NoRun \in Title
  BY DEF Title
<1>3. Init => info \in [PullRequests -> Shas \cup {NoInfo, NoHead}]
  BY DEF Init
<1>4. Init => checkRun \in [PullRequests -> [Shas -> Title]]
  BY <1>2 DEF Init
<1> QED BY <1>1, <1>3, <1>4 DEF Init, TypeOK

(* One lemma for the requests that start ...                               *)
LEMMA StartTypeOK ==
  ASSUME TypeOK, NEW r \in Requests, Start(r)
  PROVE  TypeOK'
<1> USE DEF TypeOK, QueueTypeOK
<1>1. ASSUME NEW b \in Booking, AddItem(r, b) PROVE TypeOK'
  <2>1. b.pr \in PullRequests
    BY DEF Booking
  <2>2. queue' \in Seq(Booking)
    BY <1>1 DEF AddItem, Join
  <2>3. TitleAt(Len(queue)) \in Title
    BY LenProperties, TitleAtType
  <2>4. pending' \subseteq Operation
    BY <1>1, <2>1, <2>3, OperationMade DEF AddItem
  <2> QED BY <1>1, <2>2, <2>4 DEF AddItem, ClosingUnlessAdded
<1>2. ASSUME NEW b \in Booking, RemoveItem(r, b) PROVE TypeOK'
  <2>1. b.pr \in PullRequests
    BY DEF Booking
  <2>2. queue' \in Seq(Booking)
    BY <1>2, PullProperties DEF RemoveItem, Leave
  <2>3. pending' \subseteq Operation
    <3>1. LookUp(r, b.pr, NotInQueue, FALSE) \in Operation
      BY <2>1, OperationMade DEF Title
    <3> QED BY <1>2, <3>1, AfterRemovalType DEF RemoveItem
  <2>4. told' \in BOOLEAN
    BY <1>2 DEF RemoveItem, ToldAfterPull
  <2>5. solo' \in PullRequests \cup {None}
    BY <1>2, <2>1 DEF RemoveItem
  <2> QED BY <1>2, <2>2, <2>3, <2>4, <2>5 DEF RemoveItem
<1>3. ASSUME NEW pr \in PullRequests, NEW title \in {Merged, NotInQueue},
             HandleClosed(r, pr, title)
      PROVE  TypeOK'
  BY <1>3, OperationMade DEF HandleClosed
<1>4. ASSUME NEW pr \in PullRequests, NEW sha \in Shas, HandleOpened(r, pr, sha)
      PROVE  TypeOK'
  <2>1. LookUp(r, pr, NotInQueue, FALSE) \in Operation
    BY OperationMade DEF Title
  <2> QED BY <1>4, <2>1 DEF HandleOpened, StoreInfo, ClosingUnlessBack
<1>5. ASSUME NEW pr \in PullRequests, NEW sha \in Shas, HandleSync(r, pr, sha)
      PROVE  TypeOK'
  BY <1>5, OperationMade DEF HandleSync, StoreInfo, ClosingUnlessBack
<1>6. CASE Uninstall(r)
  BY <1>6, OperationMade DEF Uninstall
<1>7. ASSUME NEW pr \in PullRequests, HandleStatusChange(r, pr)
      PROVE  TypeOK'
  BY <1>7, OperationMade DEF HandleStatusChange
<1> QED BY <1>1, <1>2, <1>3, <1>4, <1>5, <1>6, <1>7 DEF Start

(* ... and one for the operations that are answered.                       *)
LEMMA AnswerTypeOK ==
  ASSUME TypeOK, NEW op \in pending, Answer(op)
  PROVE  TypeOK'
<1> USE DEF TypeOK, QueueTypeOK, Continue
<1>0. op \in Operation
  OBVIOUS
<1>1. CASE FoundFirst(op)
  <2>1. queue # <<>> => TellFirst(op.req, Head(queue)) \in Operation
    BY <1>0, HeadTailProperties, OperationMade, OperationFields
  <2> QED BY <1>1, <2>1 DEF FoundFirst
<1>2. CASE ToldFirst(op)
  BY <1>2 DEF ToldFirst
<1>3. CASE FoundAll(op)
  <2>1. ASSUME NEW i \in DOMAIN queue
        PROVE  LookUp(op.req, queue[i].pr, TitleAt(i - 1), FALSE) \in Operation
    <3>1. i \in 1..Len(queue) /\ queue[i] \in Booking
      BY <2>1, LenProperties, ElementOfSeq
    <3>2. i - 1 \in Int /\ queue[i].pr \in PullRequests
      BY <3>1, LenProperties DEF Booking
    <3>3. TitleAt(i - 1) \in Title
      BY <3>2, TitleAtType
    <3> QED BY <1>0, <3>2, <3>3, OperationMade, OperationFields
  <2> QED BY <1>3, <2>1 DEF FoundAll
<1>4. CASE FoundIndex(op)
  <2>1. Position(queue, op.pr) - 1 \in Int
    BY PositionType, LenProperties
  <2>2. op.req \in Requests /\ op.pr \in PullRequests
    BY <1>0, <1>4, OperationFields DEF FoundIndex
  <2>3. LookUp(op.req, op.pr, TitleAt(Position(queue, op.pr) - 1), FALSE)
          \in Operation
    BY <2>1, <2>2, TitleAtType, OperationMade
  <2> QED BY <1>4, <2>3 DEF FoundIndex
<1>5. CASE Located(op)
  <2>1. /\ op.req \in Requests
        /\ op.pr \in PullRequests
        /\ op.title \in {Merged, NotInQueue}
    BY <1>0, <1>5, OperationFields DEF Located
  <2>2. Holds(queue, op.pr) =>
          PullClosed(op.req, BookingOf(queue, op.pr), op.title) \in Operation
    BY <2>1, BookingOfType, OperationMade
  <2>3. LookUp(op.req, op.pr, op.title, TRUE) \in Operation
    BY <2>1, ClosedTitles, OperationMade
  <2> QED BY <1>5, <2>2, <2>3 DEF Located
<1>6. CASE PulledClosed(op)
  <2>1. /\ op.req \in Requests
        /\ op.booking \in Booking
        /\ op.title \in {Merged, NotInQueue}
    BY <1>0, <1>6, OperationFields DEF PulledClosed
  <2>2. LookUp(op.req, op.booking.pr, op.title, TRUE) \in Operation
    BY <2>1, ClosedTitles, OperationMade DEF Booking
  <2>3. queue' \in Seq(Booking)
    BY <1>6, PullProperties DEF PulledClosed, Leave
  <2>4. told' \in BOOLEAN
    BY <1>6 DEF PulledClosed, ToldAfterPull
  <2> QED BY <1>6, <2>1, <2>2, <2>3, <2>4, AfterRemovalType DEF PulledClosed
<1>7. CASE LookedUp(op)
  <2>1. /\ op.req \in Requests
        /\ op.pr \in PullRequests
        /\ op.title \in Title
        /\ op.last \in BOOLEAN
    BY <1>0, <1>7, OperationFields DEF LookedUp
  <2>2. info[op.pr] \in Shas =>
          Post(op.req, op.pr, op.title, op.last, info[op.pr]) \in Operation
    BY <2>1, OperationMade
  <2>3. AfterPost(op) \subseteq Operation
    BY <1>0, <1>7, AfterPostType DEF LookedUp
  <2>4. pending' \subseteq Operation
    BY <1>0, <1>7, <2>2, <2>3, LookUpLeadsTo
  <2> QED BY <1>7, <2>4 DEF LookedUp
<1>8. CASE Posted(op)
  <2>1. /\ op.pr \in PullRequests
        /\ op.sha \in Shas
        /\ op.title \in Title
    BY <1>0, <1>8, OperationFields DEF Posted
  <2>2. AfterPost(op) \subseteq Operation
    BY <1>0, <1>8, AfterPostType DEF Posted
  <2>3. checkRun' \in [PullRequests -> [Shas -> Title]]
    BY <1>8, <2>1 DEF Posted
  <2> QED BY <1>8, <2>2, <2>3 DEF Posted
<1>9. CASE PostFailed(op)
  <2>1. AfterPost(op) \subseteq Operation
    BY <1>0, <1>9, AfterPostType DEF PostFailed
  <2> QED BY <1>9, <2>1 DEF PostFailed
<1>10. CASE Forgotten(op)
  <2>1. op.pr \in PullRequests
    BY <1>0, <1>10, OperationFields DEF Forgotten
  <2> QED BY <1>10, <2>1 DEF Forgotten
<1>11. CASE DroppedQueue(op)
  <2>1. queue' \in Seq(Booking)
    BY <1>11, EmptySeq DEF DroppedQueue, Clear
  <2> QED BY <1>11, <2>1 DEF DroppedQueue
<1>12. CASE DroppedInfos(op)
  BY <1>12 DEF DroppedInfos
<1>13. CASE CheckedHead(op)
  <2>1. StoreStatus(op.req, op.pr) \in Operation
    BY <1>0, <1>13, OperationMade, OperationFields DEF CheckedHead
  <2> QED BY <1>13, <2>1 DEF CheckedHead
<1>14. CASE StoredStatus(op)
  <2>1. op.pr \in PullRequests
    BY <1>0, <1>14, OperationFields DEF StoredStatus
  <2> QED BY <1>14, <2>1 DEF StoredStatus
<1> QED
  BY <1>1, <1>2, <1>3, <1>4, <1>5, <1>6, <1>7, <1>8, <1>9, <1>10, <1>11,
     <1>12, <1>13, <1>14 DEF Answer

(* Every state of QueueBoard has the types of TypeOK; in particular every  *)
(* pending operation carries the fields its answer needs.                  *)
THEOREM TypeCorrect == Spec => []TypeOK
<1>1. TypeOK /\ [Next]_vars => TypeOK'
  <2> SUFFICES ASSUME TypeOK, [Next]_vars PROVE TypeOK'
    OBVIOUS
  <2>1. ASSUME NEW r \in Requests, Start(r) PROVE TypeOK'
    BY <2>1, StartTypeOK
  <2>2. ASSUME NEW op \in pending, Answer(op) PROVE TypeOK'
    BY <2>2, AnswerTypeOK
  <2>3. CASE Restart
    BY <2>3 DEF Restart, TypeOK, QueueTypeOK
  <2>4. CASE UNCHANGED vars
    BY <2>4 DEF vars, TypeOK, QueueTypeOK
  <2> QED BY <2>1, <2>2, <2>3, <2>4 DEF Next
<1> QED BY <1>1, InitTypeOK, PTL DEF Spec

-----------------------------------------------------------------------------
(* The queue of QueueBoard.                                                *)

(* Whatever the handlers do around it, the queue is a BookingQueue.        *)
THEOREM BoardQueueIsBookingQueue == Spec => QueueSpec
<1>1. Init => QueueInit
  BY DEF Init
<1>2. TypeOK /\ [Next]_vars => [QueueNext]_queue
  <2> SUFFICES ASSUME TypeOK, [Next]_vars PROVE [QueueNext]_queue
    OBVIOUS
  <2>1. ASSUME NEW r \in Requests, Start(r) PROVE [QueueNext]_queue
    BY <2>1 DEF Start, AddItem, RemoveItem, HandleClosed, HandleOpened,
                HandleSync, HandleStatusChange, Uninstall, QueueNext
  <2>2. ASSUME NEW op \in pending, Answer(op) PROVE [QueueNext]_queue
    <3>1. CASE PulledClosed(op)
      <4>1. op.booking \in Booking
        BY <3>1, OperationFields DEF TypeOK, PulledClosed
      <4> QED BY <3>1, <4>1 DEF PulledClosed, QueueNext
    <3>2. CASE DroppedQueue(op)
      BY <3>2 DEF DroppedQueue, QueueNext
    <3>3. CASE UNCHANGED queue
      BY <3>3
    <3> QED BY <2>2, <3>1, <3>2, <3>3
            DEF Answer, FoundFirst, ToldFirst, FoundAll, FoundIndex, Located,
                CheckedHead, StoredStatus, LookedUp, Posted, PostFailed,
                Forgotten, DroppedInfos
  <2>3. CASE Restart
    BY <2>3 DEF Restart
  <2>4. CASE UNCHANGED vars
    BY <2>4 DEF vars
  <2> QED BY <2>1, <2>2, <2>3, <2>4 DEF Next
<1> QED BY <1>1, <1>2, TypeCorrect, PTL DEF Spec, QueueSpec

(* Hence no pull request is booked twice ...                               *)
COROLLARY BoardBookingsUnique == Spec => []UniqueBookings
BY BoardQueueIsBookingQueue, BookingsStayUnique, PTL

(* ... and no request, whatever it crosses, lets anybody overtake.         *)
COROLLARY BoardKeepsOrder == Spec => NobodyOvertakes
BY BoardQueueIsBookingQueue, NobodyEverOvertakes, PTL

LEMMA HeadAfterPull ==
  ASSUME NEW q \in Seq(Booking), NEW b, q # <<>>, Head(q) # b
  PROVE  Pull(q, b) # <<>> /\ Head(Pull(q, b)) = Head(q)
<1>1. Len(q) \in Nat \ {0} /\ Head(q) = q[1]
  BY EmptySeq
<1>2. Pull(q, b) \in Seq(Booking)
  BY PullProperties
<1>3. CASE Pull(q, b) = q
  BY <1>3
<1>4. ASSUME NEW k \in 1..Len(q),
             q[k] = b,
             Len(Pull(q, b)) = Len(q) - 1,
             \A j \in 1..(Len(q) - 1) :
               Pull(q, b)[j] = IF j < k THEN q[j] ELSE q[j + 1]
      PROVE  Pull(q, b) # <<>> /\ Head(Pull(q, b)) = Head(q)
  <2>1. k > 1
    BY <1>1, <1>4
  <2>2. Len(Pull(q, b)) > 0 /\ Pull(q, b)[1] = q[1]
    BY <1>1, <1>4, <2>1
  <2>3. Pull(q, b) # <<>>
    BY <2>2
  <2>4. Head(Pull(q, b)) = Pull(q, b)[1]
    BY <1>2, <2>3
  <2> QED BY <1>1, <2>2, <2>3, <2>4
<1> QED BY <1>3, <1>4, PullProperties

-----------------------------------------------------------------------------
(* The head of the queue is told.                                          *)

(* Operations that a step must not lose.                                   *)
Announces(op) == op.step \in {"findFirst", "tellFirst"}

(* Steps that leave the head alone and lose no announcement.               *)
LEMMA HeadKept ==
  ASSUME HeadIsTold, UNCHANGED <<queue, told>>,
         \A op \in pending : Announces(op) => op \in pending'
  PROVE  HeadIsTold'
BY DEF HeadIsTold, Announces

(* A removal, by hand or by closing.  The pull request of the booking it   *)
(* pulls is compared with the old head, so when the head leaves, the next  *)
(* one is looked up.                                                       *)
LEMMA HeadToldAfterPull ==
  ASSUME TypeOK, HeadIsTold,
         NEW r \in Requests, NEW b \in Booking,
         queue' = Pull(queue, b),
         told' = ToldAfterPull(b),
         AfterRemoval(r, b.pr) \subseteq pending',
         \A op \in pending : Announces(op) => op \in pending'
  PROVE  HeadIsTold'
<1>1. CASE queue = <<>>
  BY <1>1, PullProperties DEF HeadIsTold, Pull, ToSet
<1>2. CASE queue # <<>> /\ Head(queue) = b
  <2>1. FindFirst(r) \in pending'
    BY <1>2 DEF AfterRemoval, FirstItemChanged
  <2> QED BY <2>1 DEF HeadIsTold, FindFirst
<1>3. CASE queue # <<>> /\ Head(queue) # b
  <2>1. queue' # <<>> /\ Head(queue') = Head(queue)
    BY <1>3, HeadAfterPull DEF TypeOK, QueueTypeOK
  <2>2. told' = told
    BY <1>3 DEF ToldAfterPull, TypeOK
  <2> QED BY <1>3, <2>1, <2>2 DEF HeadIsTold, Announces
<1> QED BY <1>1, <1>2, <1>3

LEMMA HeadToldAfterStart ==
  ASSUME TypeOK, HeadIsTold, NEW r \in Requests, Start(r)
  PROVE  HeadIsTold'
<1>1. ASSUME NEW b \in Booking, AddItem(r, b) PROVE HeadIsTold'
  <2>1. queue \in Seq(Booking) /\ queue' = Append(queue, b)
    BY <1>1 DEF AddItem, Join, TypeOK, QueueTypeOK
  <2>2. CASE queue = <<>>
    <3>1. TellFirst(r, b) \in pending'
      BY <1>1, <2>2 DEF AddItem
    <3>2. Head(queue') = b
      BY <2>1, <2>2
    <3> QED BY <3>1, <3>2 DEF HeadIsTold, TellFirst
  <2>3. CASE queue # <<>>
    <3>1. Head(queue') = Head(queue)
      BY <2>1, <2>3
    <3>2. pending \subseteq pending' /\ told' = told
      BY <1>1 DEF AddItem
    <3> QED BY <2>3, <3>1, <3>2 DEF HeadIsTold
  <2> QED BY <2>2, <2>3
<1>2. ASSUME NEW b \in Booking, RemoveItem(r, b) PROVE HeadIsTold'
  BY <1>2, HeadToldAfterPull DEF RemoveItem, Leave
<1>3. ASSUME NEW pr \in PullRequests, NEW title \in {Merged, NotInQueue},
             HandleClosed(r, pr, title)
      PROVE  HeadIsTold'
  BY <1>3, HeadKept DEF HandleClosed
<1>4. ASSUME NEW pr \in PullRequests, NEW sha \in Shas,
             HandleOpened(r, pr, sha) \/ HandleSync(r, pr, sha)
      PROVE  HeadIsTold'
  BY <1>4, HeadKept DEF HandleOpened, HandleSync
<1>5. CASE Uninstall(r)
  BY <1>5, HeadKept DEF Uninstall
<1>6. ASSUME NEW pr \in PullRequests, HandleStatusChange(r, pr)
      PROVE  HeadIsTold'
  BY <1>6, HeadKept DEF HandleStatusChange
<1> QED BY <1>1, <1>2, <1>3, <1>4, <1>5, <1>6 DEF Start

LEMMA HeadToldAfterAnswer ==
  ASSUME TypeOK, HeadIsTold, NEW op \in pending, Answer(op)
  PROVE  HeadIsTold'
<1>1. CASE FoundFirst(op)
  <2>1. CASE queue = <<>>
    BY <1>1, <2>1 DEF FoundFirst, HeadIsTold
  <2>2. CASE queue # <<>>
    <3>1. TellFirst(op.req, Head(queue)) \in pending'
      BY <1>1, <2>2 DEF FoundFirst, Continue
    <3>2. queue' = queue
      BY <1>1 DEF FoundFirst
    <3> QED BY <3>1, <3>2 DEF HeadIsTold, TellFirst
  <2> QED BY <2>1, <2>2
<1>2. CASE ToldFirst(op)
  <2>1. CASE queue # <<>> /\ Head(queue) = op.booking
    BY <1>2, <2>1 DEF ToldFirst, HeadIsTold
  <2>2. CASE queue = <<>>
    BY <1>2, <2>2 DEF ToldFirst, HeadIsTold
  <2>3. CASE queue # <<>> /\ Head(queue) # op.booking
    <3>1. /\ queue' = queue
          /\ told' = told
          /\ pending' = pending \ {op}
          /\ op.step = "tellFirst"
      BY <1>2, <2>3 DEF ToldFirst, Continue, TypeOK
    <3> QED BY <2>3, <3>1 DEF HeadIsTold
  <2> QED BY <2>1, <2>2, <2>3
<1>3. CASE PulledClosed(op)
  <2>1. op.req \in Requests /\ op.booking \in Booking
    BY <1>3, OperationFields DEF PulledClosed, TypeOK
  <2>2. /\ queue' = Pull(queue, op.booking)
        /\ told' = ToldAfterPull(op.booking)
        /\ AfterRemoval(op.req, op.booking.pr) \subseteq pending'
        /\ \A o \in pending : Announces(o) => o \in pending'
    BY <1>3 DEF PulledClosed, Leave, Continue, Announces
  <2> QED BY <2>1, <2>2, HeadToldAfterPull
<1>4. CASE DroppedQueue(op)
  BY <1>4 DEF DroppedQueue, Clear, HeadIsTold
<1>5. CASE \/ FoundAll(op) \/ FoundIndex(op) \/ Located(op)
           \/ CheckedHead(op) \/ StoredStatus(op)
           \/ LookedUp(op) \/ Posted(op) \/ PostFailed(op)
           \/ Forgotten(op) \/ DroppedInfos(op)
  <2>1. /\ UNCHANGED <<queue, told>>
        /\ \A o \in pending : Announces(o) => o \in pending'
    BY <1>5 DEF FoundAll, FoundIndex, Located, CheckedHead, StoredStatus,
                LookedUp, Posted, PostFailed, Forgotten, DroppedInfos,
                Continue, Announces
  <2> QED BY <2>1, HeadKept
<1> QED BY <1>1, <1>2, <1>3, <1>4, <1>5 DEF Answer

(* As long as the process does not stop, no crossing of adds, removals and *)
(* closings loses the announcement of a new head.                          *)
THEOREM HeadAlwaysTold ==
  ASSUME "restart" \notin Workload
  PROVE  Spec => []HeadIsTold
<1>1. Init => HeadIsTold
  BY DEF Init, QueueInit, HeadIsTold
<1>2. TypeOK /\ HeadIsTold /\ [Next]_vars => HeadIsTold'
  <2> SUFFICES ASSUME TypeOK, HeadIsTold, [Next]_vars PROVE HeadIsTold'
    OBVIOUS
  <2>1. ASSUME NEW r \in Requests, Start(r) PROVE HeadIsTold'
    BY <2>1, HeadToldAfterStart
  <2>2. ASSUME NEW op \in pending, Answer(op) PROVE HeadIsTold'
    BY <2>2, HeadToldAfterAnswer
  <2>3. CASE UNCHANGED vars
    BY <2>3 DEF vars, HeadIsTold
  <2> QED BY <2>1, <2>2, <2>3 DEF Next, Restart
<1> QED BY <1>1, <1>2, TypeCorrect, PTL DEF Spec

-----------------------------------------------------------------------------
(* What handleClosed leaves behind.  ClosedIsGone speaks of the time after *)
(* handleClosed; the invariant that gives it says, while handleClosed      *)
(* runs, which of its steps will still remove what is left: a booking is   *)
(* still to be located, or the pull that is on its way names exactly the   *)
(* booking in the queue; a document with a head commit is still to be      *)
(* forgotten.                                                              *)

Unbooks(op, pr) ==
    \/ op.step = "locate" /\ op.pr = pr
    \/ /\ op.step = "pullClosed"
       /\ op.booking \in ToSet(queue)
       /\ op.booking.pr = pr

BookingWillGo ==
    closing # None /\ Holds(queue, closing) =>
      \E op \in pending : Unbooks(op, closing)

DocumentWillGo ==
    closing # None /\ info[closing] \in Shas =>
      \E op \in pending : Closes(op, closing)

(* Steps that keep the queue and the closed pull request, and the steps of *)
(* handleClosed that lead to the removal.                                  *)
LEMMA BookingKept ==
  ASSUME BookingWillGo, UNCHANGED queue, closing' \in {closing, None},
         \A op \in pending :
           op.step \in {"locate", "pullClosed"} => op \in pending'
  PROVE  BookingWillGo'
BY DEF BookingWillGo, Unbooks

LEMMA BookingGoneAfterPull ==
  ASSUME TypeOK, UniqueBookings, BookingWillGo, NEW b,
         queue' = Pull(queue, b), UNCHANGED closing,
         \A op \in pending : Unbooks(op, closing) =>
           op \in pending' \/ (op.step = "pullClosed" /\ op.booking = b)
  PROVE  BookingWillGo'
<1> SUFFICES ASSUME closing # None, Holds(queue', closing)
             PROVE  \E op \in pending' : Unbooks(op, closing)'
  BY DEF BookingWillGo
<1>1. queue \in Seq(Booking) /\ DOMAIN queue = 1..Len(queue)
  BY LenProperties DEF TypeOK, QueueTypeOK
<1>2. Holds(queue, closing)
  BY <1>1, PullAddsNothing
<1>3. PICK op \in pending : Unbooks(op, closing)
  BY <1>2 DEF BookingWillGo
<1>4. CASE op.step = "locate"
  BY <1>3, <1>4 DEF Unbooks
<1>5. CASE op.step = "pullClosed"
  <2>1. op.booking \in ToSet(queue) /\ op.booking.pr = closing
    BY <1>3, <1>5 DEF Unbooks
  <2>2. op.booking # b
    BY <1>1, <2>1, PullTakes DEF UniqueBookings
  <2>3. op.booking \in ToSet(queue')
    BY <1>1, <2>1, <2>2, PullSpares
  <2> QED BY <1>3, <1>5, <2>1, <2>2, <2>3 DEF Unbooks
<1> QED BY <1>3, <1>4, <1>5 DEF Unbooks

LEMMA BookingAfterStart ==
  ASSUME TypeOK, UniqueBookings, BookingWillGo, NEW r \in Requests, Start(r)
  PROVE  BookingWillGo'
<1>1. ASSUME NEW b \in Booking, AddItem(r, b) PROVE BookingWillGo'
  <2>1. /\ queue \in Seq(Booking)
        /\ queue' = Append(queue, b)
        /\ pending \subseteq pending'
        /\ closing' = ClosingUnlessAdded(b.pr)
    BY <1>1 DEF AddItem, Join, TypeOK, QueueTypeOK
  <2>2. CASE closing = b.pr
    <3>1. CASE \E op \in pending : op.step = "locate" /\ op.pr = b.pr
      BY <2>1, <2>2, <3>1 DEF ClosingUnlessAdded, BookingWillGo, Unbooks
    <3>2. CASE ~\E op \in pending : op.step = "locate" /\ op.pr = b.pr
      <4>1. closing' = None
        BY <2>1, <2>2, <3>2 DEF ClosingUnlessAdded
      <4> QED BY <4>1 DEF BookingWillGo
    <3> QED BY <3>1, <3>2
  <2>3. CASE closing # b.pr
    <3>1. Holds(queue', closing) => Holds(queue, closing)
      <4>1. Len(queue) \in Nat /\ DOMAIN queue = 1..Len(queue)
        BY <2>1, LenProperties
      <4>2. DOMAIN queue' = 1..(Len(queue) + 1)
        BY <2>1, AppendIsSeq, LenProperties
      <4> QED BY <2>1, <2>3, <4>1, <4>2, AppendIsSeq DEF Holds
    <3>2. ToSet(queue) \subseteq ToSet(queue')
      <4>1. DOMAIN queue = 1..Len(queue) /\ DOMAIN queue' = 1..(Len(queue) + 1)
        BY <2>1, AppendIsSeq, LenProperties
      <4>2. Len(queue) \in Nat
        BY <2>1, LenProperties
      <4> QED BY <2>1, <4>1, <4>2, AppendIsSeq DEF ToSet
    <3>3. closing' = closing
      BY <2>1, <2>3 DEF ClosingUnlessAdded
    <3> QED BY <2>1, <3>1, <3>2, <3>3 DEF BookingWillGo, Unbooks
  <2> QED BY <2>2, <2>3
<1>2. ASSUME NEW b \in Booking, RemoveItem(r, b) PROVE BookingWillGo'
  BY <1>2, BookingGoneAfterPull DEF RemoveItem, Leave
<1>3. ASSUME NEW pr \in PullRequests, NEW title \in {Merged, NotInQueue},
             HandleClosed(r, pr, title)
      PROVE  BookingWillGo'
  <2>1. Locate(r, pr, title) \in pending' /\ closing' = pr
    BY <1>3 DEF HandleClosed
  <2> QED BY <2>1 DEF BookingWillGo, Unbooks, Locate
<1>4. ASSUME NEW pr \in PullRequests, NEW sha \in Shas,
             HandleOpened(r, pr, sha) \/ HandleSync(r, pr, sha)
      PROVE  BookingWillGo'
  BY <1>4, BookingKept DEF HandleOpened, HandleSync, ClosingUnlessBack
<1>5. CASE Uninstall(r)
  BY <1>5, BookingKept DEF Uninstall
<1>6. ASSUME NEW pr \in PullRequests, HandleStatusChange(r, pr)
      PROVE  BookingWillGo'
  BY <1>6, BookingKept DEF HandleStatusChange
<1> QED BY <1>1, <1>2, <1>3, <1>4, <1>5, <1>6 DEF Start

LEMMA BookingAfterAnswer ==
  ASSUME TypeOK, UniqueBookings, BookingWillGo, NEW op \in pending, Answer(op)
  PROVE  BookingWillGo'
<1>1. CASE Located(op)
  <2> SUFFICES ASSUME closing # None, Holds(queue, closing)
               PROVE  \E o \in pending' : Unbooks(o, closing)'
    BY <1>1 DEF BookingWillGo, Located
  <2>1. UNCHANGED <<queue, closing>>
    BY <1>1 DEF Located
  <2>2. PICK o \in pending : Unbooks(o, closing)
    BY DEF BookingWillGo
  <2>3. CASE o # op
    BY <1>1, <2>1, <2>2, <2>3 DEF Located, Continue, Unbooks
  <2>4. CASE o = op
    <3>1. op.pr = closing
      BY <1>1, <2>2, <2>4 DEF Located, Unbooks
    <3>2. PullClosed(op.req, BookingOf(queue, closing), op.title) \in pending'
      BY <1>1, <3>1 DEF Located, Continue
    <3>3. /\ BookingOf(queue, closing) \in ToSet(queue)
          /\ BookingOf(queue, closing).pr = closing
      BY BookingOfType DEF TypeOK, QueueTypeOK
    <3> QED BY <2>1, <3>2, <3>3 DEF Unbooks, PullClosed
  <2> QED BY <2>3, <2>4
<1>2. CASE PulledClosed(op)
  BY <1>2, BookingGoneAfterPull DEF PulledClosed, Leave, Continue
<1>3. CASE DroppedQueue(op)
  BY <1>3 DEF DroppedQueue, Clear, BookingWillGo, Holds
<1>4. CASE \/ FoundFirst(op) \/ ToldFirst(op) \/ FoundAll(op) \/ FoundIndex(op)
           \/ CheckedHead(op) \/ StoredStatus(op)
           \/ LookedUp(op) \/ Posted(op) \/ PostFailed(op)
           \/ Forgotten(op) \/ DroppedInfos(op)
  <2>1. /\ UNCHANGED queue
        /\ closing' \in {closing, None}
        /\ \A o \in pending :
             o.step \in {"locate", "pullClosed"} => o \in pending'
    BY <1>4 DEF FoundFirst, ToldFirst, FoundAll, FoundIndex, CheckedHead,
                StoredStatus, LookedUp, Posted, PostFailed, Forgotten,
                DroppedInfos, Continue
  <2> QED BY <2>1, BookingKept
<1> QED BY <1>1, <1>2, <1>3, <1>4 DEF Answer

(* The document: a step of handleClosed is followed by another one until   *)
(* the document is gone, or ends where it has no head commit.              *)
LEMMA DocumentKept ==
  ASSUME DocumentWillGo, UNCHANGED info, closing' \in {closing, None},
         \A op \in pending : Closes(op, closing) /\ info[closing] \in Shas =>
           \E o \in pending' : Closes(o, closing)
  PROVE  DocumentWillGo'
BY DEF DocumentWillGo

LEMMA DocumentAfterStart ==
  ASSUME TypeOK, DocumentWillGo, NEW r \in Requests, Start(r)
  PROVE  DocumentWillGo'
<1>1. ASSUME NEW b \in Booking, AddItem(r, b) \/ RemoveItem(r, b)
      PROVE  DocumentWillGo'
  BY <1>1, DocumentKept DEF AddItem, RemoveItem, ClosingUnlessAdded
<1>2. ASSUME NEW pr \in PullRequests, NEW title \in {Merged, NotInQueue},
             HandleClosed(r, pr, title)
      PROVE  DocumentWillGo'
  <2>1. Locate(r, pr, title) \in pending' /\ closing' = pr
    BY <1>2 DEF HandleClosed
  <2> QED BY <2>1 DEF DocumentWillGo, Closes, Locate
<1>3. ASSUME NEW pr \in PullRequests, NEW sha \in Shas,
             HandleOpened(r, pr, sha) \/ HandleSync(r, pr, sha)
      PROVE  DocumentWillGo'
  <2>1. /\ info' = [info EXCEPT ![pr] = sha]
        /\ pending \subseteq pending'
        /\ closing' = ClosingUnlessBack(pr)
    BY <1>3 DEF HandleOpened, HandleSync, StoreInfo
  <2>2. CASE closing = pr
    <3>1. CASE \E op \in pending : Closes(op, pr)
      <4>1. closing' = pr
        BY <2>1, <2>2, <3>1 DEF ClosingUnlessBack
      <4> QED BY <2>1, <3>1, <4>1 DEF DocumentWillGo
    <3>2. CASE ~\E op \in pending : Closes(op, pr)
      <4>1. closing' = None
        BY <2>1, <2>2, <3>2 DEF ClosingUnlessBack
      <4> QED BY <4>1 DEF DocumentWillGo
    <3> QED BY <3>1, <3>2
  <2>3. CASE closing # pr
    <3>1. closing' = closing
      BY <2>1, <2>3 DEF ClosingUnlessBack
    <3>2. closing # None => info'[closing] = info[closing]
      BY <2>1, <2>3 DEF TypeOK
    <3> QED BY <2>1, <3>1, <3>2 DEF DocumentWillGo
  <2> QED BY <2>2, <2>3
<1>4. CASE Uninstall(r)
  BY <1>4, DocumentKept DEF Uninstall
<1>5. ASSUME NEW pr \in PullRequests, HandleStatusChange(r, pr)
      PROVE  DocumentWillGo'
  BY <1>5, DocumentKept DEF HandleStatusChange
<1> QED BY <1>1, <1>2, <1>3, <1>4, <1>5 DEF Start

LEMMA DocumentAfterAnswer ==
  ASSUME TypeOK, DocumentWillGo, NEW op \in pending, Answer(op)
  PROVE  DocumentWillGo'
<1>1. CASE Located(op) \/ PulledClosed(op)
  <2>1. UNCHANGED <<info, closing>> /\ pending \ {op} \subseteq pending'
    BY <1>1 DEF Located, PulledClosed, Continue
  <2>2. Closes(op, closing) => \E o \in pending' : Closes(o, closing)
    <3>1. CASE Located(op) /\ Holds(queue, op.pr)
      <4>1. PullClosed(op.req, BookingOf(queue, op.pr), op.title) \in pending'
        BY <3>1 DEF Located, Continue
      <4>2. BookingOf(queue, op.pr).pr = op.pr
        BY <3>1, BookingOfType DEF TypeOK, QueueTypeOK
      <4> QED BY <3>1, <4>1, <4>2 DEF Closes, PullClosed, Located
    <3>2. CASE Located(op) /\ ~Holds(queue, op.pr)
      <4>1. LookUp(op.req, op.pr, op.title, TRUE) \in pending'
        BY <3>2 DEF Located, Continue
      <4> QED BY <3>2, <4>1 DEF Closes, LookUp, Located
    <3>3. CASE PulledClosed(op)
      <4>1. LookUp(op.req, op.booking.pr, op.title, TRUE) \in pending'
        BY <3>3 DEF PulledClosed, Continue
      <4> QED BY <3>3, <4>1 DEF Closes, LookUp, PulledClosed
    <3> QED BY <1>1, <3>1, <3>2, <3>3
  <2> QED BY <2>1, <2>2, DocumentKept
<1>2. CASE LookedUp(op) \/ Posted(op)
  <2>1. UNCHANGED <<info, closing>> /\ pending \ {op} \subseteq pending'
    BY <1>2 DEF LookedUp, Posted, Continue
  <2>2. Closes(op, closing) /\ info[closing] \in Shas =>
          \E o \in pending' : Closes(o, closing)
    <3> SUFFICES ASSUME Closes(op, closing), info[closing] \in Shas
                 PROVE  \E o \in pending' : Closes(o, closing)
      OBVIOUS
    <3>1. op.pr = closing /\ op.last
      BY <1>2 DEF Closes, LookedUp, Posted
    <3>2. CASE Forget(op.req, op.pr) \in pending'
      BY <3>1, <3>2 DEF Closes, Forget
    <3>3. CASE Post(op.req, op.pr, op.title, op.last, info[op.pr]) \in pending'
      BY <3>1, <3>3 DEF Closes, Post
    <3>4. ASSUME LookedUp(op)
          PROVE  Post(op.req, op.pr, op.title, op.last, info[op.pr]) \in pending'
      <4>1. op \in Operation
        BY DEF TypeOK
      <4> QED BY <3>1, <3>4, <4>1, LookUpLeadsTo DEF Continue
    <3>5. Posted(op) => Forget(op.req, op.pr) \in pending'
      BY <3>1 DEF Posted, Continue, AfterPost
    <3> QED BY <1>2, <3>2, <3>3, <3>4, <3>5
  <2> QED BY <2>1, <2>2, DocumentKept
<1>3. CASE PostFailed(op)
  <2>1. UNCHANGED info /\ pending \ {op} \subseteq pending'
    BY <1>3 DEF PostFailed, Continue
  <2>2. CASE op.last /\ closing = op.pr
    <3>1. CASE closing' = None
      BY <3>1 DEF DocumentWillGo
    <3>2. CASE closing' # None
      <4>1. Forget(op.req, op.pr) \in pending' /\ closing' = closing
        BY <1>3, <2>2, <3>2 DEF PostFailed, Continue, AfterPost
      <4> QED BY <2>2, <4>1 DEF DocumentWillGo, Closes, Forget
    <3> QED BY <3>1, <3>2
  <2>3. CASE ~(op.last /\ closing = op.pr)
    <3>1. closing' = closing /\ ~Closes(op, closing)
      BY <1>3, <2>3 DEF PostFailed, Closes
    <3> QED BY <2>1, <3>1, DocumentKept
  <2> QED BY <2>2, <2>3
<1>4. CASE Forgotten(op)
  <2>1. /\ UNCHANGED closing
        /\ info' = [info EXCEPT ![op.pr] = NoInfo]
        /\ pending' = pending \ {op}
    BY <1>4 DEF Forgotten, Continue
  <2>2. CASE closing = op.pr
    BY <2>1, <2>2, BoardAssumption DEF DocumentWillGo, TypeOK
  <2>3. CASE closing # op.pr
    <3>1. ~Closes(op, closing)
      BY <1>4, <2>3 DEF Forgotten, Closes
    <3>2. closing # None => info'[closing] = info[closing]
      BY <2>1, <2>3 DEF TypeOK
    <3> QED BY <2>1, <3>1, <3>2 DEF DocumentWillGo
  <2> QED BY <2>2, <2>3
<1>5. CASE DroppedInfos(op)
  BY <1>5, BoardAssumption DEF DroppedInfos, DocumentWillGo, TypeOK
<1>6. CASE \/ FoundFirst(op) \/ ToldFirst(op) \/ FoundAll(op) \/ FoundIndex(op)
           \/ CheckedHead(op) \/ DroppedQueue(op)
  <2>1. /\ UNCHANGED <<info, closing>>
        /\ \A o \in pending : Closes(o, closing) => o \in pending'
    BY <1>6 DEF FoundFirst, ToldFirst, FoundAll, FoundIndex, CheckedHead,
                DroppedQueue, Continue, Closes
  <2> QED BY <2>1, DocumentKept
<1>7. CASE StoredStatus(op)
  <2>1. /\ UNCHANGED closing
        /\ \A o \in pending : Closes(o, closing) => o \in pending'
    BY <1>7 DEF StoredStatus, Continue, Closes
  <2>2. closing # None /\ info'[closing] \in Shas => info[closing] \in Shas
    BY <1>7, BoardAssumption DEF StoredStatus, TypeOK
  <2> QED BY <2>1, <2>2 DEF DocumentWillGo
<1> QED BY <1>1, <1>2, <1>3, <1>4, <1>5, <1>6, <1>7 DEF Answer

(* Once handleClosed is done, a closed pull request is not in the queue    *)
(* and no document has its head commit, whatever adds, removals, status    *)
(* and other webhooks of the same pull request ran meanwhile.  An add      *)
(* after getItem looked, a check run that cannot be created, a restart and *)
(* a webhook after the deletion are what ends the closing otherwise, as    *)
(* AddItem, PostFailed, Restart and ClosingUnlessBack say.                 *)
THEOREM ClosedAlwaysGone == Spec => []ClosedIsGone
<1>1. Init => BookingWillGo /\ DocumentWillGo
  BY DEF Init, BookingWillGo, DocumentWillGo
<1>2. /\ TypeOK /\ UniqueBookings /\ BookingWillGo /\ DocumentWillGo
      /\ [Next]_vars
      => BookingWillGo' /\ DocumentWillGo'
  <2> SUFFICES ASSUME TypeOK, UniqueBookings, BookingWillGo, DocumentWillGo,
                      [Next]_vars
               PROVE  BookingWillGo' /\ DocumentWillGo'
    OBVIOUS
  <2>1. ASSUME NEW r \in Requests, Start(r)
        PROVE  BookingWillGo' /\ DocumentWillGo'
    BY <2>1, BookingAfterStart, DocumentAfterStart
  <2>2. ASSUME NEW op \in pending, Answer(op)
        PROVE  BookingWillGo' /\ DocumentWillGo'
    BY <2>2, BookingAfterAnswer, DocumentAfterAnswer
  <2>3. CASE Restart
    BY <2>3 DEF Restart, BookingWillGo, DocumentWillGo
  <2>4. CASE UNCHANGED vars
    BY <2>4 DEF vars, BookingWillGo, DocumentWillGo, Unbooks
  <2> QED BY <2>1, <2>2, <2>3, <2>4 DEF Next
<1>3. BookingWillGo /\ DocumentWillGo => ClosedIsGone
  BY DEF BookingWillGo, DocumentWillGo, ClosedIsGone, Unbooks, Closes
<1> QED BY <1>1, <1>2, <1>3, TypeCorrect, BoardBookingsUnique, PTL DEF Spec

-----------------------------------------------------------------------------
(* An undisturbed removal repairs the titles.  Whatever could disturb it   *)
(* sets solo to None, so what is left to look at is the removal itself:    *)
(* which operations it waits for, and which titles they still have to      *)
(* post.                                                                   *)

(* The removal gives pr this title.                                        *)
Wants(pr, title) ==
    \/ pr = solo /\ title = NotInQueue
    \/ \E i \in DOMAIN queue :
         /\ i <= MaxReported + 1
         /\ queue[i].pr = pr
         /\ title = TitleAt(i - 1)

(* op is an operation of the removal, and a title it posts is right.       *)
Repairs(op) ==
    \/ op.step \in {"findFirst", "tellFirst", "findAll"}
    \/ /\ op.step \in {"lookUp", "post"}
       /\ ~op.last
       /\ Wants(op.pr, op.title)
       /\ op.step = "post" => op.sha = info[op.pr]

(* op will give pr its title.                                              *)
Reaches(op, pr) ==
    \/ op.step = "findAll" /\ pr # solo
    \/ op.step \in {"lookUp", "post"} /\ op.pr = pr

OnlyTheRemoval ==
    solo # None => /\ ~Holds(queue, solo)
                   /\ \A op \in pending : Repairs(op)

TitlesWillShow ==
    solo # None =>
      \A pr \in PullRequests, title \in Title :
        Wants(pr, title) /\ info[pr] \in Shas =>
          ShownTitle(pr) = title \/ \E op \in pending : Reaches(op, pr)

RemovalInv == OnlyTheRemoval /\ TitlesWillShow

(* There is only one title for a pull request.                             *)
LEMMA WantsOne ==
  ASSUME UniqueBookings, ~Holds(queue, solo), NEW pr, NEW title, NEW other,
         Wants(pr, title), Wants(pr, other)
  PROVE  title = other
<1>1. CASE pr = solo
  BY <1>1 DEF Wants, Holds
<1>2. CASE pr # solo
  <2>1. PICK i \in DOMAIN queue : queue[i].pr = pr /\ title = TitleAt(i - 1)
    BY <1>2 DEF Wants
  <2>2. PICK j \in DOMAIN queue : queue[j].pr = pr /\ other = TitleAt(j - 1)
    BY <1>2 DEF Wants
  <2>3. i = j
    BY <2>1, <2>2 DEF UniqueBookings
  <2> QED BY <2>1, <2>2, <2>3
<1> QED BY <1>1, <1>2

(* A removal that starts while nothing runs has everything before it.      *)
LEMMA RemovalStarts ==
  ASSUME NEW r \in Requests, NEW b \in Booking, RemoveItem(r, b)
  PROVE  RemovalInv'
<1> SUFFICES ASSUME solo' # None PROVE RemovalInv'
  BY DEF RemovalInv, OnlyTheRemoval, TitlesWillShow
<1>1. /\ pending = {}
      /\ solo' = b.pr
      /\ ~Holds(queue', solo')
  BY DEF RemoveItem
<1>2. /\ FindAll(r) \in pending'
      /\ LookUp(r, b.pr, NotInQueue, FALSE) \in pending'
      /\ pending' \subseteq {FindAll(r), FindFirst(r),
                            LookUp(r, b.pr, NotInQueue, FALSE)}
  BY <1>1 DEF RemoveItem, AfterRemoval
<1>3. OnlyTheRemoval'
  <2>1. Repairs(FindAll(r))' /\ Repairs(FindFirst(r))'
    BY DEF Repairs, FindAll, FindFirst
  <2>2. Repairs(LookUp(r, b.pr, NotInQueue, FALSE))'
    BY <1>1 DEF Repairs, LookUp, Wants
  <2> QED BY <1>1, <1>2, <2>1, <2>2 DEF OnlyTheRemoval
<1>4. ASSUME NEW pr \in PullRequests PROVE \E op \in pending' : Reaches(op, pr)'
  <2>1. CASE pr = b.pr
    BY <1>2, <2>1 DEF Reaches, LookUp
  <2>2. CASE pr # b.pr
    BY <1>1, <1>2, <2>2 DEF Reaches, FindAll
  <2> QED BY <2>1, <2>2
<1> QED BY <1>3, <1>4 DEF RemovalInv, TitlesWillShow

LEMMA RemovalAfterStart ==
  ASSUME NEW r \in Requests, Start(r)
  PROVE  RemovalInv'
<1>1. ASSUME NEW b \in Booking, RemoveItem(r, b) PROVE RemovalInv'
  BY <1>1, RemovalStarts
<1>2. CASE solo' = None
  BY <1>2 DEF RemovalInv, OnlyTheRemoval, TitlesWillShow
<1> QED
  BY <1>1, <1>2 DEF Start, AddItem, HandleClosed, HandleOpened, HandleSync,
                    HandleStatusChange, Uninstall

(* An answer to a read of the queue.                                       *)
LEMMA RemovalAfterRead ==
  ASSUME TypeOK, RemovalInv, solo # None, NEW op \in pending,
         FoundFirst(op) \/ ToldFirst(op) \/ FoundAll(op)
  PROVE  RemovalInv'
<1>1. UNCHANGED <<queue, info, checkRun, solo>>
  BY DEF FoundFirst, ToldFirst, FoundAll
<1>2. \A o : Repairs(o)' = Repairs(o)
  BY <1>1 DEF Repairs, Wants
<1>3. \A pr, title : Wants(pr, title)' = Wants(pr, title)
  BY <1>1 DEF Wants
<1>4. \A pr : ShownTitle(pr)' = ShownTitle(pr)
  BY <1>1 DEF ShownTitle
<1>5. \A o, pr : Reaches(o, pr)' = Reaches(o, pr)
  BY <1>1 DEF Reaches
<1>6. CASE FoundAll(op)
  <2>1. /\ op.step = "findAll"
        /\ pending' = (pending \ {op}) \cup
             {LookUp(op.req, queue[i].pr, TitleAt(i - 1), FALSE) :
                i \in {j \in DOMAIN queue : j <= MaxReported + 1}}
    BY <1>6 DEF FoundAll, Continue
  <2>2. ASSUME NEW i \in DOMAIN queue, i <= MaxReported + 1
        PROVE  Repairs(LookUp(op.req, queue[i].pr, TitleAt(i - 1), FALSE))
    <3>1. Wants(queue[i].pr, TitleAt(i - 1))
      BY <2>2 DEF Wants
    <3> QED BY <3>1 DEF Repairs, LookUp
  <2>3. OnlyTheRemoval'
    BY <1>1, <1>2, <2>1, <2>2 DEF RemovalInv, OnlyTheRemoval
  <2>4. ASSUME NEW pr \in PullRequests, NEW title \in Title,
               Wants(pr, title), info[pr] \in Shas
        PROVE  ShownTitle(pr) = title \/ \E o \in pending' : Reaches(o, pr)
    <3>1. CASE pr = solo
      <4>1. ~Reaches(op, pr)
        BY <2>1, <3>1 DEF Reaches
      <4> QED BY <2>1, <2>4, <4>1 DEF RemovalInv, TitlesWillShow
    <3>2. CASE pr # solo
      <4>1. PICK i \in DOMAIN queue : i <= MaxReported + 1 /\ queue[i].pr = pr
        BY <2>4, <3>2 DEF Wants
      <4>2. LookUp(op.req, queue[i].pr, TitleAt(i - 1), FALSE) \in pending'
        BY <2>1, <4>1
      <4> QED BY <4>1, <4>2 DEF Reaches, LookUp
    <3> QED BY <3>1, <3>2
  <2>5. TitlesWillShow'
    BY <1>1, <1>3, <1>4, <1>5, <2>4 DEF TitlesWillShow
  <2> QED BY <2>3, <2>5 DEF RemovalInv
<1>7. CASE FoundFirst(op) \/ ToldFirst(op)
  <2>1. /\ op.step \in {"findFirst", "tellFirst"}
        /\ pending \ {op} \subseteq pending'
        /\ \A o \in pending' : o \in pending \/ o.step = "tellFirst"
    BY <1>7 DEF FoundFirst, ToldFirst, Continue, TellFirst
  <2>2. OnlyTheRemoval'
    BY <1>1, <1>2, <2>1 DEF RemovalInv, OnlyTheRemoval, Repairs
  <2>3. \A pr : ~Reaches(op, pr)
    BY <2>1 DEF Reaches
  <2>4. TitlesWillShow'
    BY <1>1, <1>3, <1>4, <1>5, <2>1, <2>3 DEF RemovalInv, TitlesWillShow
  <2> QED BY <2>2, <2>4 DEF RemovalInv
<1> QED BY <1>6, <1>7

(* A title is posted to the commit of the document, or has no document to  *)
(* find one in.                                                            *)
LEMMA RemovalAfterLookUp ==
  ASSUME TypeOK, RemovalInv, solo # None, NEW op \in pending, LookedUp(op)
  PROVE  RemovalInv'
<1>1. UNCHANGED <<queue, info, checkRun, solo>> /\ op.step = "lookUp"
  BY DEF LookedUp
<1>2. ~op.last /\ Wants(op.pr, op.title)
  BY <1>1 DEF RemovalInv, OnlyTheRemoval, Repairs
<1>3. \A o : Repairs(o)' = Repairs(o)
  BY <1>1 DEF Repairs, Wants
<1>4. \A pr, title : Wants(pr, title)' = Wants(pr, title)
  BY <1>1 DEF Wants
<1>5. \A pr : ShownTitle(pr)' = ShownTitle(pr)
  BY <1>1 DEF ShownTitle
<1>6. \A o, pr : Reaches(o, pr)' = Reaches(o, pr)
  BY <1>1 DEF Reaches
<1>7. CASE info[op.pr] \notin Shas
  <2>1. Continue(op, {}) \/ Continue(op, AfterPost(op))
    BY <1>7, LookUpLeadsTo DEF TypeOK
  <2>2. pending' = pending \ {op}
    BY <1>2, <2>1 DEF Continue, AfterPost
  <2>3. \A pr : info[pr] \in Shas => ~Reaches(op, pr)
    BY <1>1, <1>7 DEF Reaches
  <2> QED
    BY <1>1, <1>3, <1>4, <1>5, <1>6, <2>2, <2>3
       DEF RemovalInv, OnlyTheRemoval, TitlesWillShow
<1>8. CASE info[op.pr] \in Shas
  <2> DEFINE post == Post(op.req, op.pr, op.title, op.last, info[op.pr])
  <2>1. pending' = (pending \ {op}) \cup {post}
    BY <1>8, LookUpLeadsTo DEF Continue, TypeOK
  <2>2. Repairs(post)
    BY <1>2 DEF Repairs, Post
  <2>3. \A pr : Reaches(op, pr) => Reaches(post, pr)
    BY <1>1 DEF Reaches, Post
  <2> HIDE DEF post
  <2> QED
    BY <1>1, <1>3, <1>4, <1>5, <1>6, <2>1, <2>2, <2>3
       DEF RemovalInv, OnlyTheRemoval, TitlesWillShow
<1> QED BY <1>7, <1>8

LEMMA RemovalAfterPost ==
  ASSUME TypeOK, UniqueBookings, RemovalInv, solo # None, NEW op \in pending,
         Posted(op)
  PROVE  RemovalInv'
<1>1. /\ UNCHANGED <<queue, info, solo>>
      /\ op.step = "post"
      /\ checkRun' = [checkRun EXCEPT ![op.pr][op.sha] = op.title]
  BY DEF Posted
<1>2. /\ ~op.last
      /\ Wants(op.pr, op.title)
      /\ op.sha = info[op.pr]
  BY <1>1 DEF RemovalInv, OnlyTheRemoval, Repairs
<1>3. op.pr \in PullRequests /\ op.sha \in Shas
  BY <1>1, OperationFields DEF TypeOK
<1>4. pending' = pending \ {op}
  BY <1>2 DEF Posted, Continue, AfterPost
<1>5. \A o : Repairs(o)' = Repairs(o)
  BY <1>1 DEF Repairs, Wants
<1>6. \A pr, title : Wants(pr, title)' = Wants(pr, title)
  BY <1>1 DEF Wants
<1>7. \A o, pr : Reaches(o, pr)' = Reaches(o, pr)
  BY <1>1 DEF Reaches
<1>8. OnlyTheRemoval'
  BY <1>1, <1>4, <1>5 DEF RemovalInv, OnlyTheRemoval
<1>9. ASSUME NEW pr \in PullRequests, NEW title \in Title,
             Wants(pr, title), info[pr] \in Shas
      PROVE  ShownTitle(pr)' = title \/ \E o \in pending' : Reaches(o, pr)
  <2>1. CASE pr = op.pr
    <3>1. title = op.title
      BY <1>2, <1>9, <2>1, WantsOne DEF RemovalInv, OnlyTheRemoval
    <3>2. ShownTitle(pr)' = op.title
      BY <1>1, <1>2, <1>3, <2>1 DEF ShownTitle, TypeOK
    <3> QED BY <3>1, <3>2
  <2>2. CASE pr # op.pr
    <3>1. ShownTitle(pr)' = ShownTitle(pr)
      BY <1>1, <1>3, <2>2 DEF ShownTitle, TypeOK
    <3>2. ~Reaches(op, pr)
      BY <1>1, <2>2 DEF Reaches
    <3> QED BY <1>4, <1>9, <3>1, <3>2 DEF RemovalInv, TitlesWillShow
  <2> QED BY <2>1, <2>2
<1>10. TitlesWillShow'
  BY <1>1, <1>6, <1>7, <1>9 DEF TitlesWillShow
<1> QED BY <1>8, <1>10 DEF RemovalInv

(* The other answers belong to requests that are not the removal, and a    *)
(* failure of GitHub disturbs it.                                          *)
LEMMA RemovalAfterAnswer ==
  ASSUME TypeOK, UniqueBookings, RemovalInv, NEW op \in pending, Answer(op)
  PROVE  RemovalInv'
<1>1. CASE solo = None
  <2>1. solo' = None
    BY <1>1 DEF Answer, FoundFirst, ToldFirst, FoundAll, FoundIndex, Located,
                PulledClosed, CheckedHead, StoredStatus, LookedUp, Posted,
                PostFailed, Forgotten, DroppedQueue, DroppedInfos
  <2> QED BY <2>1 DEF RemovalInv, OnlyTheRemoval, TitlesWillShow
<1>2. CASE solo # None
  <2>1. op.step \in {"findFirst", "tellFirst", "findAll", "lookUp", "post"}
    BY <1>2 DEF RemovalInv, OnlyTheRemoval, Repairs
  <2>2. CASE FoundFirst(op) \/ ToldFirst(op) \/ FoundAll(op)
    BY <1>2, <2>2, RemovalAfterRead
  <2>3. CASE LookedUp(op)
    BY <1>2, <2>3, RemovalAfterLookUp
  <2>4. CASE Posted(op)
    BY <1>2, <2>4, RemovalAfterPost
  <2>5. CASE PostFailed(op)
    BY <2>5 DEF PostFailed, RemovalInv, OnlyTheRemoval, TitlesWillShow
  <2> QED
    BY <2>1, <2>2, <2>3, <2>4, <2>5
       DEF Answer, FoundIndex, Located, PulledClosed, CheckedHead,
           StoredStatus, Forgotten, DroppedQueue, DroppedInfos
<1> QED BY <1>1, <1>2

(* When a removal that nothing disturbed is done, the first                *)
(* MaxReported + 1 bookings show their places and the removed pull request *)
(* is blocked, whatever wrong titles races, failures and restarts left     *)
(* before it.                                                              *)
THEOREM RemovalAlwaysRepairs == Spec => []RemovalRepairs
<1>1. Init => RemovalInv
  BY DEF Init, RemovalInv, OnlyTheRemoval, TitlesWillShow
<1>2. TypeOK /\ UniqueBookings /\ RemovalInv /\ [Next]_vars => RemovalInv'
  <2> SUFFICES ASSUME TypeOK, UniqueBookings, RemovalInv, [Next]_vars
               PROVE  RemovalInv'
    OBVIOUS
  <2>1. ASSUME NEW r \in Requests, Start(r) PROVE RemovalInv'
    BY <2>1, RemovalAfterStart
  <2>2. ASSUME NEW op \in pending, Answer(op) PROVE RemovalInv'
    BY <2>2, RemovalAfterAnswer
  <2>3. CASE Restart
    BY <2>3 DEF Restart, RemovalInv, OnlyTheRemoval, TitlesWillShow
  <2>4. CASE UNCHANGED vars
    BY <2>4 DEF vars, RemovalInv, OnlyTheRemoval, TitlesWillShow, Repairs,
                Wants, Reaches, ShownTitle
  <2> QED BY <2>1, <2>2, <2>3, <2>4 DEF Next
<1>3. TypeOK /\ RemovalInv => RemovalRepairs
  <2> SUFFICES ASSUME TypeOK, RemovalInv, solo # None, pending = {}
               PROVE  /\ \A i \in DOMAIN queue :
                           i <= MaxReported + 1 /\ info[queue[i].pr] \in Shas =>
                             ShownTitle(queue[i].pr) = TitleAt(i - 1)
                      /\ info[solo] \in Shas => ShownTitle(solo) = NotInQueue
    BY DEF RemovalRepairs
  <2>1. ASSUME NEW i \in DOMAIN queue, i <= MaxReported + 1,
               info[queue[i].pr] \in Shas
        PROVE  ShownTitle(queue[i].pr) = TitleAt(i - 1)
    <3>1. queue[i].pr \in PullRequests /\ i - 1 \in Int
      <4>1. i \in 1..Len(queue) /\ queue[i] \in Booking
        BY <2>1, LenProperties, ElementOfSeq DEF TypeOK, QueueTypeOK
      <4> QED BY <4>1, LenProperties DEF Booking, TypeOK, QueueTypeOK
    <3>2. TitleAt(i - 1) \in Title
      BY <3>1, TitleAtType
    <3>3. Wants(queue[i].pr, TitleAt(i - 1))
      BY <2>1 DEF Wants
    <3> QED BY <2>1, <3>1, <3>2, <3>3 DEF RemovalInv, TitlesWillShow
  <2>2. info[solo] \in Shas => ShownTitle(solo) = NotInQueue
    <3>1. solo \in PullRequests /\ NotInQueue \in Title
      BY DEF TypeOK, Title
    <3>2. Wants(solo, NotInQueue)
      BY DEF Wants
    <3> QED BY <3>1, <3>2 DEF RemovalInv, TitlesWillShow
  <2> QED BY <2>1, <2>2
<1> QED BY <1>1, <1>2, <1>3, TypeCorrect, BoardBookingsUnique, PTL DEF Spec

-----------------------------------------------------------------------------
(* When requests run one at a time the board is right whenever none runs.  *)
(* The same two halves as above, now for every request: what is posted is  *)
(* right, or handleClosed posts it on its way to forget the document, and  *)
(* a title that is not shown yet is still to be posted.                    *)

Serial ==
    /\ \A r, s \in Requests : r = s
    /\ Workload \cap {"foreignRemove", "lateOpened", "githubFails", "restart"}
         = {}

(* The title of a pull request in the queue as it is.                      *)
Due(pr) == TitleAt(Position(queue, pr) - 1)

Drops(op) == op.step \in {"dropQueue", "dropInfos"}

(* op is at its place: the operations that take bookings run alone, and a  *)
(* title is right for as long as it is pending.                            *)
Sound(op) ==
    /\ op.step \in {"locate", "pullClosed"} => pending = {op}
    /\ op.step = "pullClosed" => op.booking \in ToSet(queue)
    /\ Drops(op) => \A o \in pending : Drops(o)
    /\ op.step = "dropQueue" =>
         \/ \A pr \in PullRequests : info[pr] \notin Shas
         \/ \E o \in pending : o.step = "dropInfos"
    /\ op.step \in {"lookUp", "post"} => op.last \/ op.title = Due(op.pr)
    /\ op.step = "post" /\ info[op.pr] \in Shas => op.sha = info[op.pr]

(* op leads to the title of pr, or to the end of its document.             *)
Fixes(op, pr) ==
    \/ op.step = "dropInfos"
    \/ op.step = "findAll" /\ Position(queue, pr) \in 1..(MaxReported + 1)
    \/ /\ op.step \in {"findIndex", "locate", "forget", "lookUp", "post"}
       /\ op.pr = pr
    \/ op.step = "pullClosed" /\ op.booking.pr = pr

AllSound == \A op \in pending : Sound(op)

Covered(pr) ==
    info[pr] \in Shas => ShownTitle(pr) = Due(pr) \/ \E op \in pending : Fixes(op, pr)

SerialInv == AllSound /\ \A pr \in PullRequests : Covered(pr)

LEMMA PositionIs ==
  ASSUME NEW q \in Seq(Booking), NEW i \in 1..Len(q),
         \A m, n \in DOMAIN q : q[m].pr = q[n].pr => m = n
  PROVE  Position(q, q[i].pr) = i
<1>1. DOMAIN q = 1..Len(q)
  BY LenProperties
<1> QED BY <1>1 DEF Position, Holds

LEMMA PositionHeld ==
  ASSUME NEW q \in Seq(Booking), NEW pr, Position(q, pr) # 0
  PROVE  /\ Position(q, pr) \in 1..Len(q)
         /\ q[Position(q, pr)].pr = pr
<1>1. DOMAIN q = 1..Len(q)
  BY LenProperties
<1> QED BY <1>1 DEF Position, Holds

LEMMA DueUnqueued ==
  ASSUME NEW pr, ~Holds(queue, pr)
  PROVE  Due(pr) = NotInQueue
BY DEF Due, Position, TitleAt

(* A booking that joins changes the place of no other pull request.        *)
LEMMA DueAfterJoin ==
  ASSUME TypeOK, UniqueBookings, NEW b \in Booking, Join(b)
  PROVE  /\ TitleAt(Len(queue)) = Due(b.pr)'
         /\ \A pr : pr # b.pr => Due(pr)' = Due(pr)
<1>1. /\ queue \in Seq(Booking)
      /\ queue' = Append(queue, b)
      /\ ~Holds(queue, b.pr)
  BY DEF TypeOK, QueueTypeOK, Join
<1>2. /\ Len(queue) \in Nat
      /\ DOMAIN queue = 1..Len(queue)
      /\ queue' \in Seq(Booking)
      /\ Len(queue') = Len(queue) + 1
      /\ \A i \in 1..Len(queue) : queue'[i] = queue[i]
      /\ queue'[Len(queue) + 1] = b
  BY <1>1, LenProperties, AppendIsSeq
<1>3. DOMAIN queue' = 1..(Len(queue) + 1)
  BY <1>2, LenProperties
<1>4. \A m, n \in DOMAIN queue' : queue'[m].pr = queue'[n].pr => m = n
  <2>1. \A i \in 1..Len(queue) : queue[i].pr # b.pr
    BY <1>1, <1>2 DEF Holds
  <2>2. \A i, j \in 1..Len(queue) : queue[i].pr = queue[j].pr => i = j
    BY <1>2 DEF UniqueBookings
  <2>3. \A m, n \in 1..Len(queue') : queue'[m].pr = queue'[n].pr => m = n
    BY <1>1, <2>1, <2>2, AppendKeepsUnique
  <2> QED BY <1>2, <1>3, <2>3
<1>5. Position(queue', b.pr) = Len(queue) + 1
  <2>1. Len(queue) + 1 \in 1..Len(queue')
    BY <1>2
  <2>2. Position(queue', queue'[Len(queue) + 1].pr) = Len(queue) + 1
    BY <1>2, <1>4, <2>1, PositionIs
  <2> QED BY <1>2, <2>2
<1>6. ASSUME NEW pr, pr # b.pr PROVE Position(queue', pr) = Position(queue, pr)
  <2>1. CASE Holds(queue, pr)
    <3>1. PICK i \in 1..Len(queue) : queue[i].pr = pr
      BY <1>2, <2>1 DEF Holds
    <3>2. Position(queue, pr) = i
      BY <1>1, <3>1, PositionIs DEF UniqueBookings
    <3>3. i \in 1..Len(queue') /\ queue'[i].pr = pr
      BY <1>2, <3>1
    <3>4. Position(queue', pr) = i
      BY <1>2, <1>4, <3>3, PositionIs
    <3> QED BY <3>2, <3>4
  <2>2. CASE ~Holds(queue, pr)
    <3>1. ~Holds(queue', pr)
      BY <1>2, <1>3, <1>6, <2>2 DEF Holds
    <3> QED BY <2>2, <3>1 DEF Position
  <2> QED BY <2>1, <2>2
<1>7. (Len(queue) + 1) - 1 = Len(queue)
  BY <1>2
<1> QED BY <1>5, <1>6, <1>7 DEF Due

(* A booking that leaves moves those behind it up by one: the title of     *)
(* whoever stays behind MaxReported is the same, the others are visited.   *)
LEMMA DueAfterPull ==
  ASSUME TypeOK, UniqueBookings, NEW b, queue' = Pull(queue, b),
         NEW pr, pr # b.pr
  PROVE  Due(pr)' = Due(pr) \/ Position(queue', pr) \in 1..(MaxReported + 1)
<1>1. /\ queue \in Seq(Booking)
      /\ queue' \in Seq(Booking)
      /\ Len(queue) \in Nat
      /\ DOMAIN queue = 1..Len(queue)
      /\ DOMAIN queue' = 1..Len(queue')
      /\ MaxReported \in Nat
  BY PullProperties, LenProperties, BoardAssumption DEF TypeOK, QueueTypeOK
<1>2. \A i, j \in 1..Len(queue) : queue[i].pr = queue[j].pr => i = j
  BY <1>1 DEF UniqueBookings
<1>3. CASE queue' = queue
  BY <1>3 DEF Due
<1>4. CASE Position(queue', pr) = 0
  <2>1. ~Holds(queue', pr)
    BY <1>1, <1>4 DEF Position, Holds
  <2>2. ~Holds(queue, pr)
    <3> SUFFICES ASSUME Holds(queue, pr) PROVE FALSE
      OBVIOUS
    <3>1. PICK i \in 1..Len(queue) : queue[i].pr = pr
      BY <1>1 DEF Holds
    <3>2. queue[i] \in ToSet(queue) /\ queue[i] # b
      BY <1>1, <3>1 DEF ToSet
    <3>3. queue[i] \in ToSet(queue')
      BY <1>1, <3>2, PullSpares
    <3> QED BY <2>1, <3>1, <3>3 DEF Holds, ToSet
  <2> QED BY <2>1, <2>2 DEF Due, Position
<1>5. ASSUME NEW k \in 1..Len(queue),
             queue[k] = b,
             Len(queue') = Len(queue) - 1,
             \A j \in 1..(Len(queue) - 1) :
               queue'[j] = IF j < k THEN queue[j] ELSE queue[j + 1],
             Position(queue', pr) # 0
      PROVE  Due(pr)' = Due(pr) \/ Position(queue', pr) \in 1..(MaxReported + 1)
  <2> DEFINE p == Position(queue', pr)
  <2>1. p \in 1..(Len(queue) - 1) /\ queue'[p].pr = pr
    BY <1>1, <1>5, PositionHeld
  <2>2. PICK i \in 1..Len(queue) : queue[i].pr = pr /\ i \in {p, p + 1}
    <3> HIDE DEF p
    <3>1. CASE p < k
      BY <1>1, <1>5, <2>1, <3>1
    <3>2. CASE ~(p < k)
      <4>1. p + 1 \in 1..Len(queue) /\ queue[p + 1].pr = pr
        BY <1>1, <1>5, <2>1, <3>2
      <4> QED BY <4>1
    <3> QED BY <3>1, <3>2
  <2>3. Position(queue, pr) = i
    BY <1>1, <2>2, PositionIs DEF UniqueBookings
  <2> HIDE DEF p
  <2>4. CASE p <= MaxReported + 1
    <3>1. p \in 1..(MaxReported + 1)
      BY <1>1, <2>1, <2>4
    <3> QED BY <3>1 DEF p
  <2>5. CASE ~(p <= MaxReported + 1)
    <3>1. /\ ~(p - 1 < 0) /\ ~(p - 1 <= MaxReported)
          /\ ~(i - 1 < 0) /\ ~(i - 1 <= MaxReported)
      BY <1>1, <2>1, <2>2, <2>5
    <3>2. TitleAt(p - 1) = OverMax /\ TitleAt(i - 1) = OverMax
      BY <3>1 DEF TitleAt
    <3> QED BY <2>3, <3>2 DEF Due, p
  <2> QED BY <2>4, <2>5
<1>6. \/ queue' = queue
      \/ \E k \in 1..Len(queue) :
           /\ queue[k] = b
           /\ Len(queue') = Len(queue) - 1
           /\ \A j \in 1..(Len(queue) - 1) :
                queue'[j] = IF j < k THEN queue[j] ELSE queue[j + 1]
  <2>1. \/ Pull(queue, b) = queue
        \/ \E k \in 1..Len(queue) :
             /\ queue[k] = b
             /\ Len(Pull(queue, b)) = Len(queue) - 1
             /\ \A j \in 1..(Len(queue) - 1) :
                  Pull(queue, b)[j] = IF j < k THEN queue[j] ELSE queue[j + 1]
    <3>1. queue \in Seq(Booking)
      BY <1>1
    <3> QED BY <3>1, PullProperties
  <2> QED BY <2>1
<1> QED BY <1>3, <1>4, <1>5, <1>6

(* What a removal leaves to setAllPullRequestsStatuses.                    *)
LEMMA CoveredAfterPull ==
  ASSUME TypeOK, UniqueBookings, NEW b, queue' = Pull(queue, b),
         UNCHANGED <<info, checkRun>>,
         NEW r, FindAll(r) \in pending',
         NEW pr, pr # b.pr, info[pr] \in Shas => ShownTitle(pr) = Due(pr)
  PROVE  Covered(pr)'
<1>1. ShownTitle(pr)' = ShownTitle(pr)
  BY DEF ShownTitle
<1>2. CASE Due(pr)' = Due(pr)
  BY <1>1, <1>2 DEF Covered
<1>3. CASE Position(queue', pr) \in 1..(MaxReported + 1)
  <2>1. Fixes(FindAll(r), pr)'
    BY <1>3 DEF Fixes, FindAll
  <2> QED BY <2>1 DEF Covered
<1> QED BY <1>2, <1>3, DueAfterPull

(* The next request starts when nothing is pending.                        *)
LEMMA SerialAfterStart ==
  ASSUME Serial, TypeOK, UniqueBookings, SerialInv,
         NEW r \in Requests, Start(r)
  PROVE  SerialInv'
<1>1. Idle(r)
  BY DEF Start, AddItem, RemoveItem, HandleClosed, HandleOpened, HandleSync,
         HandleStatusChange, Uninstall
<1>2. pending = {}
  BY <1>1, OperationFields DEF Serial, Idle, TypeOK
<1>3. \A pr \in PullRequests : info[pr] \in Shas => ShownTitle(pr) = Due(pr)
  BY <1>2 DEF SerialInv, Covered
<1>4. ASSUME NEW b \in Booking, AddItem(r, b) PROVE SerialInv'
  <2> PICK lookUp : lookUp = LookUp(r, b.pr, TitleAt(Len(queue)), FALSE)
    OBVIOUS
  <2>1. /\ Join(b)
        /\ UNCHANGED <<info, checkRun>>
        /\ lookUp \in pending'
        /\ pending' \subseteq {lookUp, TellFirst(r, b)}
    BY <1>2, <1>4 DEF AddItem
  <2>2. TitleAt(Len(queue)) = Due(b.pr)' /\ \A pr : pr # b.pr => Due(pr)' = Due(pr)
    BY <2>1, DueAfterJoin
  <2>3. Sound(lookUp)'
    BY <2>2 DEF Sound, LookUp, Drops
  <2>4. Sound(TellFirst(r, b))'
    BY DEF Sound, TellFirst, Drops
  <2>5. Fixes(lookUp, b.pr)'
    BY DEF Fixes, LookUp
  <2>6. \A pr : ShownTitle(pr)' = ShownTitle(pr)
    BY <2>1 DEF ShownTitle
  <2>7. ASSUME NEW pr \in PullRequests PROVE Covered(pr)'
    <3>1. CASE pr = b.pr
      BY <2>1, <2>5, <3>1 DEF Covered
    <3>2. CASE pr # b.pr
      BY <1>3, <2>1, <2>2, <2>6, <3>2 DEF Covered
    <3> QED BY <3>1, <3>2
  <2> QED BY <2>1, <2>3, <2>4, <2>7 DEF SerialInv, AllSound
<1>5. ASSUME NEW b \in Booking, RemoveItem(r, b) PROVE SerialInv'
  <2> DEFINE lookUp == LookUp(r, b.pr, NotInQueue, FALSE)
  <2>1. /\ queue' = Pull(queue, b)
        /\ UNCHANGED <<info, checkRun>>
        /\ lookUp \in pending' /\ FindAll(r) \in pending'
        /\ pending' \subseteq {lookUp, FindAll(r), FindFirst(r)}
    BY <1>2, <1>5 DEF RemoveItem, Leave, AfterRemoval
  <2>2. ~Holds(queue', b.pr)
    <3>1. \A i \in DOMAIN queue : queue[i].pr = b.pr => queue[i] = b
      BY <1>5 DEF RemoveItem, Serial
    <3>2. CASE b \in ToSet(queue)
      <4>1. /\ queue \in Seq(Booking)
            /\ \A i, j \in 1..Len(queue) : queue[i].pr = queue[j].pr => i = j
        BY LenProperties DEF TypeOK, QueueTypeOK, UniqueBookings
      <4> QED BY <2>1, <3>2, <4>1, PullTakes
    <3>3. CASE b \notin ToSet(queue)
      <4>1. ~Holds(queue, b.pr)
        BY <3>1, <3>3 DEF Holds, ToSet
      <4> QED BY <2>1, <3>3, <4>1 DEF Pull
    <3> QED BY <3>2, <3>3
  <2>3. Due(b.pr)' = NotInQueue
    BY <2>2 DEF Due, Position, TitleAt
  <2>4. Sound(lookUp)'
    BY <2>3 DEF Sound, LookUp, Drops
  <2>5. Sound(FindAll(r))' /\ Sound(FindFirst(r))'
    BY DEF Sound, FindAll, FindFirst, Drops
  <2>6. Fixes(lookUp, b.pr)'
    BY DEF Fixes, LookUp
  <2> HIDE DEF lookUp
  <2>7. ASSUME NEW pr \in PullRequests PROVE Covered(pr)'
    <3>1. CASE pr = b.pr
      BY <2>1, <2>6, <3>1 DEF Covered
    <3>2. CASE pr # b.pr
      BY <1>3, <2>1, <3>2, CoveredAfterPull
    <3> QED BY <3>1, <3>2
  <2> QED BY <2>1, <2>4, <2>5, <2>7 DEF SerialInv, AllSound
<1>6. ASSUME NEW pr \in PullRequests, NEW title \in {Merged, NotInQueue},
             HandleClosed(r, pr, title)
      PROVE  SerialInv'
  <2>1. pending' = {Locate(r, pr, title)} /\ UNCHANGED <<queue, info, checkRun>>
    BY <1>2, <1>6 DEF HandleClosed
  <2>2. AllSound'
    BY <2>1 DEF AllSound, Sound, Locate, Drops
  <2> QED BY <1>3, <2>1, <2>2 DEF SerialInv, Covered, ShownTitle, Due
<1>7. ASSUME NEW pr \in PullRequests, NEW sha \in Shas, HandleOpened(r, pr, sha)
      PROVE  SerialInv'
  <2>1. /\ pending' = {LookUp(r, pr, NotInQueue, FALSE)}
        /\ info' = [info EXCEPT ![pr] = sha]
        /\ UNCHANGED <<queue, checkRun>>
        /\ ~Holds(queue, pr)
    BY <1>2, <1>7 DEF HandleOpened, StoreInfo, Serial
  <2>2. \A p : Due(p)' = Due(p)
    BY <2>1 DEF Due
  <2>3. Due(pr) = NotInQueue
    BY <2>1, DueUnqueued
  <2>4. AllSound'
    BY <2>1, <2>2, <2>3 DEF AllSound, Sound, LookUp, Drops
  <2>5. Fixes(LookUp(r, pr, NotInQueue, FALSE), pr)'
    BY DEF Fixes, LookUp
  <2>6. ASSUME NEW p \in PullRequests PROVE Covered(p)'
    <3>1. CASE p = pr
      BY <2>1, <2>5, <3>1 DEF Covered
    <3>2. CASE p # pr
      BY <1>3, <2>1, <2>2, <3>2 DEF Covered, ShownTitle, TypeOK
    <3> QED BY <3>1, <3>2
  <2> QED BY <2>4, <2>6 DEF SerialInv
<1>8. ASSUME NEW pr \in PullRequests, NEW sha \in Shas, HandleSync(r, pr, sha)
      PROVE  SerialInv'
  <2>1. /\ pending' = {FindIndex(r, pr)}
        /\ info' = [info EXCEPT ![pr] = sha]
        /\ UNCHANGED <<queue, checkRun>>
    BY <1>2, <1>8 DEF HandleSync, StoreInfo
  <2>2. \A p : Due(p)' = Due(p)
    BY <2>1 DEF Due
  <2>3. AllSound'
    BY <2>1 DEF AllSound, Sound, FindIndex, Drops
  <2>4. Fixes(FindIndex(r, pr), pr)'
    BY DEF Fixes, FindIndex
  <2>5. ASSUME NEW p \in PullRequests PROVE Covered(p)'
    <3>1. CASE p = pr
      BY <2>1, <2>4, <3>1 DEF Covered
    <3>2. CASE p # pr
      BY <1>3, <2>1, <2>2, <3>2 DEF Covered, ShownTitle, TypeOK
    <3> QED BY <3>1, <3>2
  <2> QED BY <2>3, <2>5 DEF SerialInv
<1>9. CASE Uninstall(r)
  <2>1. pending' = {DropQueue(r), DropInfos(r)} /\ UNCHANGED <<queue, info, checkRun>>
    BY <1>2, <1>9 DEF Uninstall
  <2>2. DropInfos(r).step = "dropInfos" /\ DropQueue(r).step = "dropQueue"
    BY DEF DropInfos, DropQueue
  <2>3. AllSound'
    BY <2>1, <2>2 DEF AllSound, Sound, Drops
  <2> QED BY <1>3, <2>1, <2>3 DEF SerialInv, Covered, ShownTitle, Due
<1>10. ASSUME NEW pr \in PullRequests, HandleStatusChange(r, pr)
       PROVE  SerialInv'
  <2>1. pending' = {CheckHead(r, pr)} /\ UNCHANGED <<queue, info, checkRun>>
    BY <1>2, <1>10 DEF HandleStatusChange
  <2>2. AllSound'
    BY <2>1 DEF AllSound, Sound, CheckHead, Drops
  <2> QED BY <1>3, <2>1, <2>2 DEF SerialInv, Covered, ShownTitle, Due
<1> QED BY <1>4, <1>5, <1>6, <1>7, <1>8, <1>9, <1>10 DEF Start

(* What waits beside an operation that does not itself take bookings.      *)
LEMMA Company ==
  ASSUME AllSound, NEW op \in pending, ~Drops(op),
         NEW o \in pending \ {op}
  PROVE  o.step \notin {"locate", "pullClosed", "dropQueue", "dropInfos"}
BY DEF AllSound, Sound, Drops

(* An answer that leaves the queue alone and forgets documents at most.    *)
LEMMA SerialKept ==
  ASSUME TypeOK, SerialInv, NEW op \in pending, ~Drops(op),
         op.step \notin {"locate", "pullClosed"},
         UNCHANGED queue,
         \A pr \in PullRequests : info'[pr] \in Shas => info'[pr] = info[pr],
         NEW next, pending' = (pending \ {op}) \cup next,
         \A o \in next : Sound(o)',
         \A pr \in PullRequests :
           info'[pr] \in Shas =>
             \/ ShownTitle(pr)' = Due(pr)
             \/ /\ ShownTitle(pr)' = ShownTitle(pr)
                /\ ~Fixes(op, pr)
             \/ \E o \in next : Fixes(o, pr)
  PROVE  SerialInv'
<1>1. \A pr : Due(pr)' = Due(pr)
  BY DEF Due
<1>2. ASSUME NEW o \in pending \ {op} PROVE Sound(o)'
  <2>1. Sound(o) /\ o \in Operation
    BY DEF SerialInv, AllSound, TypeOK
  <2>2. o.step \notin {"locate", "pullClosed", "dropQueue", "dropInfos"}
    BY Company DEF SerialInv
  <2>3. o.step = "post" => o.pr \in PullRequests
    BY <2>1, OperationFields
  <2> QED BY <1>1, <2>1, <2>2, <2>3 DEF Sound, Drops
<1>3. \A o, pr : Fixes(o, pr)' = Fixes(o, pr)
  BY DEF Fixes
<1>4. ASSUME NEW pr \in PullRequests PROVE Covered(pr)'
  <2> SUFFICES ASSUME info'[pr] \in Shas
               PROVE  \/ ShownTitle(pr)' = Due(pr)
                      \/ \E o \in pending' : Fixes(o, pr)
    BY <1>1, <1>3 DEF Covered
  <2>1. info[pr] \in Shas
    OBVIOUS
  <2> QED BY <2>1 DEF SerialInv, Covered
<1> QED BY <1>2, <1>4 DEF SerialInv, AllSound

LEMMA SerialAfterRead ==
  ASSUME TypeOK, UniqueBookings, SerialInv, NEW op \in pending,
         FoundFirst(op) \/ ToldFirst(op) \/ FoundAll(op) \/ FoundIndex(op)
  PROVE  SerialInv'
<1>1. UNCHANGED <<queue, info, checkRun>>
  BY DEF FoundFirst, ToldFirst, FoundAll, FoundIndex
<1>2. /\ ~Drops(op)
      /\ op.step \in {"findFirst", "tellFirst", "findAll", "findIndex"}
  BY DEF FoundFirst, ToldFirst, FoundAll, FoundIndex, Drops
<1>3. \A pr \in PullRequests : info'[pr] \in Shas => info'[pr] = info[pr]
  BY <1>1
<1>4. \A pr : ShownTitle(pr)' = ShownTitle(pr) /\ Due(pr)' = Due(pr)
  BY <1>1 DEF ShownTitle, Due
<1>5. CASE FoundFirst(op) \/ ToldFirst(op)
  <2> PICK next : next = IF FoundFirst(op) /\ queue # <<>>
                         THEN {TellFirst(op.req, Head(queue))} ELSE {}
    OBVIOUS
  <2>1. pending' = (pending \ {op}) \cup next
    BY <1>5 DEF FoundFirst, ToldFirst, Continue
  <2>2. \A o \in next : Sound(o)'
    BY DEF Sound, Drops, TellFirst
  <2>3. \A pr : ~Fixes(op, pr)
    BY <1>5 DEF FoundFirst, ToldFirst, Fixes
  <2> QED BY <1>1, <1>2, <1>3, <1>4, <2>1, <2>2, <2>3, SerialKept
<1>6. CASE FoundAll(op)
  <2> PICK next :
        next = {LookUp(op.req, queue[i].pr, TitleAt(i - 1), FALSE) :
                  i \in {j \in DOMAIN queue : j <= MaxReported + 1}}
    OBVIOUS
  <2>1. pending' = (pending \ {op}) \cup next /\ op.step = "findAll"
    BY <1>6 DEF FoundAll, Continue
  <2>2. queue \in Seq(Booking) /\ DOMAIN queue = 1..Len(queue)
    BY LenProperties DEF TypeOK, QueueTypeOK
  <2>3. ASSUME NEW o \in next PROVE Sound(o)'
    <3> PICK i \in DOMAIN queue :
          o = LookUp(op.req, queue[i].pr, TitleAt(i - 1), FALSE)
      OBVIOUS
    <3>1. Position(queue, queue[i].pr) = i
      BY <2>2, PositionIs DEF UniqueBookings
    <3>2. o.pr = queue[i].pr /\ o.title = TitleAt(i - 1)
      BY DEF LookUp
    <3>3. o.title = Due(o.pr)
      BY <3>1, <3>2 DEF Due
    <3>4. o.title = Due(o.pr)'
      BY <1>4, <3>3
    <3> QED BY <3>4 DEF Sound, LookUp, Drops
  <2>4. ASSUME NEW pr \in PullRequests, Fixes(op, pr)
        PROVE  \E o \in next : Fixes(o, pr)
    <3>1. Position(queue, pr) \in 1..(MaxReported + 1)
      BY <2>1, <2>4 DEF Fixes
    <3>2. PICK i \in DOMAIN queue : i <= MaxReported + 1 /\ queue[i].pr = pr
      BY <2>2, <3>1, PositionHeld, BoardAssumption
    <3>3. LookUp(op.req, queue[i].pr, TitleAt(i - 1), FALSE) \in next
      BY <3>2
    <3> QED BY <3>2, <3>3 DEF Fixes, LookUp
  <2> QED BY <1>1, <1>2, <1>3, <1>4, <2>1, <2>3, <2>4, SerialKept
<1>7. CASE FoundIndex(op)
  <2>1. PICK o : o = LookUp(op.req, op.pr, Due(op.pr), FALSE)
    OBVIOUS
  <2>2. pending' = (pending \ {op}) \cup {o} /\ op.step = "findIndex"
    BY <1>7, <2>1 DEF FoundIndex, Continue, Due
  <2>3. Sound(o)'
    <3>1. o.pr = op.pr /\ o.title = Due(op.pr)
      BY <2>1 DEF LookUp
    <3>2. o.title = Due(o.pr)'
      BY <1>4, <3>1
    <3> QED BY <2>1, <3>2 DEF Sound, LookUp, Drops
  <2>4. \A pr : Fixes(op, pr) => Fixes(o, pr)
    BY <2>1, <2>2 DEF Fixes, LookUp
  <2>5. PICK next : next = {o}
    OBVIOUS
  <2>6. pending' = (pending \ {op}) \cup next
    BY <2>2, <2>5
  <2>7. \A n \in next : Sound(n)'
    BY <2>3, <2>5
  <2>8. \A pr : Fixes(op, pr) => \E n \in next : Fixes(n, pr)
    BY <2>4, <2>5
  <2> QED BY <1>1, <1>2, <1>3, <1>4, <2>6, <2>7, <2>8, SerialKept
<1> QED BY <1>5, <1>6, <1>7

(* A status webhook posts nothing and stores no head commit.               *)
LEMMA SerialAfterStatus ==
  ASSUME TypeOK, SerialInv, NEW op \in pending,
         CheckedHead(op) \/ StoredStatus(op)
  PROVE  SerialInv'
<1>1. /\ op.step \in {"checkHead", "storeStatus"}
      /\ ~Drops(op)
      /\ UNCHANGED <<queue, checkRun>>
  BY DEF CheckedHead, StoredStatus, Drops
<1>2. \A pr \in PullRequests : info'[pr] \in Shas => info'[pr] = info[pr]
  BY BoardAssumption DEF CheckedHead, StoredStatus, TypeOK
<1>3. ASSUME NEW pr \in PullRequests, info'[pr] \in Shas
      PROVE  ShownTitle(pr)' = ShownTitle(pr) /\ ~Fixes(op, pr)
  BY <1>1, <1>2, <1>3 DEF ShownTitle, Fixes
<1> PICK next : next = pending' \ (pending \ {op})
  OBVIOUS
<1>4. next \subseteq {StoreStatus(op.req, op.pr)}
  BY DEF CheckedHead, StoredStatus, Continue
<1>5. pending' = (pending \ {op}) \cup next
  BY DEF CheckedHead, StoredStatus, Continue
<1>6. \A o \in next : Sound(o)'
  BY <1>4 DEF Sound, StoreStatus, Drops
<1> QED BY <1>1, <1>2, <1>3, <1>5, <1>6, SerialKept

(* Posting a title, and the end of handleClosed.                           *)
LEMMA SerialAfterPost ==
  ASSUME TypeOK, SerialInv, NEW op \in pending,
         LookedUp(op) \/ Posted(op) \/ Forgotten(op)
  PROVE  SerialInv'
<1>1. /\ op.step \in {"lookUp", "post", "forget"}
      /\ ~Drops(op)
      /\ UNCHANGED queue
      /\ Sound(op)
  BY DEF LookedUp, Posted, Forgotten, Drops, SerialInv, AllSound
<1>2. op.pr \in PullRequests /\ (op.step = "post" => op.sha \in Shas)
  BY <1>1, OperationFields DEF TypeOK
<1>3. \A pr : Due(pr)' = Due(pr)
  BY <1>1 DEF Due
<1>4. \A o \in AfterPost(op) : Sound(o)'
  BY DEF AfterPost, Sound, Forget, Drops
<1>5. op.last => \E o \in AfterPost(op) : Fixes(o, op.pr)
  BY DEF AfterPost, Fixes, Forget
<1>6. CASE LookedUp(op)
  <2>1. UNCHANGED <<info, checkRun>>
    BY <1>6 DEF LookedUp
  <2>2. \A pr : ShownTitle(pr)' = ShownTitle(pr)
    BY <2>1 DEF ShownTitle
  <2>3. \A pr : Fixes(op, pr) => op.pr = pr
    BY <1>6 DEF Fixes, LookedUp
  <2>4. CASE info[op.pr] \notin Shas
    <3> PICK next : next = IF info[op.pr] = NoInfo THEN AfterPost(op) ELSE {}
      OBVIOUS
    <3>1. pending' = (pending \ {op}) \cup next
      BY <1>6, <2>4, LookUpLeadsTo DEF Continue, TypeOK
    <3>2. \A o \in next : Sound(o)'
      BY <1>4
    <3> QED BY <1>1, <2>1, <2>2, <2>3, <2>4, <3>1, <3>2, SerialKept
  <2>5. CASE info[op.pr] \in Shas
    <3> PICK next :
          next = {Post(op.req, op.pr, op.title, op.last, info[op.pr])}
      OBVIOUS
    <3>1. pending' = (pending \ {op}) \cup next
      BY <1>6, <2>5, LookUpLeadsTo DEF Continue, TypeOK
    <3>2. op.last \/ op.title = Due(op.pr)
      BY <1>1, <1>6 DEF Sound, LookedUp
    <3>3. ASSUME NEW o \in next PROVE Sound(o)'
      BY <1>3, <2>1, <3>2 DEF Sound, Post, Drops
    <3>4. \A pr : Fixes(op, pr) => \E o \in next : Fixes(o, pr)
      BY <2>3 DEF Fixes, Post
    <3>5. \A pr \in PullRequests : info'[pr] \in Shas => info'[pr] = info[pr]
      BY <2>1
    <3> QED BY <1>1, <2>2, <3>1, <3>3, <3>4, <3>5, SerialKept
  <2> QED BY <2>4, <2>5
<1>7. CASE Posted(op)
  <2>1. /\ UNCHANGED info
        /\ op.step = "post"
        /\ checkRun' = [checkRun EXCEPT ![op.pr][op.sha] = op.title]
        /\ pending' = (pending \ {op}) \cup AfterPost(op)
    BY <1>7 DEF Posted, Continue
  <2>2. /\ op.last \/ op.title = Due(op.pr)
        /\ info[op.pr] \in Shas => op.sha = info[op.pr]
    BY <1>1, <2>1 DEF Sound
  <2>3. ASSUME NEW pr \in PullRequests, info'[pr] \in Shas
        PROVE  \/ ShownTitle(pr)' = Due(pr)
               \/ ShownTitle(pr)' = ShownTitle(pr) /\ ~Fixes(op, pr)
               \/ \E o \in AfterPost(op) : Fixes(o, pr)
    <3>1. CASE pr = op.pr
      <4>1. ShownTitle(pr)' = op.title
        BY <1>2, <2>1, <2>2, <2>3, <3>1 DEF ShownTitle, TypeOK
      <4> QED BY <1>5, <2>2, <3>1, <4>1
    <3>2. CASE pr # op.pr
      <4>1. ShownTitle(pr)' = ShownTitle(pr)
        BY <1>2, <2>1, <3>2 DEF ShownTitle, TypeOK
      <4>2. ~Fixes(op, pr)
        BY <2>1, <3>2 DEF Fixes
      <4> QED BY <4>1, <4>2
    <3> QED BY <3>1, <3>2
  <2> QED BY <1>1, <1>4, <2>1, <2>3, SerialKept
<1>8. CASE Forgotten(op)
  <2> PICK next : next = {}
    OBVIOUS
  <2>1. /\ info' = [info EXCEPT ![op.pr] = NoInfo]
        /\ UNCHANGED checkRun
        /\ pending' = (pending \ {op}) \cup next
        /\ op.step = "forget"
    BY <1>8 DEF Forgotten, Continue
  <2>2. \A pr \in PullRequests : info'[pr] \in Shas => info'[pr] = info[pr]
    BY <1>2, <2>1, BoardAssumption DEF TypeOK
  <2>3. ASSUME NEW pr \in PullRequests, info'[pr] \in Shas
        PROVE  ShownTitle(pr)' = ShownTitle(pr) /\ ~Fixes(op, pr)
    <3>1. pr # op.pr
      BY <1>2, <2>1, <2>3, BoardAssumption DEF TypeOK
    <3> QED BY <2>1, <3>1 DEF ShownTitle, Fixes, TypeOK
  <2>4. \A o \in next : Sound(o)'
    OBVIOUS
  <2> QED BY <1>1, <2>1, <2>2, <2>3, <2>4, SerialKept
<1> QED BY <1>6, <1>7, <1>8

(* The operations that take bookings.                                      *)
LEMMA SerialAfterTaking ==
  ASSUME TypeOK, UniqueBookings, SerialInv, NEW op \in pending,
         Located(op) \/ PulledClosed(op) \/ DroppedQueue(op) \/ DroppedInfos(op)
  PROVE  SerialInv'
<1>1. Sound(op)
  BY DEF SerialInv, AllSound
<1>2. CASE Located(op)
  <2>1. /\ pending = {op}
        /\ op.step = "locate"
        /\ UNCHANGED <<queue, info, checkRun>>
    BY <1>1, <1>2 DEF Sound, Located
  <2>2. PICK o : /\ pending' = {o}
                 /\ Sound(o)'
                 /\ \A pr : Fixes(op, pr) => Fixes(o, pr)'
    <3>1. CASE Holds(queue, op.pr)
      <4> PICK o : o = PullClosed(op.req, BookingOf(queue, op.pr), op.title)
        OBVIOUS
      <4>1. pending' = {o}
        BY <1>2, <2>1, <3>1 DEF Located, Continue
      <4>2. /\ BookingOf(queue, op.pr) \in ToSet(queue)
            /\ BookingOf(queue, op.pr).pr = op.pr
        BY <3>1, BookingOfType DEF TypeOK, QueueTypeOK
      <4>3. Sound(o)'
        BY <2>1, <4>1, <4>2 DEF Sound, PullClosed, Drops
      <4>4. \A pr : Fixes(op, pr) => Fixes(o, pr)'
        BY <2>1, <4>2 DEF Fixes, PullClosed
      <4> QED BY <4>1, <4>3, <4>4
    <3>2. CASE ~Holds(queue, op.pr)
      <4> PICK o : o = LookUp(op.req, op.pr, op.title, TRUE)
        OBVIOUS
      <4>1. pending' = {o}
        BY <1>2, <2>1, <3>2 DEF Located, Continue
      <4>2. Sound(o)'
        BY DEF Sound, LookUp, Drops
      <4>3. \A pr : Fixes(op, pr) => Fixes(o, pr)'
        BY <2>1 DEF Fixes, LookUp
      <4> QED BY <4>1, <4>2, <4>3
    <3> QED BY <3>1, <3>2
  <2>3. \A pr : ShownTitle(pr)' = ShownTitle(pr) /\ Due(pr)' = Due(pr)
    BY <2>1 DEF ShownTitle, Due
  <2> QED BY <2>1, <2>2, <2>3 DEF SerialInv, AllSound, Covered
<1>3. CASE PulledClosed(op)
  <2> DEFINE b == op.booking
             lookUp == LookUp(op.req, b.pr, op.title, TRUE)
  <2>1. /\ pending = {op}
        /\ op.step = "pullClosed"
        /\ queue' = Pull(queue, b)
        /\ UNCHANGED <<info, checkRun>>
        /\ FindAll(op.req) \in pending' /\ lookUp \in pending'
        /\ pending' \subseteq {FindAll(op.req), FindFirst(op.req), lookUp}
    BY <1>1, <1>3 DEF Sound, PulledClosed, Leave, Continue, AfterRemoval
  <2>2. Sound(FindAll(op.req))' /\ Sound(FindFirst(op.req))'
    BY DEF Sound, FindAll, FindFirst, Drops
  <2>3. Sound(lookUp)'
    BY DEF Sound, LookUp, Drops
  <2>4. Fixes(lookUp, b.pr)'
    BY DEF Fixes, LookUp
  <2>5. ASSUME NEW pr \in PullRequests PROVE Covered(pr)'
    <3>1. CASE pr = b.pr
      BY <2>1, <2>4, <3>1 DEF Covered
    <3>2. CASE pr # b.pr
      <4>1. ~Fixes(op, pr)
        BY <2>1, <3>2 DEF Fixes
      <4>2. info[pr] \in Shas => ShownTitle(pr) = Due(pr)
        BY <2>1, <4>1 DEF SerialInv, Covered
      <4> HIDE DEF b, lookUp
      <4> QED BY <2>1, <3>2, <4>2, CoveredAfterPull
    <3> QED BY <3>1, <3>2
  <2> HIDE DEF b, lookUp
  <2> QED BY <2>1, <2>2, <2>3, <2>5 DEF SerialInv, AllSound
<1>4. CASE DroppedQueue(op)
  <2>1. /\ op.step = "dropQueue"
        /\ pending' = pending \ {op}
        /\ UNCHANGED <<info, checkRun>>
    BY <1>4 DEF DroppedQueue, Continue
  <2>2. \A o \in pending : Drops(o)
    BY <1>1, <2>1 DEF Sound, Drops
  <2>3. \/ \A pr \in PullRequests : info'[pr] \notin Shas
        \/ \E o \in pending' : o.step = "dropInfos"
    BY <1>1, <2>1 DEF Sound
  <2>4. AllSound'
    BY <2>1, <2>2, <2>3 DEF AllSound, Sound, Drops
  <2>5. \A pr \in PullRequests : Covered(pr)'
    BY <2>3 DEF Covered, Fixes
  <2> QED BY <2>4, <2>5 DEF SerialInv
<1>5. CASE DroppedInfos(op)
  <2>1. /\ op.step = "dropInfos"
        /\ pending' = pending \ {op}
        /\ info' = [pr \in PullRequests |-> NoInfo]
    BY <1>5 DEF DroppedInfos, Continue
  <2>2. \A o \in pending : Drops(o)
    BY <1>1, <2>1 DEF Sound, Drops
  <2>3. \A pr \in PullRequests : info'[pr] \notin Shas
    BY <2>1, BoardAssumption
  <2>4. AllSound'
    BY <2>1, <2>2, <2>3 DEF AllSound, Sound, Drops
  <2> QED BY <2>3, <2>4 DEF SerialInv, Covered
<1> QED BY <1>2, <1>3, <1>4, <1>5

(* With one request at a time, no removal of what another user booked, no  *)
(* late webhook, failure or restart, every known pull request shows its    *)
(* place whenever no request runs, however long the queue: the removal     *)
(* leaves titles beyond MaxReported alone, and they are right all the      *)
(* same.                                                                   *)
THEOREM QuietBoardAlwaysMatches ==
  ASSUME Serial
  PROVE  Spec => []QuietBoardMatches
<1>1. Init => SerialInv
  BY BoardAssumption DEF Init, SerialInv, AllSound, Covered
<1>2. TypeOK /\ UniqueBookings /\ SerialInv /\ [Next]_vars => SerialInv'
  <2> SUFFICES ASSUME TypeOK, UniqueBookings, SerialInv, [Next]_vars
               PROVE  SerialInv'
    OBVIOUS
  <2>1. ASSUME NEW r \in Requests, Start(r) PROVE SerialInv'
    BY <2>1, SerialAfterStart
  <2>2. ASSUME NEW op \in pending, Answer(op) PROVE SerialInv'
    <3>1. ~PostFailed(op)
      BY DEF PostFailed, Serial
    <3> QED BY <2>2, <3>1, SerialAfterRead, SerialAfterStatus,
               SerialAfterPost, SerialAfterTaking DEF Answer
  <2>3. CASE UNCHANGED vars
    BY <2>3 DEF vars, SerialInv, AllSound, Covered, Sound, Fixes, Drops, Due,
                ShownTitle
  <2> QED BY <2>1, <2>2, <2>3 DEF Next, Restart, Serial
<1>3. SerialInv => QuietBoardMatches
  BY DEF SerialInv, Covered, QuietBoardMatches, Due
<1> QED BY <1>1, <1>2, <1>3, TypeCorrect, BoardBookingsUnique, PTL DEF Spec

(* What the title of a place says of the place.                            *)
LEMMA TitleTells ==
  ASSUME QueueTypeOK, NEW pr
  PROVE  /\ TitleAt(Position(queue, pr) - 1) = NotInQueue => ~Holds(queue, pr)
         /\ TitleAt(Position(queue, pr) - 1) = First =>
              queue # <<>> /\ Head(queue).pr = pr
<1> DEFINE p == Position(queue, pr)
<1>1. queue \in Seq(Booking) /\ DOMAIN queue = 1..Len(queue) /\ Len(queue) \in Nat
  BY LenProperties DEF QueueTypeOK
<1>2. CASE Holds(queue, pr)
  <2>1. p \in 1..Len(queue) /\ queue[p].pr = pr
    BY <1>1, <1>2 DEF Holds, Position
  <2>2. p = 1 => queue # <<>> /\ Head(queue).pr = pr
    BY <1>1, <2>1, EmptySeq
  <2> HIDE DEF p
  <2> QED BY <1>1, <2>1, <2>2, BoardAssumption
          DEF TitleAt, NotInQueue, First, OverMax, p
<1>3. CASE ~Holds(queue, pr)
  BY <1>3 DEF Position, TitleAt, NotInQueue, First
<1> QED BY <1>2, <1>3

(* Under the same conditions no title lies: it takes two requests at once, *)
(* or a removal of what another user booked, to show a queued pull request *)
(* as unqueued or another one than the head as first.                      *)
THEOREM SerialTitlesAreTrue ==
  ASSUME Serial
  PROVE  Spec => [](FirstTitleIsTrue /\ UnqueuedTitleIsTrue)
<1>1. QueueTypeOK /\ QuietBoardMatches => FirstTitleIsTrue /\ UnqueuedTitleIsTrue
  BY TitleTells DEF QuietBoardMatches, FirstTitleIsTrue, UnqueuedTitleIsTrue
<1>2. TypeOK => QueueTypeOK
  BY DEF TypeOK
<1> QED BY <1>1, <1>2, TypeCorrect, QuietBoardAlwaysMatches, PTL
-----------------------------------------------------------------------------
(* How much a request has under way, and that it ends.                     *)

Of(r) == {op \in pending : op.req = r}

(* The steps of handleClosed that its other operations wait for.           *)
Lone(op) == op.step \in {"locate", "pullClosed"}

(* What a request starts with, and what may follow on one operation.       *)
Opening(r, started) ==
  /\ \A op \in started : op.req = r
  /\ \E a, b, c : started \subseteq {a, b, c}
  /\ \A op \in started : Lone(op) => started = {op}

FollowsOn(op, next) ==
  /\ \A o \in next : o.req = op.req /\ Rank(o) < Rank(op)
  /\ \/ /\ \E o : next \subseteq {o}
        /\ \A o \in next : o.step # "findAll" /\ (Lone(o) => Lone(op))
     \/ /\ op.step = "findAll"
        /\ IsFiniteSet(next) /\ Cardinality(next) <= MaxReported + 1
        /\ \A o \in next : o.step = "lookUp"
     \/ /\ op.step = "pullClosed"
        /\ \E a, b, c : next \subseteq {a, b, c}
        /\ \A o \in next : ~Lone(o)

LEMMA StartOpens ==
  ASSUME NEW r \in Requests, Start(r)
  PROVE  /\ Idle(r)
         /\ \E started : /\ pending' = pending \cup started
                         /\ Opening(r, started)
<1>1. ASSUME NEW started, pending' = pending \cup started,
             \A op \in started : op.req = r /\ ~Lone(op),
             NEW a, NEW b, NEW c, started \subseteq {a, b, c}
      PROVE  \E s : pending' = pending \cup s /\ Opening(r, s)
  BY <1>1 DEF Opening
<1>2. ASSUME NEW b \in Booking, AddItem(r, b)
      PROVE  Idle(r) /\ \E s : pending' = pending \cup s /\ Opening(r, s)
  <2> DEFINE look == LookUp(r, b.pr, TitleAt(Len(queue)), FALSE)
             tell == TellFirst(r, b)
             started == {look} \cup (IF Len(queue) = 0 THEN {tell} ELSE {})
  <2>1. Idle(r) /\ pending' = pending \cup started
    BY <1>2 DEF AddItem
  <2>2. look.req = r /\ ~Lone(look) /\ tell.req = r /\ ~Lone(tell)
    BY DEF LookUp, TellFirst, Lone
  <2>3. started \subseteq {look, tell, tell}
    OBVIOUS
  <2>4. \A op \in started : op.req = r /\ ~Lone(op)
    BY <2>2, <2>3
  <2> HIDE DEF look, tell, started
  <2> QED BY <1>1, <2>1, <2>3, <2>4
<1>3. ASSUME NEW b \in Booking, RemoveItem(r, b)
      PROVE  Idle(r) /\ \E s : pending' = pending \cup s /\ Opening(r, s)
  <2> DEFINE look == LookUp(r, b.pr, NotInQueue, FALSE)
             started == AfterRemoval(r, b.pr) \cup {look}
  <2>1. Idle(r) /\ pending' = pending \cup started
    BY <1>3 DEF RemoveItem
  <2>2. /\ look.req = r /\ ~Lone(look)
        /\ FindAll(r).req = r /\ ~Lone(FindAll(r))
        /\ FindFirst(r).req = r /\ ~Lone(FindFirst(r))
    BY DEF LookUp, FindAll, FindFirst, Lone
  <2>3. started \subseteq {look, FindAll(r), FindFirst(r)}
    BY DEF AfterRemoval
  <2>4. \A op \in started : op.req = r /\ ~Lone(op)
    BY <2>2, <2>3
  <2> HIDE DEF look, started
  <2> QED BY <1>1, <2>1, <2>3, <2>4
<1>4. ASSUME NEW op, op.req = r, Idle(r), pending' = pending \cup {op}
      PROVE  Idle(r) /\ \E s : pending' = pending \cup s /\ Opening(r, s)
  <2>1. Opening(r, {op})
    BY <1>4 DEF Opening
  <2> QED BY <1>4, <2>1
<1>5. ASSUME NEW pr \in PullRequests, NEW title \in {Merged, NotInQueue},
             HandleClosed(r, pr, title)
      PROVE  Idle(r) /\ \E s : pending' = pending \cup s /\ Opening(r, s)
  <2>1. Locate(r, pr, title).req = r
    BY DEF Locate
  <2> QED BY <1>4, <1>5, <2>1 DEF HandleClosed
<1>6. ASSUME NEW pr \in PullRequests, NEW sha \in Shas, HandleOpened(r, pr, sha)
      PROVE  Idle(r) /\ \E s : pending' = pending \cup s /\ Opening(r, s)
  <2>1. LookUp(r, pr, NotInQueue, FALSE).req = r
    BY DEF LookUp
  <2> QED BY <1>4, <1>6, <2>1 DEF HandleOpened
<1>7. ASSUME NEW pr \in PullRequests, NEW sha \in Shas, HandleSync(r, pr, sha)
      PROVE  Idle(r) /\ \E s : pending' = pending \cup s /\ Opening(r, s)
  <2>1. FindIndex(r, pr).req = r
    BY DEF FindIndex
  <2> QED BY <1>4, <1>7, <2>1 DEF HandleSync
<1>8. CASE Uninstall(r)
  <2> DEFINE started == {DropQueue(r), DropInfos(r)}
  <2>1. Idle(r) /\ pending' = pending \cup started
    BY <1>8 DEF Uninstall
  <2>2. /\ \A op \in started : op.req = r /\ ~Lone(op)
        /\ started \subseteq {DropQueue(r), DropInfos(r), DropInfos(r)}
    BY DEF DropQueue, DropInfos, Lone
  <2> HIDE DEF started
  <2> QED BY <1>1, <2>1, <2>2
<1>9. ASSUME NEW pr \in PullRequests, HandleStatusChange(r, pr)
      PROVE  Idle(r) /\ \E s : pending' = pending \cup s /\ Opening(r, s)
  <2>1. CheckHead(r, pr).req = r
    BY DEF CheckHead
  <2> QED BY <1>4, <1>9, <2>1 DEF HandleStatusChange
<1> QED BY <1>2, <1>3, <1>5, <1>6, <1>7, <1>8, <1>9 DEF Start

(* The posts of setAllPullRequestsStatuses are as many as the slice lets   *)
(* through.                                                                *)
LEMMA SliceIsBounded ==
  ASSUME TypeOK, NEW r
  PROVE  LET visited == {j \in DOMAIN queue : j <= MaxReported + 1}
             posts == {LookUp(r, queue[i].pr, TitleAt(i - 1), FALSE) :
                         i \in visited}
         IN  IsFiniteSet(posts) /\ Cardinality(posts) <= MaxReported + 1
<1> DEFINE visited == {j \in DOMAIN queue : j <= MaxReported + 1}
           post(i) == LookUp(r, queue[i].pr, TitleAt(i - 1), FALSE)
           posts == {post(i) : i \in visited}
           f == [i \in visited |-> post(i)]
<1>1. visited \in SUBSET (1..(MaxReported + 1)) /\ MaxReported \in Nat
  BY LenProperties, BoardAssumption DEF TypeOK, QueueTypeOK
<1>2. IsFiniteSet(visited) /\ Cardinality(visited) <= MaxReported + 1
  <2> HIDE DEF visited
  <2>1. /\ IsFiniteSet(1..(MaxReported + 1))
        /\ Cardinality(1..(MaxReported + 1)) = MaxReported + 1
    BY <1>1, FS_Interval
  <2> QED BY <1>1, <2>1, FS_Subset
<1>3. f \in Surjection(visited, posts)
  <2> HIDE DEF visited, post
  <2> QED BY DEF Surjection
<1>4. /\ IsFiniteSet(posts) /\ Cardinality(posts) <= Cardinality(visited)
  <2> HIDE DEF visited, posts, f
  <2> QED BY <1>2, <1>3, FS_Surjection
<1>5. Cardinality(visited) \in Nat /\ Cardinality(posts) \in Nat
  <2> HIDE DEF visited, posts
  <2> QED BY <1>2, <1>4, FS_CardinalityType
<1>6. IsFiniteSet(posts) /\ Cardinality(posts) <= MaxReported + 1
  <2> HIDE DEF visited, posts
  <2> QED BY <1>1, <1>2, <1>4, <1>5
<1> QED BY <1>6

LEMMA AnswerFollowsOn ==
  ASSUME TypeOK, NEW op \in pending, Answer(op)
  PROVE  \E next : Continue(op, next) /\ FollowsOn(op, next)
<1>1. ASSUME NEW o, Continue(op, {o}), o.req = op.req, Rank(o) < Rank(op),
             o.step # "findAll", Lone(o) => Lone(op)
      PROVE  \E next : Continue(op, next) /\ FollowsOn(op, next)
  BY <1>1 DEF FollowsOn
<1>2. ASSUME Continue(op, {})
      PROVE  \E next : Continue(op, next) /\ FollowsOn(op, next)
  BY <1>2 DEF FollowsOn
<1>3. ASSUME op.step \in {"lookUp", "post"}, Continue(op, AfterPost(op))
      PROVE  \E next : Continue(op, next) /\ FollowsOn(op, next)
  <2>1. LET o == Forget(op.req, op.pr)
        IN  /\ o.req = op.req /\ Rank(o) < Rank(op)
            /\ o.step # "findAll" /\ ~Lone(o)
    BY <1>3 DEF Forget, Rank, Lone
  <2> QED BY <1>1, <1>2, <1>3, <2>1 DEF AfterPost
<1>4. CASE FoundFirst(op)
  <2>1. LET o == TellFirst(op.req, Head(queue))
        IN  /\ o.req = op.req /\ Rank(o) < Rank(op)
            /\ o.step # "findAll" /\ ~Lone(o)
    BY <1>4 DEF FoundFirst, TellFirst, Rank, Lone
  <2> QED BY <1>1, <1>2, <1>4, <2>1 DEF FoundFirst
<1>5. CASE ToldFirst(op) \/ Forgotten(op) \/ DroppedQueue(op) \/ DroppedInfos(op)
  BY <1>2, <1>5 DEF ToldFirst, Forgotten, DroppedQueue, DroppedInfos
<1>6. CASE FoundAll(op)
  <2> DEFINE visited == {j \in DOMAIN queue : j <= MaxReported + 1}
             post(i) == LookUp(op.req, queue[i].pr, TitleAt(i - 1), FALSE)
             posts == {post(i) : i \in visited}
  <2>1. op.step = "findAll" /\ Continue(op, posts)
    BY <1>6 DEF FoundAll
  <2>2. IsFiniteSet(posts) /\ Cardinality(posts) <= MaxReported + 1
    BY SliceIsBounded
  <2>3. \A o \in posts :
          o.req = op.req /\ Rank(o) < Rank(op) /\ o.step = "lookUp"
    <3>1. \A i : post(i).req = op.req /\ post(i).step = "lookUp"
      BY DEF LookUp
    <3>2. \A o : o.step = "lookUp" => Rank(o) < Rank(op)
      BY <2>1 DEF Rank
    <3> HIDE DEF post, visited
    <3> QED BY <3>1, <3>2
  <2>4. FollowsOn(op, posts)
    <3> HIDE DEF posts
    <3> QED BY <2>1, <2>2, <2>3 DEF FollowsOn
  <2> QED BY <2>1, <2>4
<1>7. CASE FoundIndex(op)
  <2>1. LET o == LookUp(op.req, op.pr,
                        TitleAt(Position(queue, op.pr) - 1), FALSE)
        IN  /\ o.req = op.req /\ Rank(o) < Rank(op)
            /\ o.step # "findAll" /\ ~Lone(o)
    BY <1>7 DEF FoundIndex, LookUp, Rank, Lone
  <2> QED BY <1>1, <1>7, <2>1 DEF FoundIndex
<1>8. CASE Located(op)
  <2>1. LET o == PullClosed(op.req, BookingOf(queue, op.pr), op.title)
        IN  /\ o.req = op.req /\ Rank(o) < Rank(op)
            /\ o.step # "findAll" /\ Lone(op)
    BY <1>8 DEF Located, PullClosed, Rank, Lone
  <2>2. LET o == LookUp(op.req, op.pr, op.title, TRUE)
        IN  /\ o.req = op.req /\ Rank(o) < Rank(op)
            /\ o.step # "findAll" /\ ~Lone(o)
    BY <1>8 DEF Located, LookUp, Rank, Lone
  <2> QED BY <1>1, <1>8, <2>1, <2>2 DEF Located
<1>9. CASE PulledClosed(op)
  <2> DEFINE look == LookUp(op.req, op.booking.pr, op.title, TRUE)
             next == AfterRemoval(op.req, op.booking.pr) \cup {look}
  <2>1. op.step = "pullClosed" /\ Continue(op, next)
    BY <1>9 DEF PulledClosed
  <2>2. \A o \in {look, FindAll(op.req), FindFirst(op.req)} :
          o.req = op.req /\ Rank(o) < Rank(op) /\ ~Lone(o)
    BY <2>1 DEF LookUp, FindAll, FindFirst, Lone, Rank
  <2>3. next \subseteq {look, FindAll(op.req), FindFirst(op.req)}
    BY DEF AfterRemoval
  <2> HIDE DEF look, next
  <2>4. FollowsOn(op, next)
    BY <2>1, <2>2, <2>3 DEF FollowsOn
  <2> QED BY <2>1, <2>4
<1>10. CASE LookedUp(op)
  <2>1. LET o == Post(op.req, op.pr, op.title, op.last, info[op.pr])
        IN  /\ o.req = op.req /\ Rank(o) < Rank(op)
            /\ o.step # "findAll" /\ ~Lone(o)
    BY <1>10 DEF LookedUp, Post, Rank, Lone
  <2>2. op.step = "lookUp"
    BY <1>10 DEF LookedUp
  <2> QED BY <1>1, <1>2, <1>3, <1>10, <2>1, <2>2, LookUpLeadsTo DEF TypeOK
<1>11. CASE Posted(op) \/ PostFailed(op)
  BY <1>2, <1>3, <1>11 DEF Posted, PostFailed
<1>12. CASE CheckedHead(op)
  <2>1. LET o == StoreStatus(op.req, op.pr)
        IN  /\ o.req = op.req /\ Rank(o) < Rank(op)
            /\ o.step # "findAll" /\ ~Lone(o)
    BY <1>12 DEF CheckedHead, StoreStatus, Rank, Lone
  <2> QED BY <1>1, <1>2, <1>12, <2>1 DEF CheckedHead
<1>13. CASE StoredStatus(op)
  BY <1>2, <1>13 DEF StoredStatus
<1> QED
  BY <1>4, <1>5, <1>6, <1>7, <1>8, <1>9, <1>10, <1>11, <1>12, <1>13 DEF Answer

(* Whatever the queue and other requests do: a request goes down the chain *)
(* of its handler and never up again.                                      *)
THEOREM ChainsAlwaysDescend == Spec => ChainsDescend
<1>1. ASSUME TypeOK, [Next]_vars, NEW op \in pending' \ pending
      PROVE  \/ Idle(op.req)
             \/ \E done \in pending \ pending' :
                  done.req = op.req /\ Rank(op) < Rank(done)
  <2>1. ASSUME NEW r \in Requests, Start(r) PROVE Idle(op.req)
    BY <1>1, <2>1, StartOpens DEF Opening
  <2>2. ASSUME NEW done \in pending, Answer(done)
        PROVE  /\ done \notin pending'
               /\ done.req = op.req /\ Rank(op) < Rank(done)
    <3>1. PICK next : Continue(done, next) /\ FollowsOn(done, next)
      BY <1>1, <2>2, AnswerFollowsOn
    <3>2. \A o \in next : o.req = done.req /\ Rank(o) < Rank(done)
      BY <3>1 DEF FollowsOn
    <3>3. Rank(done) \in Nat
      BY DEF Rank
    <3>4. pending' = (pending \ {done}) \cup next
      BY <3>1 DEF Continue
    <3>5. done \notin next
      BY <3>2, <3>3
    <3> QED BY <1>1, <3>2, <3>4, <3>5
  <2>3. CASE Restart
    BY <1>1, <2>3 DEF Restart
  <2>4. CASE UNCHANGED vars
    BY <1>1, <2>4 DEF vars
  <2> QED BY <1>1, <2>1, <2>2, <2>3, <2>4 DEF Next
<1>2. TypeOK /\ [Next]_vars =>
        [\A op \in pending' \ pending :
           \/ Idle(op.req)
           \/ \E done \in pending \ pending' :
                done.req = op.req /\ Rank(op) < Rank(done)]_vars
  BY <1>1
<1> QED BY <1>2, TypeCorrect, PTL DEF Spec, ChainsDescend

(* What FewAtATime rests on: a request that is still to visit the queue has *)
(* no more than three operations under way, and one that is still to find  *)
(* or to pull what was closed has no other.                                *)
FewInv ==
  \A r \in Requests :
    /\ IsFiniteSet(Of(r))
    /\ Cardinality(Of(r)) <= MaxReported + 3
    /\ \A op \in Of(r) : op.step = "findAll" => Cardinality(Of(r)) <= 3
    /\ \A op \in Of(r) : Lone(op) => Of(r) = {op}

LEMMA ThreeAreFew ==
  ASSUME NEW S, NEW a, NEW b, NEW c, S \subseteq {a, b, c}
  PROVE  IsFiniteSet(S) /\ Cardinality(S) \in Nat /\ Cardinality(S) <= 3
<1>1. IsFiniteSet({a}) /\ Cardinality({a}) = 1
  BY FS_Singleton
<1>2. IsFiniteSet({a} \cup {b}) /\ Cardinality({a} \cup {b}) \in 1..2
  BY <1>1, FS_AddElement
<1>3. /\ IsFiniteSet(({a} \cup {b}) \cup {c})
      /\ Cardinality(({a} \cup {b}) \cup {c}) \in 1..3
  BY <1>2, FS_AddElement
<1>4. S \in SUBSET (({a} \cup {b}) \cup {c})
  OBVIOUS
<1>5. IsFiniteSet(S) /\ Cardinality(S) <= Cardinality(({a} \cup {b}) \cup {c})
  BY <1>3, <1>4, FS_Subset
<1>6. Cardinality(S) \in Nat
  BY <1>5, FS_CardinalityType
<1> QED BY <1>3, <1>5, <1>6

(* One operation goes and others take its place.                           *)
LEMMA Replaced ==
  ASSUME NEW S, NEW x \in S, NEW T, IsFiniteSet(S), IsFiniteSet(T)
  PROVE  /\ IsFiniteSet((S \ {x}) \cup T)
         /\ Cardinality(S) \in Nat /\ Cardinality(T) \in Nat
         /\ Cardinality((S \ {x}) \cup T) <= Cardinality(S) - 1 + Cardinality(T)
<1>1. IsFiniteSet(S \ {x}) /\ Cardinality(S \ {x}) = Cardinality(S) - 1
  BY FS_RemoveElement
<1>2. /\ Cardinality(S) \in Nat /\ Cardinality(T) \in Nat
      /\ Cardinality(S \ {x}) \in Nat
  BY <1>1, FS_CardinalityType
<1>3. /\ IsFiniteSet((S \ {x}) \cup T)
      /\ Cardinality((S \ {x}) \cup T) =
           Cardinality(S \ {x}) + Cardinality(T) - Cardinality((S \ {x}) \cap T)
  BY <1>1, FS_Union
<1>4. Cardinality((S \ {x}) \cap T) \in Nat
  <2>1. (S \ {x}) \cap T \in SUBSET T
    OBVIOUS
  <2> QED BY <2>1, FS_Subset, FS_CardinalityType
<1>5. Cardinality((S \ {x}) \cup T) \in Nat
  BY <1>3, FS_CardinalityType
<1> QED BY <1>1, <1>2, <1>3, <1>4, <1>5

(* A request visits the queue once at a time.                              *)
LEMMA OneVisit ==
  ASSUME NEW op \in Operation, NEW o \in Operation,
         op.step = "findAll", o.step = "findAll", op.req = o.req
  PROVE  op = o
<1> DEFINE Plain == [step: {"findFirst", "findAll", "dropQueue", "dropInfos"},
                     req: Requests]
<1>1. op \in Plain /\ o \in Plain
  BY DEF Operation
<1> QED BY <1>1

LEMMA FewAfterStart ==
  ASSUME FewInv, NEW r \in Requests, Start(r)
  PROVE  FewInv'
<1>1. PICK started : pending' = pending \cup started /\ Opening(r, started)
  BY StartOpens
<1>2. Of(r)' = started
  BY <1>1, StartOpens DEF Of, Idle, Opening
<1>3. \A q \in Requests : q # r => Of(q)' = Of(q)
  BY <1>1 DEF Of, Opening
<1>4. /\ IsFiniteSet(started) /\ Cardinality(started) \in Nat
      /\ Cardinality(started) <= 3
  BY <1>1, ThreeAreFew DEF Opening
<1>5. MaxReported \in Nat
  BY BoardAssumption
<1>6. \A op \in started : Lone(op) => started = {op}
  BY <1>1 DEF Opening
<1> QED BY <1>2, <1>3, <1>4, <1>5, <1>6 DEF FewInv

LEMMA FewAfterAnswer ==
  ASSUME TypeOK, FewInv, NEW op \in pending, Answer(op), TypeOK'
  PROVE  FewInv'
<1>1. PICK next : Continue(op, next) /\ FollowsOn(op, next)
  BY AnswerFollowsOn
<1> DEFINE r == op.req
           mine == Of(r)
           after == (mine \ {op}) \cup next
<1>2. op \in Operation /\ r \in Requests /\ op \in mine
  BY OperationFields DEF TypeOK, Of
<1>3. \A o \in next : o.req = r
  BY <1>1 DEF FollowsOn
<1>4. Of(r)' = after /\ \A q \in Requests : q # r => Of(q)' = Of(q)
  <2>1. pending' = (pending \ {op}) \cup next
    BY <1>1 DEF Continue
  <2>2. \A q : {o \in pending' : o.req = q} = Of(q)'
    BY DEF Of
  <2>3. {o \in pending' : o.req = r} = after
    BY <1>2, <1>3, <2>1 DEF Of
  <2>4. \A q \in Requests : q # r => {o \in pending' : o.req = q} = Of(q)
    BY <1>2, <1>3, <2>1 DEF Of
  <2>5. Of(r)' = {o \in pending' : o.req = op.req}
    BY <1>1 DEF Of
  <2> QED BY <2>2, <2>3, <2>4, <2>5
<1>5. /\ IsFiniteSet(mine)
      /\ Cardinality(mine) <= MaxReported + 3
      /\ \A o \in mine : o.step = "findAll" => Cardinality(mine) <= 3
      /\ \A o \in mine : Lone(o) => mine = {o}
  BY <1>2 DEF FewInv
<1>6. MaxReported \in Nat
  BY BoardAssumption
<1>7. /\ IsFiniteSet(after)
      /\ Cardinality(after) <= MaxReported + 3
      /\ \A o \in after : o.step = "findAll" => Cardinality(after) <= 3
      /\ \A o \in after : Lone(o) => after = {o}
  <2>1. CASE /\ \E o : next \subseteq {o}
             /\ \A o \in next : o.step # "findAll" /\ (Lone(o) => Lone(op))
    <3>1. /\ IsFiniteSet(next) /\ Cardinality(next) \in Nat
          /\ Cardinality(next) <= 1
      <4>1. PICK o : next \subseteq {o}
        BY <2>1
      <4>2. /\ IsFiniteSet({o}) /\ Cardinality({o}) = 1
        BY FS_Singleton
      <4> QED BY <4>1, <4>2, FS_Subset, FS_CardinalityType
    <3>2. /\ IsFiniteSet(after)
          /\ Cardinality(mine) \in Nat
          /\ Cardinality(after) <= Cardinality(mine) - 1 + Cardinality(next)
      BY <1>2, <1>5, <3>1, Replaced
    <3>3. Cardinality(after) \in Nat
      BY <3>2, FS_CardinalityType
    <3>4. Cardinality(after) <= Cardinality(mine)
      <4> HIDE DEF after, mine
      <4> QED BY <3>1, <3>2, <3>3
    <3>5. \A o \in after : o.step = "findAll" => o \in mine
      BY <2>1
    <3>6. ASSUME NEW o \in after, Lone(o) PROVE after = {o}
      <4>1. CASE o \in next
        <5>1. mine = {op}
          BY <1>2, <1>5, <2>1, <3>6, <4>1
        <5> QED BY <2>1, <4>1, <5>1
      <4>2. CASE o \in mine \ {op}
        BY <1>2, <1>5, <3>6, <4>2
      <4> QED BY <4>1, <4>2
    <3> HIDE DEF after, mine
    <3> QED BY <1>5, <1>6, <3>2, <3>3, <3>4, <3>5, <3>6
  <2>2. CASE /\ op.step = "findAll"
             /\ IsFiniteSet(next) /\ Cardinality(next) <= MaxReported + 1
             /\ \A o \in next : o.step = "lookUp"
    <3>1. /\ IsFiniteSet(after)
          /\ Cardinality(mine) \in Nat /\ Cardinality(next) \in Nat
          /\ Cardinality(after) <= Cardinality(mine) - 1 + Cardinality(next)
      BY <1>2, <1>5, <2>2, Replaced
    <3>2. Cardinality(after) \in Nat
      BY <3>1, FS_CardinalityType
    <3>3. Cardinality(mine) <= 3
      BY <1>2, <1>5, <2>2
    <3>4. ASSUME NEW o \in after PROVE o.step # "findAll" /\ ~Lone(o)
      <4>1. CASE o \in next
        BY <2>2, <4>1 DEF Lone
      <4>2. CASE o \in mine \ {op}
        <5>1. o \in Operation /\ o.req = op.req
          BY <4>2 DEF TypeOK, Of
        <5>2. o.step # "findAll"
          BY <1>2, <2>2, <4>2, <5>1, OneVisit
        <5>3. ~Lone(o)
          BY <1>2, <1>5, <4>2
        <5> QED BY <5>2, <5>3
      <4> QED BY <4>1, <4>2
    <3> HIDE DEF after, mine
    <3> QED BY <1>6, <2>2, <3>1, <3>2, <3>3, <3>4
  <2>3. CASE /\ op.step = "pullClosed"
             /\ \E a, b, c : next \subseteq {a, b, c}
             /\ \A o \in next : ~Lone(o)
    <3>1. mine = {op}
      BY <1>2, <1>5, <2>3 DEF Lone
    <3>2. after = next
      BY <3>1
    <3>3. /\ IsFiniteSet(next) /\ Cardinality(next) \in Nat
          /\ Cardinality(next) <= 3
      BY <2>3, ThreeAreFew
    <3> HIDE DEF after, mine
    <3> QED BY <1>6, <2>3, <3>2, <3>3
  <2> QED BY <1>1, <2>1, <2>2, <2>3 DEF FollowsOn
<1> HIDE DEF after, mine, r
<1> QED BY <1>4, <1>5, <1>7 DEF FewInv, mine

(* Whatever the length of the queue: what a request has under way at once  *)
(* is bounded by MAX_REPORTED_QUEUE_POSITION alone.                        *)
THEOREM RequestsStaySmall == Spec => []FewAtATime
<1>1. Init => FewInv
  <2> SUFFICES ASSUME Init, NEW r \in Requests PROVE Of(r) = {}
    BY FS_EmptySet, BoardAssumption DEF FewInv
  <2> QED BY DEF Init, Of
<1>2. TypeOK /\ TypeOK' /\ FewInv /\ [Next]_vars => FewInv'
  <2> SUFFICES ASSUME TypeOK, TypeOK', FewInv, [Next]_vars PROVE FewInv'
    OBVIOUS
  <2>1. ASSUME NEW r \in Requests, Start(r) PROVE FewInv'
    BY <2>1, FewAfterStart
  <2>2. ASSUME NEW op \in pending, Answer(op) PROVE FewInv'
    BY <2>2, FewAfterAnswer
  <2>3. CASE Restart
    <3>1. \A r \in Requests : Of(r)' = {}
      BY <2>3 DEF Restart, Of
    <3> QED BY <3>1, FS_EmptySet, BoardAssumption DEF FewInv
  <2>4. CASE UNCHANGED vars
    BY <2>4 DEF vars, FewInv, Of
  <2> QED BY <2>1, <2>2, <2>3, <2>4 DEF Next
<1>3. FewInv => FewAtATime
  BY DEF FewInv, FewAtATime, Of
<1> QED BY <1>1, <1>2, <1>3, TypeCorrect, PTL DEF Spec
===============================================================================
