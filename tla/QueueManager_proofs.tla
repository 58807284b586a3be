------------------------- MODULE QueueManager_proofs -------------------------
(***************************************************************************)
(* For every number of callers, pull requests and users: the Mongo         *)
(* commands of QueueManager implement BookingQueue and keep its order, a   *)
(* call that ends with code 11000 had one of the two causes that           *)
(* RefusedForCause names, and without other adds it had the first.         *)
(***************************************************************************)
EXTENDS QueueManager, SequenceTheorems, TLAPS

QueueFacts == INSTANCE BookingQueue_proofs WITH queue <- Items

LEMMA PullType ==
  ASSUME NEW q \in Seq(Booking), NEW b
  PROVE  Bookings!Pull(q, b) \in Seq(Booking)
<1>1. q \in Seq(QueueFacts!Booking)
  BY DEF QueueFacts!Booking, Booking, Bookings!Booking
<1>2. QueueFacts!Pull(q, b) \in Seq(QueueFacts!Booking)
  BY <1>1, QueueFacts!PullProperties
<1>3. QueueFacts!Pull(q, b) = Bookings!Pull(q, b)
  BY DEF QueueFacts!Pull, Bookings!Pull, QueueFacts!ToSet, Bookings!ToSet,
         QueueFacts!RemoveAt, Bookings!RemoveAt
<1> QED
  BY <1>2, <1>3 DEF QueueFacts!Booking, Booking, Bookings!Booking

LEMMA InitTypeOK == Init => TypeOK
BY DEF Init, TypeOK, Call

LEMMA CallFields ==
  ASSUME TypeOK, NEW c \in Callers, InFlight(c)
  PROVE  /\ call[c].item \in Booking
         /\ \A s \in {"matching", "inserting", "added", "refused"} :
              [call[c] EXCEPT !.step = s] \in Call
<1>1. call[c] \in [step: {"matching", "inserting", "added", "refused"},
                   item: Booking]
  BY DEF TypeOK, Call, InFlight
<1> QED BY <1>1 DEF Call

(* The types of QueueManager: the document is a queue of bookings or does  *)
(* not exist, and a call in flight knows its item.                         *)
THEOREM TypeCorrect == Spec => []TypeOK
<1>1. TypeOK /\ [Next]_vars => TypeOK'
  <2> SUFFICES ASSUME TypeOK, [Next]_vars PROVE TypeOK'
    OBVIOUS
  <2> USE DEF TypeOK
  <2>1. ASSUME NEW c \in Callers, NEW b \in Booking, StartAdd(c, b)
        PROVE  TypeOK'
    <3>1. [step |-> "matching", item |-> b] \in Call
      BY DEF Call
    <3>2. Queued(b.pr) \in BOOLEAN
      BY DEF Queued, Bookings!Holds
    <3> QED BY <2>1, <3>1, <3>2 DEF StartAdd
  <2>2. ASSUME Witnessed PROVE /\ seen' \in [Callers -> BOOLEAN]
                               /\ born' \in [Callers -> BOOLEAN]
    BY <2>2 DEF Witnessed, InFlight, Bookings!Holds
  <2>3. ASSUME NEW c \in Callers, Answer(c) PROVE TypeOK'
    <3>1. InFlight(c)
      BY <2>3 DEF Answer, MatchAndPush, MatchNothing, Insert, DuplicateKey,
                  InFlight
    <3>2. call[c].item \in Booking
      BY <3>1, CallFields
    <3>3. call' \in [Callers -> Call]
      <4>1. \A s \in {"matching", "inserting", "added", "refused"} :
              [call EXCEPT ![c].step = s] \in [Callers -> Call]
        BY <3>1, CallFields
      <4> QED BY <2>3, <4>1 DEF Answer, MatchAndPush, MatchNothing, Insert,
                                DuplicateKey
    <3>4. doc' \in Seq(Booking) \cup {NoDoc}
      <4>1. CASE MatchAndPush(c)
        BY <3>2, <4>1 DEF MatchAndPush, Matches
      <4>2. CASE Insert(c)
        <5>1. <<call[c].item>> \in Seq(Booking)
          BY <3>2
        <5> QED BY <4>2, <5>1 DEF Insert
      <4>3. CASE MatchNothing(c) \/ DuplicateKey(c)
        BY <4>3 DEF MatchNothing, DuplicateKey
      <4> QED BY <2>3, <4>1, <4>2, <4>3 DEF Answer
    <3>5. seen' \in [Callers -> BOOLEAN] /\ born' \in [Callers -> BOOLEAN]
      BY <2>2, <2>3 DEF Answer, MatchAndPush, MatchNothing, Insert,
                        DuplicateKey
    <3> QED BY <3>3, <3>4, <3>5
  <2>4. ASSUME NEW b \in Booking, RemoveItem(b) PROVE TypeOK'
    BY <2>2, <2>4, PullType DEF RemoveItem
  <2>5. CASE DeleteQueue
    BY <2>2, <2>5 DEF DeleteQueue
  <2>6. CASE UNCHANGED vars
    BY <2>6 DEF vars
  <2> QED BY <2>1, <2>3, <2>4, <2>5, <2>6 DEF Next
<1> QED BY <1>1, InitTypeOK, PTL DEF Spec

(* The two halves of an upsert, the $pull and the deletion implement the   *)
(* actions of the FIFO, or change nothing a reader of the queue can see.   *)
THEOREM ManagerImplementsBookingQueue == Spec => ImplementsBookingQueue
<1>1. Init => Bookings!QueueInit
  BY DEF Init, Bookings!QueueInit, Items
<1>2. TypeOK /\ [Next]_vars => [Bookings!QueueNext]_Items
  <2> SUFFICES ASSUME TypeOK, [Next]_vars
               PROVE  [Bookings!QueueNext]_Items
    OBVIOUS
  <2>1. ASSUME NEW c \in Callers, NEW b \in Booking, StartAdd(c, b)
        PROVE  Items' = Items
    BY <2>1 DEF StartAdd, Items
  <2>2. ASSUME NEW c \in Callers, MatchNothing(c) \/ DuplicateKey(c)
        PROVE  Items' = Items
    BY <2>2 DEF MatchNothing, DuplicateKey, Items
  <2>3. ASSUME NEW c \in Callers, MatchAndPush(c)
        PROVE  Bookings!QueueNext
    <3>1. call[c].item \in Booking
      BY <2>3, CallFields DEF MatchAndPush, InFlight
    <3>2. doc \in Seq(Booking) /\ Append(doc, call[c].item) \in Seq(Booking)
      BY <2>3, <3>1 DEF MatchAndPush, Matches, TypeOK
    <3>3. Items = doc /\ Items' = Append(doc, call[c].item)
      BY <2>3, <3>2, NoDocAssumption DEF MatchAndPush, Matches, Items
    <3>4. Bookings!Join(call[c].item)
      BY <2>3, <3>3 DEF MatchAndPush, Matches, Queued, Bookings!Join
    <3> QED BY <3>1, <3>4 DEF Bookings!QueueNext, Booking
  <2>4. ASSUME NEW c \in Callers, Insert(c)
        PROVE  Bookings!QueueNext
    <3>1. call[c].item \in Booking
      BY <2>4, CallFields DEF Insert, InFlight
    <3>2. <<call[c].item>> \in Seq(Booking)
      BY <3>1
    <3>3. Items = <<>> /\ Items' = <<call[c].item>>
      BY <2>4, <3>2, NoDocAssumption DEF Insert, Items
    <3>4. Items' = Append(Items, call[c].item)
      BY <3>3
    <3>5. ~Bookings!Holds(Items, call[c].item.pr)
      BY <3>3 DEF Bookings!Holds
    <3>6. Bookings!Join(call[c].item)
      BY <3>4, <3>5 DEF Bookings!Join
    <3> QED BY <3>1, <3>6 DEF Bookings!QueueNext, Booking
  <2>5. ASSUME NEW b \in Booking, RemoveItem(b)
        PROVE  Bookings!QueueNext
    <3>1. doc \in Seq(Booking) /\ Bookings!Pull(doc, b) \in Seq(Booking)
      BY <2>5, PullType DEF RemoveItem, TypeOK
    <3>2. Items = doc /\ Items' = Bookings!Pull(doc, b)
      BY <2>5, <3>1, NoDocAssumption DEF RemoveItem, Items
    <3>3. Bookings!Leave(b)
      BY <3>2 DEF Bookings!Leave
    <3> QED BY <3>3 DEF Bookings!QueueNext, Booking
  <2>6. ASSUME DeleteQueue PROVE Bookings!QueueNext
    BY <2>6 DEF DeleteQueue, Items, Bookings!QueueNext, Bookings!Clear
  <2>7. CASE UNCHANGED vars
    BY <2>7 DEF vars, Items
  <2> QED BY <2>1, <2>2, <2>3, <2>4, <2>5, <2>6, <2>7 DEF Next, Answer
<1> QED
  BY <1>1, <1>2, TypeCorrect, PTL
     DEF Spec, ImplementsBookingQueue, Bookings!QueueSpec

(* Nobody gets ahead of a pull request that is queued, for the commands    *)
(* implement the FIFO, where nobody does.                                  *)
THEOREM NobodyEverOvertakes == Spec => NobodyOvertakes
<1>1. Bookings!QueueInit => QueueFacts!QueueInit
  BY DEF Bookings!QueueInit, QueueFacts!QueueInit
<1>2. [Bookings!QueueNext]_Items => [QueueFacts!QueueNext]_Items
  BY DEF Bookings!QueueNext, QueueFacts!QueueNext,
         Bookings!Join, QueueFacts!Join, Bookings!Leave, QueueFacts!Leave,
         Bookings!Clear, QueueFacts!Clear, Bookings!Pull, QueueFacts!Pull,
         Bookings!RemoveAt, QueueFacts!RemoveAt,
         Bookings!ToSet, QueueFacts!ToSet, Bookings!Holds, QueueFacts!Holds,
         Bookings!Booking, QueueFacts!Booking
<1> DEFINE OldOrder == \A pr \in PullRequests :
             QueueFacts!Holds(Items, pr) /\ QueueFacts!Holds(Items', pr) =>
               QueueFacts!AheadOf(Items', pr) \subseteq
                 QueueFacts!AheadOf(Items, pr)
           NewOrder == \A pr \in PullRequests :
             Bookings!Holds(Items, pr) /\ Bookings!Holds(Items', pr) =>
               Bookings!AheadOf(Items', pr) \subseteq
                 Bookings!AheadOf(Items, pr)
<1>3. [OldOrder]_Items => [NewOrder]_Items
  BY DEF QueueFacts!Holds, Bookings!Holds, QueueFacts!AheadOf, Bookings!AheadOf
<1>4. QueueFacts!NobodyOvertakes <=> [][OldOrder]_Items
  BY DEF QueueFacts!NobodyOvertakes
<1>5. Bookings!NobodyOvertakes <=> [][NewOrder]_Items
  BY DEF Bookings!NobodyOvertakes
<1> QED
  BY <1>1, <1>2, <1>3, <1>4, <1>5, ManagerImplementsBookingQueue,
     QueueFacts!NobodyEverOvertakes, PTL
     DEF ImplementsBookingQueue, NobodyOvertakes, Bookings!QueueSpec,
         QueueFacts!QueueSpec

(* Why a call can be at its insert.                                        *)
InsertsForCause ==
    \A c \in Callers :
      /\ InFlight(c) /\ Queued(call[c].item.pr) => seen[c]
      /\ call[c].step = "inserting" => seen[c] \/ born[c] \/ doc = NoDoc

LEMMA WitnessedKeepsCause ==
  ASSUME TypeOK, InsertsForCause, RefusedForCause, Witnessed,
         NEW c \in Callers,
         call'[c] = call[c] \/ call'[c].step = "added"
  PROVE  /\ InFlight(c)' /\ Queued(call[c].item.pr)' => seen'[c]
         /\ call'[c].step = "inserting" => seen'[c] \/ born'[c] \/ doc' = NoDoc
         /\ call'[c].step = "refused" => seen'[c] \/ born'[c]
BY DEF TypeOK, InsertsForCause, RefusedForCause, Witnessed, InFlight, Queued

(* A refused add had its pull request queued at some moment of the call,   *)
(* or lost the race to create the document.                                *)
THEOREM RefusalsHaveCause == Spec => []RefusedForCause
<1>1. Init => InsertsForCause /\ RefusedForCause
  BY DEF Init, InsertsForCause, RefusedForCause, InFlight
<1>2. TypeOK /\ InsertsForCause /\ RefusedForCause /\ [Next]_vars
      => InsertsForCause' /\ RefusedForCause'
  <2> SUFFICES ASSUME TypeOK, InsertsForCause, RefusedForCause, [Next]_vars
               PROVE  InsertsForCause' /\ RefusedForCause'
    OBVIOUS
  <2> USE DEF InsertsForCause, RefusedForCause, TypeOK
  <2>1. ASSUME NEW c \in Callers, NEW b \in Booking, StartAdd(c, b)
        PROVE  InsertsForCause' /\ RefusedForCause'
    BY <2>1 DEF StartAdd, InFlight, Queued, Items
  <2>2. ASSUME NEW c \in Callers, MatchAndPush(c) \/ Insert(c)
        PROVE  InsertsForCause' /\ RefusedForCause'
    <3>1. Witnessed
      BY <2>2 DEF MatchAndPush, Insert
    <3>2. \A d \in Callers : call'[d] = call[d] \/ call'[d].step = "added"
      BY <2>2 DEF MatchAndPush, Insert, Call
    <3> QED BY <3>1, <3>2, WitnessedKeepsCause DEF InFlight, Queued
  <2>3. ASSUME NEW c \in Callers, MatchNothing(c)
        PROVE  InsertsForCause' /\ RefusedForCause'
    BY <2>3 DEF MatchNothing, Matches, InFlight, Queued, Items, Call
  <2>4. ASSUME NEW c \in Callers, DuplicateKey(c)
        PROVE  InsertsForCause' /\ RefusedForCause'
    BY <2>4 DEF DuplicateKey, InFlight, Queued, Items, Call
  <2>5. ASSUME (\E b \in Booking : RemoveItem(b)) \/ DeleteQueue
        PROVE  InsertsForCause' /\ RefusedForCause'
    <3>1. Witnessed /\ UNCHANGED call
      BY <2>5 DEF RemoveItem, DeleteQueue
    <3> QED BY <3>1, WitnessedKeepsCause DEF InFlight, Queued
  <2>6. CASE UNCHANGED vars
    BY <2>6 DEF vars, InFlight, Queued, Items
  <2> QED BY <2>1, <2>2, <2>3, <2>4, <2>5, <2>6 DEF Next, Answer
<1> QED BY <1>1, <1>2, TypeCorrect, PTL DEF Spec

(* Only the insert of the call itself can have created the document        *)
(* meanwhile.                                                              *)
CreatesItself == \A c \in Callers : born[c] => call[c].step = "added"

(* When adds to a branch come one at a time, "PR already present" is true  *)
(* of every code 11000: it takes two at once to lose a booking.  Removals  *)
(* and the deletion of the queue may come at any time.                     *)
THEOREM LoneAddIsNeverLost ==
  ASSUME \A c, d \in Callers : c = d
  PROVE  Spec => []RefusedWasPresent
<1>1. Init => CreatesItself
  BY DEF Init, CreatesItself
<1>2. TypeOK /\ CreatesItself /\ [Next]_vars => CreatesItself'
  <2> SUFFICES ASSUME TypeOK, CreatesItself, [Next]_vars PROVE CreatesItself'
    OBVIOUS
  <2> USE DEF CreatesItself, TypeOK
  <2>1. ASSUME NEW c \in Callers, NEW b \in Booking, StartAdd(c, b)
        PROVE  CreatesItself'
    BY <2>1 DEF StartAdd
  <2>2. ASSUME NEW c \in Callers, MatchAndPush(c) \/ Insert(c)
        PROVE  CreatesItself'
    BY <2>2 DEF MatchAndPush, Insert, Call
  <2>3. ASSUME NEW c \in Callers, MatchNothing(c) \/ DuplicateKey(c)
        PROVE  CreatesItself'
    BY <2>3 DEF MatchNothing, DuplicateKey
  <2>4. ASSUME (\E b \in Booking : RemoveItem(b)) \/ DeleteQueue
        PROVE  CreatesItself'
    BY <2>4 DEF RemoveItem, DeleteQueue, Witnessed
  <2>5. CASE UNCHANGED vars
    BY <2>5 DEF vars
  <2> QED BY <2>1, <2>2, <2>3, <2>4, <2>5 DEF Next, Answer
<1>3. CreatesItself /\ RefusedForCause => RefusedWasPresent
  BY DEF CreatesItself, RefusedForCause, RefusedWasPresent
<1> QED BY <1>1, <1>2, <1>3, TypeCorrect, RefusalsHaveCause, PTL DEF Spec
===============================================================================
