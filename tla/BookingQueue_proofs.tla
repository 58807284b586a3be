------------------------- MODULE BookingQueue_proofs -------------------------
(***************************************************************************)
(* What Pull does to a queue, and that the queue of BookingQueue is a      *)
(* sequence of bookings without repeated pull requests in which nobody     *)
(* overtakes whoever stays.                                                *)
(***************************************************************************)
EXTENDS BookingQueue, SequenceLemmas

(* Pull either changes nothing or closes the gap where the booking was.    *)
LEMMA PullProperties ==
  ASSUME NEW q \in Seq(Booking), NEW b
  PROVE  /\ Pull(q, b) \in Seq(Booking)
         /\ \/ /\ Pull(q, b) = q
               /\ \A i \in 1..Len(q) : q[i] # b
            \/ \E k \in 1..Len(q) :
                 /\ q[k] = b
                 /\ Len(Pull(q, b)) = Len(q) - 1
                 /\ \A j \in 1..(Len(q) - 1) :
                      Pull(q, b)[j] = IF j < k THEN q[j] ELSE q[j + 1]
<1>1. DOMAIN q = 1..Len(q)
  BY LenProperties
<1>2. CASE b \in ToSet(q)
  <2> DEFINE k == CHOOSE i \in DOMAIN q : q[i] = b
  <2>1. k \in 1..Len(q) /\ q[k] = b
    BY <1>1, <1>2 DEF ToSet
  <2>2. Pull(q, b) = RemoveAt(q, k)
    BY <1>2 DEF Pull
  <2> HIDE DEF k
  <2> QED BY <2>1, <2>2, RemoveAtCloses
<1>3. CASE b \notin ToSet(q)
  BY <1>1, <1>3 DEF Pull, ToSet
<1> QED BY <1>2, <1>3

(* No pull request is in the queue after a Pull that was not before.       *)
LEMMA PullKeepsUnique ==
  ASSUME NEW q \in Seq(Booking), NEW b,
         \A i, j \in 1..Len(q) : q[i].pr = q[j].pr => i = j
  PROVE  \A i, j \in 1..Len(Pull(q, b)) :
           Pull(q, b)[i].pr = Pull(q, b)[j].pr => i = j
<1>1. Len(q) \in Nat
  BY LenProperties
<1>2. CASE Pull(q, b) = q
  BY <1>2
<1>3. CASE \E k \in 1..Len(q) :
             /\ q[k] = b
             /\ Len(Pull(q, b)) = Len(q) - 1
             /\ \A j \in 1..(Len(q) - 1) :
                  Pull(q, b)[j] = IF j < k THEN q[j] ELSE q[j + 1]
  BY <1>1, <1>3
<1> QED BY <1>2, <1>3, PullProperties

(* Pull takes the booking it is given, and with it its pull request; every *)
(* other booking stays and none appears.                                   *)
LEMMA PullTakes ==
  ASSUME NEW q \in Seq(Booking), NEW b \in ToSet(q),
         \A i, j \in 1..Len(q) : q[i].pr = q[j].pr => i = j
  PROVE  ~Holds(Pull(q, b), b.pr)
<1>1. Len(q) \in Nat /\ DOMAIN q = 1..Len(q)
  BY LenProperties
<1>2. PICK k \in 1..Len(q) :
        /\ q[k] = b
        /\ Len(Pull(q, b)) = Len(q) - 1
        /\ \A j \in 1..(Len(q) - 1) :
             Pull(q, b)[j] = IF j < k THEN q[j] ELSE q[j + 1]
  <2>1. \E i \in 1..Len(q) : q[i] = b
    BY <1>1 DEF ToSet
  <2> QED BY <2>1, PullProperties, Zenon
<1>3. DOMAIN Pull(q, b) = 1..(Len(q) - 1)
  BY <1>2, PullProperties, LenProperties
<1> QED BY <1>1, <1>2, <1>3 DEF Holds

LEMMA PullSpares ==
  ASSUME NEW q \in Seq(Booking), NEW b, NEW c \in ToSet(q), c # b
  PROVE  c \in ToSet(Pull(q, b))
<1>1. Len(q) \in Nat /\ DOMAIN q = 1..Len(q)
  BY LenProperties
<1>2. PICK i \in 1..Len(q) : q[i] = c
  BY <1>1 DEF ToSet
<1>3. CASE Pull(q, b) = q
  BY <1>3
<1>4. ASSUME NEW k \in 1..Len(q),
             q[k] = b,
             Len(Pull(q, b)) = Len(q) - 1,
             \A j \in 1..(Len(q) - 1) :
               Pull(q, b)[j] = IF j < k THEN q[j] ELSE q[j + 1]
      PROVE  c \in ToSet(Pull(q, b))
  <2>1. DOMAIN Pull(q, b) = 1..(Len(q) - 1)
    BY <1>4, PullProperties, LenProperties
  <2>2. CASE i < k
    <3>1. i \in 1..(Len(q) - 1) /\ Pull(q, b)[i] = c
      BY <1>1, <1>2, <1>4, <2>2
    <3> QED BY <2>1, <3>1 DEF ToSet
  <2>3. CASE i > k
    <3>1. i - 1 \in 1..(Len(q) - 1) /\ Pull(q, b)[i - 1] = c
      BY <1>1, <1>2, <1>4, <2>3
    <3> QED BY <2>1, <3>1 DEF ToSet
  <2> QED BY <1>1, <1>2, <1>4, <2>2, <2>3
<1> QED BY <1>3, <1>4, PullProperties

LEMMA PullAddsNothing ==
  ASSUME NEW q \in Seq(Booking), NEW b, NEW pr, Holds(Pull(q, b), pr)
  PROVE  Holds(q, pr)
<1>1. Len(q) \in Nat /\ DOMAIN q = 1..Len(q)
  BY LenProperties
<1>2. CASE Pull(q, b) = q
  BY <1>2
<1>3. CASE \E k \in 1..Len(q) :
             /\ q[k] = b
             /\ Len(Pull(q, b)) = Len(q) - 1
             /\ \A j \in 1..(Len(q) - 1) :
                  Pull(q, b)[j] = IF j < k THEN q[j] ELSE q[j + 1]
  <2>1. DOMAIN Pull(q, b) = 1..(Len(q) - 1)
    BY <1>3, PullProperties, LenProperties
  <2> QED BY <1>1, <1>3, <2>1 DEF Holds
<1> QED BY <1>2, <1>3, PullProperties

LEMMA AppendIsSeq ==
  ASSUME NEW q \in Seq(Booking), NEW b \in Booking
  PROVE  /\ Append(q, b) \in Seq(Booking)
         /\ Len(Append(q, b)) = Len(q) + 1
         /\ \A i \in 1..Len(q) : Append(q, b)[i] = q[i]
         /\ Append(q, b)[Len(q) + 1] = b
  OBVIOUS

(* A booking of a pull request that is not queued can join.                *)
LEMMA AppendKeepsUnique ==
  ASSUME NEW q \in Seq(Booking), NEW b \in Booking,
         \A i, j \in 1..Len(q) : q[i].pr = q[j].pr => i = j,
         \A i \in 1..Len(q) : q[i].pr # b.pr
  PROVE  \A i, j \in 1..Len(Append(q, b)) :
           Append(q, b)[i].pr = Append(q, b)[j].pr => i = j
<1>1. Len(q) \in Nat
  BY LenProperties
<1>2. SUFFICES ASSUME NEW i \in 1..(Len(q) + 1), NEW j \in 1..(Len(q) + 1),
                      Append(q, b)[i].pr = Append(q, b)[j].pr
               PROVE  i = j
  BY AppendIsSeq
<1>3. CASE i = Len(q) + 1
  BY <1>1, <1>2, <1>3, AppendIsSeq
<1>4. CASE j = Len(q) + 1
  BY <1>1, <1>2, <1>4, AppendIsSeq
<1>5. CASE i \in 1..Len(q) /\ j \in 1..Len(q)
  BY <1>1, <1>2, <1>5, AppendIsSeq
<1> QED BY <1>1, <1>3, <1>4, <1>5

(* Nobody who is ahead after a Pull was behind before it.                  *)
LEMMA PullKeepsOrder ==
  ASSUME NEW q \in Seq(Booking), NEW b, NEW pr
  PROVE  AheadOf(Pull(q, b), pr) \subseteq AheadOf(q, pr)
<1>1. Len(q) \in Nat /\ DOMAIN q = 1..Len(q)
  BY LenProperties
<1>2. CASE Pull(q, b) = q
  BY <1>2
<1>3. ASSUME NEW k \in 1..Len(q),
             Len(Pull(q, b)) = Len(q) - 1,
             \A j \in 1..(Len(q) - 1) :
               Pull(q, b)[j] = IF j < k THEN q[j] ELSE q[j + 1]
      PROVE  AheadOf(Pull(q, b), pr) \subseteq AheadOf(q, pr)
  <2>1. DOMAIN Pull(q, b) = 1..(Len(q) - 1)
    BY <1>3, PullProperties, LenProperties
  <2> DEFINE from(j) == IF j < k THEN j ELSE j + 1
  <2>2. \A i, j \in 1..(Len(q) - 1) :
          /\ from(i) \in 1..Len(q)
          /\ Pull(q, b)[i] = q[from(i)]
          /\ i < j => from(i) < from(j)
    BY <1>1, <1>3
  <2> HIDE DEF from
  <2> SUFFICES ASSUME NEW i \in 1..(Len(q) - 1), NEW j \in 1..(Len(q) - 1),
                      i < j, Pull(q, b)[j].pr = pr
               PROVE  Pull(q, b)[i].pr \in AheadOf(q, pr)
    BY <2>1 DEF AheadOf
  <2>3. from(i) < from(j) /\ q[from(j)].pr = pr
    BY <2>2
  <2> QED BY <1>1, <2>2, <2>3 DEF AheadOf
<1> QED BY <1>2, <1>3, PullProperties

(* Nor does a booking that joins get ahead of one that is there.           *)
LEMMA AppendKeepsOrder ==
  ASSUME NEW q \in Seq(Booking), NEW b \in Booking, NEW pr,
         Holds(q, pr), ~Holds(q, b.pr)
  PROVE  AheadOf(Append(q, b), pr) \subseteq AheadOf(q, pr)
<1>1. Len(q) \in Nat /\ DOMAIN q = 1..Len(q)
  BY LenProperties
<1>2. DOMAIN Append(q, b) = 1..(Len(q) + 1)
  BY AppendIsSeq, LenProperties
<1>3. b.pr # pr
  BY DEF Holds
<1> SUFFICES ASSUME NEW i \in 1..(Len(q) + 1), NEW j \in 1..(Len(q) + 1),
                    i < j, Append(q, b)[j].pr = pr
             PROVE  Append(q, b)[i].pr \in AheadOf(q, pr)
  BY <1>2 DEF AheadOf
<1>4. j \in 1..Len(q) /\ i \in 1..Len(q)
  BY <1>1, <1>3, AppendIsSeq
<1>5. q[j].pr = pr /\ Append(q, b)[i] = q[i]
  BY <1>4, AppendIsSeq
<1> QED BY <1>1, <1>4, <1>5 DEF AheadOf

-----------------------------------------------------------------------------
(* The queue is a sequence of bookings.                                    *)
THEOREM QueueTypeCorrect == QueueSpec => []QueueTypeOK
<1>1. QueueInit => QueueTypeOK
  BY DEF QueueInit, QueueTypeOK
<1>2. QueueTypeOK /\ [QueueNext]_queue => QueueTypeOK'
  <2> SUFFICES ASSUME QueueTypeOK, [QueueNext]_queue PROVE QueueTypeOK'
    OBVIOUS
  <2> USE DEF QueueTypeOK
  <2>1. ASSUME NEW b \in Booking, Join(b) PROVE QueueTypeOK'
    BY <2>1 DEF Join
  <2>2. ASSUME NEW b \in Booking, Leave(b) PROVE QueueTypeOK'
    BY <2>2, PullProperties DEF Leave
  <2>3. CASE Clear
    BY <2>3 DEF Clear
  <2>4. CASE UNCHANGED queue
    BY <2>4
  <2> QED BY <2>1, <2>2, <2>3, <2>4 DEF QueueNext
<1> QED BY <1>1, <1>2, PTL DEF QueueSpec

(* A pull request never has two bookings in the queue, whoever adds and    *)
(* removes: the filter of addItem is enough.                               *)
THEOREM BookingsStayUnique == QueueSpec => []UniqueBookings
<1>1. QueueInit => UniqueBookings
  BY DEF QueueInit, UniqueBookings
<1>2. QueueTypeOK /\ UniqueBookings /\ [QueueNext]_queue => UniqueBookings'
  <2> SUFFICES ASSUME QueueTypeOK, UniqueBookings, [QueueNext]_queue
               PROVE  UniqueBookings'
    OBVIOUS
  <2>0. queue \in Seq(Booking) /\ Len(queue) \in Nat /\ DOMAIN queue = 1..Len(queue)
    BY LenProperties DEF QueueTypeOK
  <2>1. ASSUME NEW b \in Booking, Join(b) PROVE UniqueBookings'
    <3>1. /\ queue' = Append(queue, b)
          /\ \A i \in 1..Len(queue) : queue[i].pr # b.pr
      BY <2>0, <2>1 DEF Join, Holds
    <3>2. /\ queue' \in Seq(Booking)
          /\ DOMAIN queue' = 1..Len(queue')
      BY <2>0, <3>1, AppendIsSeq, LenProperties
    <3> QED BY <2>0, <3>1, <3>2, AppendKeepsUnique DEF UniqueBookings
  <2>2. ASSUME NEW b \in Booking, Leave(b) PROVE UniqueBookings'
    <3>1. queue' \in Seq(Booking) /\ DOMAIN queue' = 1..Len(queue')
      BY <2>0, <2>2, PullProperties, LenProperties DEF Leave
    <3> QED BY <2>0, <2>2, <3>1, PullKeepsUnique DEF Leave, UniqueBookings
  <2>3. CASE Clear
    BY <2>3 DEF Clear, UniqueBookings
  <2>4. CASE UNCHANGED queue
    BY <2>4 DEF UniqueBookings
  <2> QED BY <2>1, <2>2, <2>3, <2>4 DEF QueueNext
<1> QED BY <1>1, <1>2, QueueTypeCorrect, PTL DEF QueueSpec

(* The queue is first come, first served: no step lets anybody get ahead   *)
(* of a pull request that keeps its booking.                               *)
THEOREM NobodyEverOvertakes == QueueSpec => NobodyOvertakes
<1> DEFINE InOrder == \A pr \in PullRequests :
                        Holds(queue, pr) /\ Holds(queue', pr) =>
                          AheadOf(queue', pr) \subseteq AheadOf(queue, pr)
<1>1. QueueTypeOK /\ [QueueNext]_queue => [InOrder]_queue
  <2> SUFFICES ASSUME QueueTypeOK, QueueNext,
                      NEW pr \in PullRequests,
                      Holds(queue, pr), Holds(queue', pr)
               PROVE  AheadOf(queue', pr) \subseteq AheadOf(queue, pr)
    OBVIOUS
  <2> USE DEF QueueTypeOK
  <2>1. ASSUME NEW b \in Booking, Join(b)
        PROVE  AheadOf(queue', pr) \subseteq AheadOf(queue, pr)
    BY <2>1, AppendKeepsOrder DEF Join
  <2>2. ASSUME NEW b \in Booking, Leave(b)
        PROVE  AheadOf(queue', pr) \subseteq AheadOf(queue, pr)
    BY <2>2, PullKeepsOrder DEF Leave
  <2>3. CASE Clear
    BY <2>3 DEF Clear, Holds
  <2> QED BY <2>1, <2>2, <2>3 DEF QueueNext
<1> QED BY <1>1, QueueTypeCorrect, PTL DEF QueueSpec, NobodyOvertakes
===============================================================================
