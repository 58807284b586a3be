----------------------------- MODULE QueueManager -----------------------------
(***************************************************************************)
(* manager-queue.js down to the Mongo commands it sends.  addItem is one   *)
(* findOneAndUpdate with upsert: true, which Mongo runs in two steps that  *)
(* other commands can come between: match a document (and $push into it)   *)
(* or, when none matches, insert a new one, which fails with code 11000    *)
(* when a document of that _id exists by then.  removeItem and deleteQueue *)
(* are single atomic commands.                                             *)
(*                                                                         *)
(* The document of one branch is modelled; its _id is fixed.  A Callers    *)
(* element is an addItem call in flight: an HTTP POST of routes-queue.js   *)
(* or a check_run webhook.                                                 *)
(***************************************************************************)
EXTENDS Integers, Sequences, SequencesExt

CONSTANTS PullRequests, Users,
          Callers,   \* concurrent addItem calls
          NoDoc      \* the queue document of the branch does not exist

VARIABLES doc,    \* the queue field of the document, or NoDoc
          call,   \* the addItem call each caller has in flight or last made
          seen,   \* history: the call's pull request was queued meanwhile
          born    \* history: the document was created during the call

vars == <<doc, call, seen, born>>

\* pathOr([], ['queue']): a missing document reads as an empty queue.
Items == IF doc = NoDoc THEN <<>> ELSE doc

Bookings == INSTANCE BookingQueue WITH queue <- Items

Booking == Bookings!Booking
Queued(pr) == Bookings!Holds(Items, pr)

Call == [step: {"idle"}]
        \cup [step: {"matching", "inserting", "added", "refused"}, item: Booking]

InFlight(c) == call[c].step \in {"matching", "inserting"}

ASSUME NoDocAssumption == NoDoc \notin Seq(Booking)

TypeOK == /\ doc \in Seq(Booking) \cup {NoDoc}
          /\ call \in [Callers -> Call]
          /\ seen \in [Callers -> BOOLEAN]
          /\ born \in [Callers -> BOOLEAN]

Init == /\ doc = NoDoc
        /\ call = [c \in Callers |-> [step |-> "idle"]]
        /\ seen = [c \in Callers |-> FALSE]
        /\ born = [c \in Callers |-> FALSE]

\* What every change of the document means to the calls in flight.
Witnessed ==
    /\ seen' = [c \in Callers |->
                  seen[c] \/ (InFlight(c)
                              /\ Bookings!Holds(Items', call[c].item.pr))]
    /\ born' = [c \in Callers |->
                  born[c] \/ (InFlight(c) /\ doc = NoDoc /\ doc' # NoDoc)]

-----------------------------------------------------------------------------
(* addItem.                                                                *)

StartAdd(c, b) ==
    /\ ~InFlight(c)
    /\ call' = [call EXCEPT ![c] = [step |-> "matching", item |-> b]]
    /\ seen' = [seen EXCEPT ![c] = Queued(b.pr)]
    /\ born' = [born EXCEPT ![c] = FALSE]
    /\ UNCHANGED doc

\* Mutants of Matches: the filter without $ne, and one that asks for a booking
\* to be there already.
MatchesAlways(b) == doc # NoDoc
MatchesNonEmpty(b) == doc \notin {NoDoc, <<>>} /\ ~Queued(b.pr)

\* The filter {_id, 'queue.pullRequestNumber': {$ne: pr}} of addItem.
Matches(b) == doc # NoDoc /\ ~Queued(b.pr)

\* Mutant: $push with $position: 0.
MatchAndPushInFront(c) ==
    /\ call[c].step = "matching"
    /\ Matches(call[c].item)
    /\ doc' = <<call[c].item>> \o doc
    /\ call' = [call EXCEPT ![c].step = "added"]
    /\ Witnessed

MatchAndPush(c) ==
    /\ call[c].step = "matching"
    /\ Matches(call[c].item)
    /\ doc' = Append(doc, call[c].item)
    /\ call' = [call EXCEPT ![c].step = "added"]
    /\ Witnessed

MatchNothing(c) ==
    /\ call[c].step = "matching"
    /\ ~Matches(call[c].item)
    /\ call' = [call EXCEPT ![c].step = "inserting"]
    /\ UNCHANGED <<doc, seen, born>>

\* Mutant: the array holds the number and not the booking.
InsertNumber(c) ==
    /\ call[c].step = "inserting"
    /\ doc = NoDoc
    /\ doc' = <<call[c].item.pr>>
    /\ call' = [call EXCEPT ![c].step = "added"]
    /\ UNCHANGED <<seen, born>>

\* upsert: the new document holds the one booking.
Insert(c) ==
    /\ call[c].step = "inserting"
    /\ doc = NoDoc
    /\ doc' = <<call[c].item>>
    /\ call' = [call EXCEPT ![c].step = "added"]
    /\ Witnessed

\* Mutant: code 11000 sends the command again.
DuplicateKeyRetries(c) ==
    /\ call[c].step = "inserting"
    /\ doc # NoDoc
    /\ call' = [call EXCEPT ![c].step = "matching"]
    /\ UNCHANGED <<doc, seen, born>>

\* Code 11000, taken for "already present", logged, and swallowed.
DuplicateKey(c) ==
    /\ call[c].step = "inserting"
    /\ doc # NoDoc
    /\ call' = [call EXCEPT ![c].step = "refused"]
    /\ UNCHANGED <<doc, seen, born>>

-----------------------------------------------------------------------------
(* removeItem and deleteQueue.  A $pull on a missing document is a no-op;  *)
(* one that takes the last booking leaves an empty document behind.        *)

RemoveItem(b) ==
    /\ doc # NoDoc
    /\ doc' = Bookings!Pull(doc, b)
    /\ Witnessed
    /\ UNCHANGED call

DeleteQueue ==
    /\ doc' = NoDoc
    /\ Witnessed
    /\ UNCHANGED call

-----------------------------------------------------------------------------
Answer(c) == MatchAndPush(c) \/ MatchNothing(c) \/ Insert(c) \/ DuplicateKey(c)

Next == \/ \E c \in Callers : (\E b \in Booking : StartAdd(c, b)) \/ Answer(c)
        \/ \E b \in Booking : RemoveItem(b)
        \/ DeleteQueue

\* Mongo answers every command.
Fairness == \A c \in Callers : WF_vars(Answer(c))

Spec == Init /\ [][Next]_vars
FairSpec == Spec /\ Fairness

-----------------------------------------------------------------------------
\* The commands implement the FIFO of BookingQueue: whatever comes between
\* the two halves of an upsert, a booking joins at the end, once per pull
\* request, and never overwrites the bookings that are there.
ImplementsBookingQueue == Bookings!QueueSpec

\* First come, first served, whatever comes between the two halves of an
\* upsert: while a pull request is queued nobody gets ahead of it.
NobodyOvertakes == Bookings!NobodyOvertakes

\* A call that ends with code 11000 had one of two causes: its pull request
\* was queued at some moment of the call, or the document was created by
\* another call meanwhile.  So an add is lost only in the race to create the
\* document of a branch, never once the document is there to stay.
RefusedForCause ==
    \A c \in Callers : call[c].step = "refused" => seen[c] \/ born[c]

\* What the log line of addItem says of every code 11000: "PR already
\* present".
RefusedWasPresent ==
    \A c \in Callers : call[c].step = "refused" => seen[c]

\* addItem always settles: after its match misses it inserts or is refused,
\* there is no retry loop that other callers can starve.
CallsSettle == \A c \in Callers : InFlight(c) ~> ~InFlight(c)
===============================================================================
