--------------------------- MODULE QueueFeed_proofs ---------------------------
(***************************************************************************)
(* For every set of branches, number of pull requests and of updates under *)
(* way: the types of QueueFeed, that clients catch up, when branches are   *)
(* kept apart, and that each branch alone is a BookingQueue.               *)
(***************************************************************************)
EXTENDS BranchQueue, SequenceLemmas

-----------------------------------------------------------------------------
(* Ids.                                                                    *)

LEMMA BranchFields ==
  ASSUME NEW b \in Branches
  PROVE  /\ b.owner \in Name /\ b.repo \in Name /\ b.branch \in Name
         /\ b = [owner |-> b.owner, repo |-> b.repo, branch |-> b.branch]
         /\ b.owner \in Owners
         /\ Key(b) \in Keys
BY FeedAssumption DEF Owners, Keys

(* A name without dashes is one part, and the id shows it.                 *)
LEMMA KeyOfPlain ==
  ASSUME NEW b \in Branches, Plain(b)
  PROVE  /\ Len(Key(b)) = 2 + Len(b.branch)
         /\ Key(b)[1] = b.owner[1]
         /\ Key(b)[2] = b.repo[1]
         /\ \A i \in 1..Len(b.branch) : Key(b)[2 + i] = b.branch[i]
<1>1. /\ b.owner \in Seq(Parts) /\ b.repo \in Seq(Parts)
      /\ b.branch \in Seq(Parts)
      /\ Len(b.owner) = 1 /\ Len(b.repo) = 1
      /\ Len(b.branch) \in Nat
  BY BranchFields, LenProperties DEF Name, Plain
<1> DEFINE both == b.owner \o b.repo
<1>2. /\ both \in Seq(Parts)
      /\ Len(both) = Len(b.owner) + Len(b.repo)
      /\ \A i \in 1..(Len(b.owner) + Len(b.repo)) : both[i] =
           IF i <= Len(b.owner) THEN b.owner[i] ELSE b.repo[i - Len(b.owner)]
  BY <1>1, ConcatProperties
<1>3. Key(b) = both \o b.branch
  BY DEF Key
<1> HIDE DEF both
<1>4. /\ Len(both) = 2
      /\ both[1] = b.owner[1]
      /\ both[2] = b.repo[1]
  BY <1>1, <1>2
<1>5. /\ Len(both \o b.branch) = Len(both) + Len(b.branch)
      /\ \A i \in 1..(Len(both) + Len(b.branch)) : (both \o b.branch)[i] =
           IF i <= Len(both) THEN both[i] ELSE b.branch[i - Len(both)]
  <2>1. both \in Seq(Parts) /\ b.branch \in Seq(Parts)
    BY <1>1, <1>2
  <2> QED BY <2>1, ConcatProperties
<1> DEFINE key == both \o b.branch
<1>6. /\ Len(key) = 2 + Len(b.branch)
      /\ \A i \in 1..(2 + Len(b.branch)) : key[i] =
           IF i <= 2 THEN both[i] ELSE b.branch[i - 2]
  BY <1>4, <1>5
<1> HIDE DEF key
<1>7. /\ key[1] = both[1] /\ key[2] = both[2]
      /\ \A i \in 1..Len(b.branch) : key[2 + i] = b.branch[i]
  BY <1>1, <1>6
<1>8. Key(b) = key
  BY <1>3 DEF key
<1> QED BY <1>4, <1>6, <1>7, <1>8

(* The ids of branches whose owners and repositories have no dash in their *)
(* names differ, whatever dashes the names of the branches have.           *)
LEMMA KeyInjective ==
  ASSUME NEW b \in Branches, NEW c \in Branches, Plain(b), Plain(c),
         Key(b) = Key(c)
  PROVE  b = c
<1>1. /\ b.owner \in Seq(Parts) /\ c.owner \in Seq(Parts)
      /\ Len(b.owner) = 1 /\ Len(c.owner) = 1
  BY BranchFields DEF Name, Plain
<1>2. /\ b.repo \in Seq(Parts) /\ c.repo \in Seq(Parts)
      /\ Len(b.repo) = 1 /\ Len(c.repo) = 1
  BY BranchFields DEF Name, Plain
<1>3. /\ b.branch \in Seq(Parts) /\ c.branch \in Seq(Parts)
      /\ Len(b.branch) \in Nat /\ Len(c.branch) \in Nat
  BY BranchFields, LenProperties DEF Name
<1>4. b.owner[1] = c.owner[1] /\ b.repo[1] = c.repo[1]
  BY KeyOfPlain
<1>5. Len(b.branch) = Len(c.branch)
  BY <1>3, KeyOfPlain
<1>6. \A i \in 1..Len(b.branch) : b.branch[i] = c.branch[i]
  BY <1>5, KeyOfPlain
<1>7. b.owner = c.owner
  BY <1>1, <1>4, SeqEqual
<1>8. b.repo = c.repo
  BY <1>2, <1>4, SeqEqual
<1>9. b.branch = c.branch
  BY <1>3, <1>5, <1>6, SeqEqual
<1> QED BY <1>7, <1>8, <1>9, BranchFields

(* The template of manager-queue.js and handler-notification-pusher.js     *)
(* takes branch p-n of repository r and branch n of repository r-p for the *)
(* same: they share a document and a channel.                              *)
THEOREM DashesCollide ==
  ASSUME NEW owner \in Name, NEW r \in Parts, NEW p \in Parts, NEW n \in Name
  PROVE  Key([owner |-> owner, repo |-> <<r>>, branch |-> <<p>> \o n]) =
         Key([owner |-> owner, repo |-> <<r, p>>, branch |-> n])
<1>1. <<r>> \in Seq(Parts) /\ <<p>> \in Seq(Parts)
  OBVIOUS
<1>2. <<r>> \o <<p>> = <<r, p>>
  <2> DEFINE both == <<r>> \o <<p>>
             pair == <<r, p>>
  <2>1. /\ both \in Seq(Parts)
        /\ Len(both) = Len(<<r>>) + Len(<<p>>)
        /\ \A i \in 1..(Len(<<r>>) + Len(<<p>>)) : both[i] =
             IF i <= Len(<<r>>) THEN <<r>>[i] ELSE <<p>>[i - Len(<<r>>)]
    BY <1>1, ConcatProperties
  <2>2. pair \in Seq(Parts) /\ Len(pair) = 2 /\ pair[1] = r /\ pair[2] = p
    OBVIOUS
  <2> HIDE DEF both, pair
  <2>3. Len(both) = 2 /\ both[1] = r /\ both[2] = p
    BY <2>1
  <2>4. both = pair
    BY <2>1, <2>2, <2>3, SeqEqual
  <2> QED BY <2>4 DEF both, pair
<1>3. <<p>> \o n \in Seq(Parts) /\ <<r, p>> \in Seq(Parts)
  BY <1>1, ConcatProperties DEF Name
<1>4. (owner \o <<r>>) \o (<<p>> \o n) = owner \o (<<r>> \o (<<p>> \o n))
  BY <1>1, <1>3, ConcatAssociative DEF Name
<1>5. <<r>> \o (<<p>> \o n) = <<r, p>> \o n
  <2> DEFINE first == <<r>>
             second == <<p>>
  <2>1. first \in Seq(Parts) /\ second \in Seq(Parts) /\ n \in Seq(Parts)
    BY <1>1 DEF Name
  <2>2. first \o second = <<r, p>>
    BY <1>2
  <2> HIDE DEF first, second
  <2>3. (first \o second) \o n = first \o (second \o n)
    BY <2>1, ConcatAssociative
  <2> QED BY <2>2, <2>3, Zenon DEF first, second
<1>6. owner \o (<<r, p>> \o n) = (owner \o <<r, p>>) \o n
  BY <1>3, ConcatAssociative DEF Name
<1> QED BY <1>4, <1>5, <1>6 DEF Key

-----------------------------------------------------------------------------
(* Type correctness.                                                       *)

LEMMA PullProperties ==
  ASSUME NEW q \in Seq(Booking), NEW pr, NEW user
  PROVE  /\ Pull(q, pr, user) \in Seq(Booking)
         /\ \A i \in DOMAIN Pull(q, pr, user) : \E j \in DOMAIN q :
              Pull(q, pr, user)[i] = q[j]
<1> DEFINE hits == {i \in DOMAIN q : q[i].pr = pr /\ q[i].user = user}
<1>1. CASE hits = {}
  BY <1>1 DEF Pull
<1>2. CASE hits # {}
  <2> DEFINE k == CHOOSE i \in hits : TRUE
  <2>1. k \in DOMAIN q
    BY <1>2
  <2>2. Pull(q, pr, user) = RemoveAt(q, k)
    BY <1>2 DEF Pull
  <2>3. DOMAIN q = 1..Len(q) /\ Len(q) \in Nat
    BY LenProperties
  <2> HIDE DEF k, hits
  <2>4. /\ RemoveAt(q, k) \in Seq(Booking)
        /\ Len(RemoveAt(q, k)) = Len(q) - 1
        /\ \A j \in 1..(Len(q) - 1) :
             RemoveAt(q, k)[j] = IF j < k THEN q[j] ELSE q[j + 1]
    BY <2>1, <2>3, RemoveAtCloses
  <2>5. DOMAIN RemoveAt(q, k) = 1..(Len(q) - 1)
    BY <2>4, LenProperties
  <2> QED BY <2>2, <2>3, <2>4, <2>5
<1> QED BY <1>1, <1>2

LEMMA ItemsType ==
  ASSUME TypeOK, NEW k \in Keys
  PROVE  Items(k) \in Seq(Booking)
<1>1. docs[k] = NoDoc \/ docs[k] \in Document
  BY DEF TypeOK
<1> QED BY <1>1, EmptySeq DEF Items, Document

LEMMA InitTypeOK == Init => TypeOK
<1>1. <<>> \in Seq(Booking)
  BY EmptySeq
<1> QED BY <1>1 DEF Init, TypeOK, Update

LEMMA OutdatedType ==
  ASSUME updates \in [Updates -> Update], NEW ks
  PROVE  Outdated(ks) \in [Updates -> Update]
<1> SUFFICES ASSUME NEW u \in Updates
             PROVE  Outdated(ks)[u] \in Update
  BY DEF Outdated
<1>1. updates[u] \in Update
  OBVIOUS
<1>2. CASE updates[u].step = "sent"
  BY <1>1, <1>2 DEF Update, Idle, Outdated
<1>3. CASE updates[u].step # "sent"
  BY <1>1, <1>3 DEF Outdated
<1> QED BY <1>2, <1>3

(* The fields of an update that is under way.                              *)
LEMMA UpdateFields ==
  ASSUME TypeOK, NEW u \in Updates
  PROVE  /\ updates[u].step \in {"idle", "read", "sent"}
         /\ updates[u].step # "idle" => updates[u].key \in Keys
         /\ updates[u].step = "sent" => updates[u].items \in Seq(Booking)
         /\ updates[u].step = "sent" => updates[u].newest \in BOOLEAN
         /\ updates[u].step = "idle" <=> updates[u] = Idle
<1>1. updates[u] \in Update
  BY DEF TypeOK
<1> QED BY <1>1 DEF Update, Idle

LEMMA PublishType ==
  ASSUME TypeOK, NEW u \in Updates, NEW k \in Keys, Publish(u, k)
  PROVE  updates' \in [Updates -> Update]
<1>1. Reading(k) \in Update
  BY DEF Reading, Update
<1> QED BY <1>1 DEF TypeOK, Publish

LEMMA AddItemType ==
  ASSUME TypeOK, NEW b \in Branches, NEW pr \in PullRequests,
         NEW user \in Users, NEW u \in Updates, AddItem(b, pr, user, u)
  PROVE  TypeOK'
<1> DEFINE item == [pr |-> pr, user |-> user, branch |-> b]
<1>1. Key(b) \in Keys /\ b.owner \in Owners
  BY BranchFields
<1>2. item \in Booking
  BY DEF Booking
<1> HIDE DEF item
<1>3. Append(Items(Key(b)), item) \in Seq(Booking)
  BY <1>1, <1>2, ItemsType, AppendProperties
<1>4. [owner |-> b.owner, queue |-> Append(Items(Key(b)), item)] \in Document
  BY <1>1, <1>3 DEF Document
<1>5. docs' \in [Keys -> {NoDoc} \cup Document]
  BY <1>4 DEF AddItem, TypeOK, item
<1>6. updates' \in [Updates -> Update]
  BY <1>1, PublishType DEF AddItem
<1> QED BY <1>5, <1>6 DEF AddItem, TypeOK

LEMMA RemoveItemType ==
  ASSUME TypeOK, NEW b \in Branches, NEW pr \in PullRequests,
         NEW user \in Users, NEW u \in Updates, RemoveItem(b, pr, user, u)
  PROVE  TypeOK'
<1>1. Key(b) \in Keys
  BY BranchFields
<1>2. ASSUME docs[Key(b)] # NoDoc
      PROVE  [owner |-> docs[Key(b)].owner,
              queue |-> Pull(docs[Key(b)].queue, pr, user)] \in Document
  <2>1. docs[Key(b)] \in Document
    BY <1>1, <1>2 DEF TypeOK
  <2>2. Pull(docs[Key(b)].queue, pr, user) \in Seq(Booking)
    BY <2>1, PullProperties DEF Document
  <2> QED BY <2>1, <2>2 DEF Document
<1>3. docs' \in [Keys -> {NoDoc} \cup Document]
  BY <1>2 DEF RemoveItem, TypeOK
<1>4. updates' \in [Updates -> Update]
  BY <1>1, PublishType DEF RemoveItem
<1> QED BY <1>3, <1>4 DEF RemoveItem, TypeOK

LEMMA UpdateTypeOK ==
  ASSUME TypeOK, NEW u \in Updates, Read(u) \/ Deliver(u) \/ Fail(u)
  PROVE  TypeOK'
<1>1. Idle \in Update
  BY DEF Update
<1>2. \A ks : Outdated(ks) \in [Updates -> Update]
  BY OutdatedType DEF TypeOK
<1>3. CASE Read(u)
  <2>1. updates[u].key \in Keys
    BY <1>3, UpdateFields DEF Read
  <2>2. Sent(updates[u].key, Items(updates[u].key)) \in Update
    BY <2>1, ItemsType DEF Sent, Update
  <2> QED BY <1>2, <1>3, <2>2 DEF Read, TypeOK
<1>4. CASE Deliver(u)
  <2>1. /\ updates[u].key \in Keys
        /\ updates[u].items \in Seq(Booking)
        /\ updates[u].newest \in BOOLEAN
    BY <1>4, UpdateFields DEF Deliver
  <2> QED BY <1>1, <1>4, <2>1 DEF Deliver, TypeOK
<1>5. CASE Fail(u)
  <2>1. updates' \in [Updates -> Update]
    BY <1>1, <1>2, <1>5 DEF Fail, TypeOK
  <2>2. updates[u].step = "sent" =>
          (displaced[updates[u].key] \/ updates[u].newest) \in BOOLEAN
    OBVIOUS
  <2>3. displaced' \in [Keys -> BOOLEAN]
    BY <1>5, <2>2 DEF Fail, TypeOK
  <2> QED BY <1>5, <2>1, <2>3 DEF Fail, TypeOK
<1> QED BY <1>3, <1>4, <1>5

LEMMA NextTypeOK == TypeOK /\ [Next]_vars => TypeOK'
<1> SUFFICES ASSUME TypeOK, [Next]_vars
             PROVE  TypeOK'
  OBVIOUS
<1>1. CASE \E u \in Updates, b \in Branches, pr \in PullRequests,
              user \in Users : AddItem(b, pr, user, u)
  BY <1>1, AddItemType
<1>2. CASE \E u \in Updates, b \in Branches, pr \in PullRequests,
              user \in Users : RemoveItem(b, pr, user, u)
  BY <1>2, RemoveItemType
<1>3. CASE \E u \in Updates, b \in Branches : GetItems(b, u)
  BY <1>3, BranchFields, PublishType DEF GetItems, TypeOK
<1>4. CASE \E u \in Updates : Read(u) \/ Deliver(u) \/ Fail(u)
  BY <1>4, UpdateTypeOK
<1>5. CASE \E owner \in Owners : DeleteQueue(owner)
  BY <1>5, OutdatedType DEF DeleteQueue, TypeOK
<1>6. CASE Restart
  BY <1>6 DEF Restart, TypeOK, Update
<1>7. CASE UNCHANGED vars
  BY <1>7 DEF vars, TypeOK
<1> QED BY <1>1, <1>2, <1>3, <1>4, <1>5, <1>6, <1>7 DEF Next

(* The variables of QueueFeed keep their types: whatever the names of the  *)
(* branches, a document belongs to an owner and holds bookings.            *)
THEOREM TypeCorrect == Spec => []TypeOK
BY InitTypeOK, NextTypeOK, PTL DEF Spec

-----------------------------------------------------------------------------
(* Clients catch up.                                                       *)

(* Either an update has yet to read the queue, or what is marked as the    *)
(* newest is: on its way or shown, unless it was displaced.                *)
ToRead(k) == \E u \in Updates : updates[u] = Reading(k)

SentNewest(u, k) == /\ updates[u].step = "sent"
                    /\ updates[u].key = k
                    /\ updates[u].newest = TRUE

NewestIsRead(k) ==
  /\ \A u \in Updates : SentNewest(u, k) => updates[u].items = Items(k)
  /\ \/ \E u \in Updates : SentNewest(u, k)
     \/ displaced[k]
     \/ view[k] = Items(k)

FeedInv == \A k \in Keys : ToRead(k) \/ NewestIsRead(k)

LEMMA InitFeedInv == Init => FeedInv
BY DEF Init, FeedInv, NewestIsRead, SentNewest, Items, Idle

LEMMA FeedInvShows == TypeOK /\ FeedInv => FeedCatchesUp
<1> SUFFICES ASSUME TypeOK, FeedInv, NEW k \in Keys, ~displaced[k],
                    \A u \in Updates : updates[u] # Idle => updates[u].key # k
             PROVE  view[k] = Items(k)
  BY DEF FeedCatchesUp
<1>1. \A u \in Updates : updates[u] # Reading(k)
  BY DEF Reading, Idle
<1>2. \A u \in Updates : ~SentNewest(u, k)
  BY DEF SentNewest, Idle
<1> QED BY <1>1, <1>2 DEF FeedInv, ToRead, NewestIsRead

(* A change of one queue publishes: its update has yet to read.            *)
LEMMA ChangeFeedInv ==
  ASSUME TypeOK, FeedInv, NEW u \in Updates, NEW k \in Keys, Publish(u, k),
         UNCHANGED <<view, displaced>>,
         \A j \in Keys : j # k => docs'[j] = docs[j]
  PROVE  FeedInv'
<1> SUFFICES ASSUME NEW j \in Keys
             PROVE  (ToRead(j) \/ NewestIsRead(j))'
  BY DEF FeedInv
<1>1. updates'[u] = Reading(k)
  BY DEF Publish, TypeOK
<1>2. \A w \in Updates : w # u => updates'[w] = updates[w]
  BY DEF Publish, TypeOK
<1>3. CASE j = k
  BY <1>1, <1>3 DEF ToRead
<1>4. CASE j # k
  <2>1. Items(j)' = Items(j)
    BY <1>4 DEF Items
  <2>2. \A w \in Updates : SentNewest(w, j)' <=> SentNewest(w, j)
    BY <1>1, <1>2 DEF SentNewest, Reading, Publish, Idle
  <2>3. \A w \in Updates :
          SentNewest(w, j) => updates'[w].items = updates[w].items
    BY <1>2 DEF SentNewest, Publish, Idle
  <2>4. ToRead(j) => ToRead(j)'
    BY <1>2 DEF ToRead, Reading, Publish, Idle
  <2>5. NewestIsRead(j) => NewestIsRead(j)'
    BY <2>1, <2>2, <2>3 DEF NewestIsRead
  <2> QED BY <2>4, <2>5 DEF FeedInv
<1> QED BY <1>3, <1>4

(* What an update of another channel does is no concern of this one.       *)
LEMMA OtherChannel ==
  ASSUME TypeOK, FeedInv, NEW u \in Updates, NEW j \in Keys,
         updates[u].step # "idle", updates[u].key # j,
         updates'[u] = Idle
           \/ \E q : updates'[u] = Sent(updates[u].key, q),
         \A w \in Updates :
           w # u /\ updates[w].step # "idle" /\ updates[w].key = j =>
             updates'[w] = updates[w],
         \A w \in Updates :
           w # u => /\ updates'[w].step = updates[w].step
                    /\ updates[w].step # "idle" =>
                         updates'[w].key = updates[w].key,
         docs' = docs, view'[j] = view[j], displaced'[j] = displaced[j]
  PROVE  (ToRead(j) \/ NewestIsRead(j))'
<1>1. Items(j)' = Items(j)
  BY DEF Items
<1>2. \A w \in Updates : SentNewest(w, j)' <=> SentNewest(w, j)
  <2> SUFFICES ASSUME NEW w \in Updates
               PROVE  SentNewest(w, j)' <=> SentNewest(w, j)
    OBVIOUS
  <2>1. CASE w = u
    <3>1. CASE updates'[u] = Idle
      BY <2>1, <3>1 DEF SentNewest, Idle
    <3>2. ASSUME NEW q, updates'[u] = Sent(updates[u].key, q)
          PROVE  updates'[u].key = updates[u].key
      BY <3>2 DEF Sent
    <3> QED BY <2>1, <3>1, <3>2 DEF SentNewest
  <2>2. CASE w # u
    BY <2>2 DEF SentNewest
  <2> QED BY <2>1, <2>2
<1>3. \A w \in Updates :
        SentNewest(w, j) => updates'[w].items = updates[w].items
  BY DEF SentNewest
<1>4. ToRead(j) => ToRead(j)'
  BY DEF ToRead, Reading
<1>5. NewestIsRead(j) => NewestIsRead(j)'
  BY <1>1, <1>2, <1>3 DEF NewestIsRead
<1> QED BY <1>4, <1>5 DEF FeedInv

(* Marking what was sent about some ids changes nothing else.              *)
LEMMA OutdatedFields ==
  ASSUME TypeOK, NEW ks, NEW w \in Updates
  PROVE  /\ Outdated(ks)[w].step = updates[w].step
         /\ updates[w].step # "idle" => Outdated(ks)[w].key = updates[w].key
         /\ updates[w].step = "sent" /\ updates[w].key \in ks =>
              Outdated(ks)[w].newest = FALSE
         /\ updates[w].step = "idle" \/ updates[w].key \notin ks =>
              Outdated(ks)[w] = updates[w]
         /\ updates[w].step = "read" => Outdated(ks)[w] = updates[w]
<1>1. updates[w] \in Update
  BY DEF TypeOK
<1>2. CASE updates[w].step = "sent" /\ updates[w].key \in ks
  <2>1. /\ updates[w].key \in Keys
        /\ updates[w] \in [step: {"sent"}, key: Keys, items: Seq(Booking),
                           newest: BOOLEAN]
    BY <1>1, <1>2 DEF Update, Idle
  <2>2. Outdated(ks)[w] = [updates[w] EXCEPT !.newest = FALSE]
    BY <1>2 DEF Outdated
  <2> QED BY <1>2, <2>1, <2>2
<1>3. CASE ~(updates[w].step = "sent" /\ updates[w].key \in ks)
  BY <1>3 DEF Outdated
<1> QED BY <1>2, <1>3

LEMMA OutdatedByRead ==
  ASSUME TypeOK, NEW k, NEW w \in Updates, updates'[w] = Outdated({k})[w]
  PROVE  /\ updates'[w].step = updates[w].step
         /\ updates[w].step # "idle" => updates'[w].key = updates[w].key
         /\ updates[w].step = "sent" /\ updates[w].key = k =>
              updates'[w].newest = FALSE
         /\ updates[w].step # "idle" /\ updates[w].key # k =>
              updates'[w] = updates[w]
<1> DEFINE ks == {k}
<1>1. k \in ks /\ \A x : x # k => x \notin ks
  OBVIOUS
<1>2. updates'[w] = Outdated(ks)[w]
  OBVIOUS
<1> HIDE DEF ks
<1>3. /\ Outdated(ks)[w].step = updates[w].step
      /\ updates[w].step # "idle" => Outdated(ks)[w].key = updates[w].key
      /\ updates[w].step = "sent" /\ updates[w].key \in ks =>
           Outdated(ks)[w].newest = FALSE
      /\ updates[w].step = "idle" \/ updates[w].key \notin ks =>
           Outdated(ks)[w] = updates[w]
  BY OutdatedFields
<1> QED BY <1>1, <1>2, <1>3

LEMMA ReadFeedInv ==
  ASSUME TypeOK, FeedInv, NEW u \in Updates, Read(u)
  PROVE  FeedInv'
<1> DEFINE k == updates[u].key
<1>1. k \in Keys /\ updates[u].step = "read"
  BY UpdateFields DEF Read
<1>2. updates'[u] = Sent(k, Items(k))
  BY DEF Read, TypeOK, Outdated
<1>3. \A w \in Updates : w # u => updates'[w] = Outdated({k})[w]
  BY DEF Read, TypeOK, Outdated
<1>4. ASSUME NEW w \in Updates, w # u
      PROVE  /\ updates'[w].step = updates[w].step
             /\ updates[w].step # "idle" => updates'[w].key = updates[w].key
             /\ updates[w].step = "sent" /\ updates[w].key = k =>
                  updates'[w].newest = FALSE
             /\ updates[w].step # "idle" /\ updates[w].key # k =>
                  updates'[w] = updates[w]
  <2> HIDE DEF k
  <2> QED BY <1>3, <1>4, OutdatedByRead
<1> SUFFICES ASSUME NEW j \in Keys
             PROVE  (ToRead(j) \/ NewestIsRead(j))'
  BY DEF FeedInv
<1>5. CASE j = k
  <2>1. Items(j)' = Items(j)
    BY DEF Read, Items
  <2>2. SentNewest(u, j)' /\ updates'[u].items = Items(j)
    BY <1>2, <1>5 DEF SentNewest, Sent
  <2>3. \A w \in Updates : w # u => ~SentNewest(w, j)'
    BY <1>4, <1>5 DEF SentNewest
  <2> QED BY <2>1, <2>2, <2>3 DEF NewestIsRead
<1>6. CASE j # k
  <2>1. \A w \in Updates :
          w # u /\ updates[w].step # "idle" /\ updates[w].key = j =>
            updates'[w] = updates[w]
    BY <1>4, <1>6
  <2> HIDE DEF k
  <2>2. docs' = docs /\ view' = view /\ displaced' = displaced
    BY DEF Read
  <2>3. updates[u].step # "idle"
    BY <1>1
  <2>4. \E q : updates'[u] = Sent(updates[u].key, q)
    BY <1>2 DEF k
  <2> QED BY <1>4, <1>6, <2>1, <2>2, <2>3, <2>4, OtherChannel DEF k
<1> QED BY <1>5, <1>6

LEMMA DeliverFeedInv ==
  ASSUME TypeOK, FeedInv, NEW u \in Updates, Deliver(u)
  PROVE  FeedInv'
<1> DEFINE k == updates[u].key
<1>1. /\ k \in Keys
      /\ updates[u].step = "sent"
      /\ updates[u].newest \in BOOLEAN
  BY UpdateFields DEF Deliver
<1>2. /\ updates'[u] = Idle
      /\ \A w \in Updates : w # u => updates'[w] = updates[w]
      /\ view'[k] = updates[u].items
      /\ displaced'[k] = ~updates[u].newest
      /\ \A j \in Keys : j # k =>
           view'[j] = view[j] /\ displaced'[j] = displaced[j]
      /\ docs' = docs
  BY <1>1 DEF Deliver, TypeOK
<1> SUFFICES ASSUME NEW j \in Keys
             PROVE  (ToRead(j) \/ NewestIsRead(j))'
  BY DEF FeedInv
<1>3. CASE j = k
  <2>1. Items(j)' = Items(j)
    BY <1>2 DEF Items
  <2>2. ToRead(j) => ToRead(j)'
    BY <1>1, <1>2 DEF ToRead, Reading
  <2>3. \A w \in Updates :
          SentNewest(w, j)' => SentNewest(w, j) /\ updates'[w] = updates[w]
    BY <1>2 DEF SentNewest, Idle
  <2>4. ASSUME NewestIsRead(j)
        PROVE  NewestIsRead(j)'
    <3>1. \A w \in Updates : SentNewest(w, j)' => updates'[w].items = Items(j)
      BY <2>3, <2>4 DEF NewestIsRead
    <3>2. CASE updates[u].newest = TRUE
      <4>1. updates[u].items = Items(j)
        BY <1>1, <1>3, <2>4, <3>2 DEF NewestIsRead, SentNewest
      <4> QED BY <1>2, <1>3, <2>1, <3>1, <4>1 DEF NewestIsRead
    <3>3. CASE updates[u].newest = FALSE
      <4>1. displaced'[j]
        BY <1>2, <1>3, <3>3
      <4> QED BY <2>1, <3>1, <4>1 DEF NewestIsRead
    <3> QED BY <1>1, <3>2, <3>3
  <2> QED BY <2>2, <2>4 DEF FeedInv
<1>4. CASE j # k
  BY <1>1, <1>2, <1>4, OtherChannel
<1> QED BY <1>3, <1>4

LEMMA FailFeedInv ==
  ASSUME TypeOK, FeedInv, NEW u \in Updates, Fail(u)
  PROVE  FeedInv'
<1> DEFINE k == updates[u].key
<1>1. k \in Keys /\ updates[u].step # "idle"
  BY UpdateFields DEF Fail
<1>2. /\ updates'[u] = Idle
      /\ docs' = docs
      /\ view' = view
      /\ \A j \in Keys : j # k => displaced'[j] = displaced[j]
  BY <1>1 DEF Fail, TypeOK, Outdated
<1> HIDE DEF k
<1>3. CASE updates[u].step = "read"
  <2>1. /\ \A w \in Updates : w # u => updates'[w] = Outdated({k})[w]
        /\ displaced'[k]
    BY <1>1, <1>3 DEF Fail, TypeOK, Outdated, k
  <2>2. ASSUME NEW w \in Updates, w # u
        PROVE  /\ updates'[w].step = updates[w].step
               /\ updates[w].step # "idle" => updates'[w].key = updates[w].key
               /\ updates[w].step = "sent" /\ updates[w].key = k =>
                    updates'[w].newest = FALSE
               /\ updates[w].step # "idle" /\ updates[w].key # k =>
                    updates'[w] = updates[w]
    BY <2>1, <2>2, OutdatedByRead
  <2> SUFFICES ASSUME NEW j \in Keys
               PROVE  (ToRead(j) \/ NewestIsRead(j))'
    BY DEF FeedInv
  <2>3. CASE j = k
    <3>1. ~SentNewest(u, j)'
      BY <1>2 DEF SentNewest, Idle
    <3>2. \A w \in Updates : w # u => ~SentNewest(w, j)'
      <4> SUFFICES ASSUME NEW w \in Updates, w # u, SentNewest(w, j)'
                   PROVE  FALSE
        OBVIOUS
      <4>1. updates[w].step = "sent" /\ updates[w].key = k
        BY <2>2, <2>3 DEF SentNewest
      <4> QED BY <2>2, <4>1 DEF SentNewest
    <3> QED BY <2>1, <2>3, <3>1, <3>2 DEF NewestIsRead
  <2>4. CASE j # k
    <3>1. view'[j] = view[j] /\ displaced'[j] = displaced[j]
      BY <1>2, <2>4
    <3> QED BY <1>1, <1>2, <2>2, <2>4, <3>1, OtherChannel DEF k
  <2> QED BY <2>3, <2>4
<1>4. CASE updates[u].step = "sent"
  <2>1. /\ \A w \in Updates : w # u => updates'[w] = updates[w]
        /\ displaced'[k] = (displaced[k] \/ updates[u].newest)
        /\ updates[u].newest \in BOOLEAN
        /\ displaced[k] \in BOOLEAN
    BY <1>1, <1>4, UpdateFields DEF Fail, TypeOK, k
  <2> SUFFICES ASSUME NEW j \in Keys
               PROVE  (ToRead(j) \/ NewestIsRead(j))'
    BY DEF FeedInv
  <2>2. CASE j = k
    <3>1. Items(j)' = Items(j)
      BY <1>2 DEF Items
    <3>2. ToRead(j) => ToRead(j)'
      BY <1>4, <2>1 DEF ToRead, Reading
    <3>3. \A w \in Updates :
            SentNewest(w, j)' => SentNewest(w, j) /\ updates'[w] = updates[w]
      BY <1>2, <2>1 DEF SentNewest, Idle
    <3>4. \A w \in Updates : w # u /\ SentNewest(w, j) => SentNewest(w, j)'
      BY <2>1 DEF SentNewest
    <3>5. SentNewest(u, j) => displaced'[j]
      BY <1>4, <2>1, <2>2 DEF SentNewest
    <3>6. displaced[j] => displaced'[j]
      BY <2>1, <2>2
    <3>7. NewestIsRead(j) => NewestIsRead(j)'
      BY <1>2, <3>1, <3>3, <3>4, <3>5, <3>6 DEF NewestIsRead
    <3> QED BY <3>2, <3>7 DEF FeedInv
  <2>3. CASE j # k
    <3>1. view'[j] = view[j] /\ displaced'[j] = displaced[j]
      BY <1>2, <2>3
    <3> QED BY <1>1, <1>2, <2>1, <2>3, <3>1, OtherChannel DEF k
  <2> QED BY <2>2, <2>3
<1> QED BY <1>1, <1>3, <1>4, UpdateFields

LEMMA DeleteFeedInv ==
  ASSUME TypeOK, FeedInv, NEW owner, DeleteQueue(owner)
  PROVE  FeedInv'
<1> DEFINE ks == {k \in Keys : docs[k] # NoDoc /\ docs[k].owner = owner}
<1>1. /\ \A k \in Keys : docs'[k] = IF k \in ks THEN NoDoc ELSE docs[k]
      /\ updates' = Outdated(ks)
      /\ \A k \in Keys : displaced'[k] = (k \in ks \/ displaced[k])
      /\ view' = view
  BY DEF DeleteQueue
<1> HIDE DEF ks
<1> SUFFICES ASSUME NEW j \in Keys
             PROVE  (ToRead(j) \/ NewestIsRead(j))'
  BY DEF FeedInv
<1>2. ToRead(j) => ToRead(j)'
  <2> SUFFICES ASSUME NEW w \in Updates, updates[w] = Reading(j)
               PROVE  updates'[w] = Reading(j)
    BY DEF ToRead
  <2>1. updates[w].step = "read"
    BY DEF Reading
  <2>2. Outdated(ks)[w] = updates[w]
    BY <2>1, OutdatedFields
  <2> QED BY <1>1, <2>2
<1>3. CASE j \in ks
  <2>1. \A w \in Updates : ~SentNewest(w, j)'
    <3> SUFFICES ASSUME NEW w \in Updates, SentNewest(w, j)'
                 PROVE  FALSE
      OBVIOUS
    <3>1. updates[w].step = "sent" /\ updates[w].key = j
      BY <1>1, OutdatedFields DEF SentNewest
    <3> QED BY <1>1, <1>3, <3>1, OutdatedFields DEF SentNewest
  <2>2. displaced'[j]
    BY <1>1, <1>3
  <2> QED BY <2>1, <2>2 DEF NewestIsRead
<1>4. CASE j \notin ks
  <2>1. /\ Items(j)' = Items(j)
        /\ view'[j] = view[j]
        /\ displaced[j] => displaced'[j]
    BY <1>1, <1>4 DEF Items
  <2>2. ASSUME NEW w \in Updates
        PROVE  /\ SentNewest(w, j)' <=> SentNewest(w, j)
               /\ SentNewest(w, j) => updates'[w] = updates[w]
    <3>1. CASE updates[w].step = "sent" /\ updates[w].key = j
      <4>1. updates'[w] = updates[w]
        BY <1>1, <1>4, <3>1, OutdatedFields
      <4> QED BY <4>1 DEF SentNewest
    <3>2. CASE ~(updates[w].step = "sent" /\ updates[w].key = j)
      <4>1. ~(updates'[w].step = "sent" /\ updates'[w].key = j)
        BY <1>1, <3>2, OutdatedFields
      <4> QED BY <3>2, <4>1 DEF SentNewest
    <3> QED BY <3>1, <3>2
  <2>3. NewestIsRead(j) => NewestIsRead(j)'
    BY <2>1, <2>2 DEF NewestIsRead
  <2> QED BY <1>2, <2>3 DEF FeedInv
<1> QED BY <1>3, <1>4

LEMMA RestartFeedInv ==
  ASSUME TypeOK, FeedInv, Restart
  PROVE  FeedInv'
<1>1. /\ \A w \in Updates : updates'[w] = Idle
      /\ \A k \in Keys : displaced'[k] =
           (displaced[k] \/ \E w \in Updates : updates[w].step # "idle"
                                               /\ updates[w].key = k)
      /\ docs' = docs /\ view' = view
  BY DEF Restart
<1> SUFFICES ASSUME NEW j \in Keys
             PROVE  NewestIsRead(j)'
  BY DEF FeedInv
<1>2. \A w \in Updates : ~SentNewest(w, j)'
  BY <1>1 DEF SentNewest, Idle
<1>3. CASE \E w \in Updates : updates[w].step # "idle" /\ updates[w].key = j
  BY <1>1, <1>2, <1>3 DEF NewestIsRead
<1>4. CASE ~\E w \in Updates : updates[w].step # "idle" /\ updates[w].key = j
  <2>1. ~ToRead(j) /\ \A w \in Updates : ~SentNewest(w, j)
    BY <1>4 DEF ToRead, SentNewest, Reading
  <2>2. displaced[j] \/ view[j] = Items(j)
    BY <2>1 DEF FeedInv, NewestIsRead
  <2>3. Items(j)' = Items(j)
    BY <1>1 DEF Items
  <2> QED BY <1>1, <1>2, <2>2, <2>3 DEF NewestIsRead
<1> QED BY <1>3, <1>4

LEMMA NextFeedInv == TypeOK /\ FeedInv /\ [Next]_vars => FeedInv'
<1> SUFFICES ASSUME TypeOK, FeedInv, [Next]_vars
             PROVE  FeedInv'
  OBVIOUS
<1>1. ASSUME NEW u \in Updates, NEW b \in Branches, NEW pr \in PullRequests,
             NEW user \in Users, AddItem(b, pr, user, u)
      PROVE  FeedInv'
  BY <1>1, BranchFields, ChangeFeedInv DEF AddItem, TypeOK
<1>2. ASSUME NEW u \in Updates, NEW b \in Branches, NEW pr \in PullRequests,
             NEW user \in Users, RemoveItem(b, pr, user, u)
      PROVE  FeedInv'
  BY <1>2, BranchFields, ChangeFeedInv DEF RemoveItem, TypeOK
<1>3. ASSUME NEW u \in Updates, NEW b \in Branches, GetItems(b, u)
      PROVE  FeedInv'
  BY <1>3, BranchFields, ChangeFeedInv DEF GetItems
<1>4. CASE \E u \in Updates : Read(u) \/ Deliver(u) \/ Fail(u)
  BY <1>4, ReadFeedInv, DeliverFeedInv, FailFeedInv
<1>5. CASE \E owner \in Owners : DeleteQueue(owner)
  BY <1>5, DeleteFeedInv
<1>6. CASE Restart
  BY <1>6, RestartFeedInv
<1>7. CASE UNCHANGED vars
  BY <1>7 DEF vars, FeedInv, ToRead, NewestIsRead, SentNewest, Items
<1> QED BY <1>1, <1>2, <1>3, <1>4, <1>5, <1>6, <1>7 DEF Next

(* However many updates of a channel overtake each other on their way to   *)
(* read the queue, the last one to read has seen every change: when its    *)
(* snapshot is the one shown, the queue of FeedCatchesUp is shown.         *)
THEOREM ClientsCatchUp == Spec => []FeedCatchesUp
<1>1. Init => TypeOK /\ FeedInv
  BY InitTypeOK, InitFeedInv
<1>2. TypeOK /\ FeedInv /\ [Next]_vars => (TypeOK /\ FeedInv)'
  BY NextTypeOK, NextFeedInv
<1> QED BY <1>1, <1>2, FeedInvShows, PTL DEF Spec

-----------------------------------------------------------------------------
(* Branches are kept apart.                                                *)

(* A document is of an owner, and its bookings are of branches, whose id   *)
(* it has; with dashes in their names these may be several.                *)
OfId(doc, k) ==
    doc # NoDoc =>
      /\ \E d \in Branches : Key(d) = k /\ d.owner = doc.owner
      /\ \A i \in DOMAIN doc.queue : Key(doc.queue[i].branch) = k

ApartInv == \A k \in Keys : OfId(docs[k], k)

(* A concatenation starts as its first sequence does.                      *)
LEMMA ConcatHead ==
  ASSUME NEW S, NEW s \in Seq(S), NEW t \in Seq(S), s # <<>>
  PROVE  s \o t \in Seq(S) /\ s \o t # <<>> /\ (s \o t)[1] = s[1]
<1> DEFINE both == s \o t
           n == Len(s)
           m == Len(t)
<1>1. n \in Nat /\ m \in Nat /\ n > 0
  BY LenProperties, EmptySeq
<1>2. /\ both \in Seq(S) /\ Len(both) = n + m
      /\ \A i \in 1..(n + m) : both[i] = IF i <= n THEN s[i] ELSE t[i - n]
  BY ConcatProperties
<1> HIDE DEF both, n, m
<1>3. Len(both) > 0 /\ 1 \in 1..(n + m) /\ 1 <= n
  BY <1>1, <1>2
<1>4. both[1] = s[1]
  BY <1>2, <1>3
<1>5. both # <<>>
  BY <1>3, EmptySeq
<1> QED BY <1>2, <1>4, <1>5 DEF both

(* An id starts with the first part of the name of its owner.              *)
LEMMA KeyHead ==
  ASSUME NEW b \in Branches
  PROVE  b.owner \in Seq(Parts) /\ Key(b)[1] = b.owner[1]
<1>1. /\ b.owner \in Seq(Parts) /\ b.repo \in Seq(Parts)
      /\ b.branch \in Seq(Parts) /\ b.owner # <<>>
  BY BranchFields, FeedAssumption DEF Name
<1> DEFINE both == b.owner \o b.repo
<1>2. both \in Seq(Parts) /\ both # <<>> /\ both[1] = b.owner[1]
  BY <1>1, ConcatHead
<1>3. Key(b) = both \o b.branch
  BY DEF Key
<1> HIDE DEF both
<1>4. (both \o b.branch)[1] = both[1]
  BY <1>1, <1>2, ConcatHead
<1> QED BY <1>1, <1>2, <1>3, <1>4

LEMMA ApartInvShows == TypeOK /\ ApartInv => BookingsStayApart
<1> SUFFICES ASSUME TypeOK, ApartInv, NEW b \in Branches, Plain(b),
                    NEW i \in DOMAIN Items(Key(b)),
                    Plain(Items(Key(b))[i].branch)
             PROVE  Items(Key(b))[i].branch = b
  BY DEF BookingsStayApart
<1>1. Key(b) \in Keys
  BY BranchFields
<1>2. CASE docs[Key(b)] = NoDoc
  BY <1>2 DEF Items
<1>3. CASE docs[Key(b)] # NoDoc
  <2>1. Key(Items(Key(b))[i].branch) = Key(b)
    BY <1>1, <1>3 DEF Items, ApartInv, OfId
  <2>2. Items(Key(b))[i].branch \in Branches
    <3>1. Items(Key(b)) \in Seq(Booking)
      BY <1>1, ItemsType
    <3>2. Items(Key(b))[i] \in Booking
      BY <3>1, ElementOfSeq, LenProperties
    <3> QED BY <3>2 DEF Booking
  <2> QED BY <2>1, <2>2, KeyInjective
<1> QED BY <1>2, <1>3

LEMMA AddItemApart ==
  ASSUME TypeOK, ApartInv, NEW b \in Branches, NEW pr \in PullRequests,
         NEW user \in Users, NEW u, AddItem(b, pr, user, u)
  PROVE  ApartInv'
<1> DEFINE item == [pr |-> pr, user |-> user, branch |-> b]
           queue == Append(Items(Key(b)), item)
<1>1. Key(b) \in Keys
  BY BranchFields
<1>2. docs' = [docs EXCEPT ![Key(b)] = [owner |-> b.owner, queue |-> queue]]
  BY DEF AddItem
<1>3. \A i \in DOMAIN queue : Key(queue[i].branch) = Key(b)
  <2>1. Items(Key(b)) \in Seq(Booking)
    BY <1>1, ItemsType
  <2>2. \A i \in DOMAIN Items(Key(b)) : Key(Items(Key(b))[i].branch) = Key(b)
    BY <1>1 DEF ApartInv, OfId, Items
  <2>3. item.branch = b /\ item \in Booking
    BY DEF Booking
  <2> HIDE DEF item
  <2> DEFINE q == Items(Key(b))
  <2>4. q \in Seq(Booking) /\ \A i \in DOMAIN q : Key(q[i].branch) = Key(b)
    BY <2>1, <2>2
  <2>5. queue = Append(q, item)
    OBVIOUS
  <2> HIDE DEF queue, q
  <2>6. /\ DOMAIN queue = 1..(Len(q) + 1) /\ DOMAIN q = 1..Len(q)
        /\ Len(q) \in Nat
        /\ \A i \in 1..Len(q) : queue[i] = q[i]
        /\ queue[Len(q) + 1] = item
    BY <2>3, <2>4, <2>5, AppendProperties, LenProperties
  <2> QED
    <3> SUFFICES ASSUME NEW i \in DOMAIN queue
                 PROVE  Key(queue[i].branch) = Key(b)
      OBVIOUS
    <3>1. CASE i \in 1..Len(q)
      BY <2>4, <2>6, <3>1
    <3>2. CASE i = Len(q) + 1
      BY <2>3, <2>6, <3>2
    <3> QED BY <2>6, <3>1, <3>2
<1> HIDE DEF queue
<1> DEFINE new == [owner |-> b.owner, queue |-> queue]
<1>4. new.owner = b.owner /\ new.queue = queue
  OBVIOUS
<1>5. docs' = [docs EXCEPT ![Key(b)] = new]
  BY <1>2
<1> HIDE DEF new
<1>6. OfId(new, Key(b))
  BY <1>3, <1>4 DEF OfId
<1>7. \A k \in Keys : docs'[k] = IF k = Key(b) THEN new ELSE docs[k]
  BY <1>5 DEF TypeOK
<1> QED BY <1>6, <1>7 DEF ApartInv

LEMMA RemoveItemApart ==
  ASSUME TypeOK, ApartInv, NEW b \in Branches, NEW pr, NEW user,
         NEW u, RemoveItem(b, pr, user, u)
  PROVE  ApartInv'
<1> DEFINE doc == docs[Key(b)]
           queue == Pull(doc.queue, pr, user)
<1>1. Key(b) \in Keys
  BY BranchFields
<1>2. \A k \in Keys : docs'[k] =
        IF k # Key(b) THEN docs[k]
        ELSE IF doc = NoDoc THEN NoDoc
             ELSE [owner |-> doc.owner, queue |-> queue]
  BY <1>1 DEF RemoveItem, TypeOK
<1>3. OfId(doc, Key(b)) /\ doc \in {NoDoc} \cup Document
  BY <1>1 DEF ApartInv, TypeOK
<1>4. ASSUME doc # NoDoc
      PROVE  \A i \in DOMAIN queue : Key(queue[i].branch) = Key(b)
  <2>1. doc.queue \in Seq(Booking)
    BY <1>3, <1>4 DEF Document
  <2> HIDE DEF doc
  <2>2. \A i \in DOMAIN queue : \E j \in DOMAIN doc.queue :
          queue[i] = doc.queue[j]
    BY <2>1, PullProperties
  <2> HIDE DEF queue
  <2> QED BY <1>3, <1>4, <2>2 DEF OfId
<1> HIDE DEF queue, doc
<1> DEFINE new == [owner |-> doc.owner, queue |-> queue]
<1>5. new.owner = doc.owner /\ new.queue = queue
  OBVIOUS
<1>6. \A k \in Keys : docs'[k] = IF k # Key(b) THEN docs[k]
                                 ELSE IF doc = NoDoc THEN NoDoc ELSE new
  BY <1>2
<1> HIDE DEF new
<1>7. OfId(IF doc = NoDoc THEN NoDoc ELSE new, Key(b))
  BY <1>3, <1>4, <1>5 DEF OfId
<1> QED BY <1>6, <1>7 DEF ApartInv

LEMMA NextApartInv == TypeOK /\ ApartInv /\ [Next]_vars => ApartInv'
<1> SUFFICES ASSUME TypeOK, ApartInv, [Next]_vars
             PROVE  ApartInv'
  OBVIOUS
<1>1. CASE \E u \in Updates, b \in Branches, pr \in PullRequests,
              user \in Users : AddItem(b, pr, user, u)
  BY <1>1, AddItemApart
<1>2. CASE \E u \in Updates, b \in Branches, pr \in PullRequests,
              user \in Users : RemoveItem(b, pr, user, u)
  BY <1>2, RemoveItemApart
<1>3. CASE \E owner \in Owners : DeleteQueue(owner)
  BY <1>3 DEF DeleteQueue, OfId, ApartInv
<1>4. CASE docs' = docs
  BY <1>4 DEF ApartInv
<1> QED BY <1>1, <1>2, <1>3, <1>4
        DEF Next, GetItems, Read, Deliver, Fail, Restart, vars

LEMMA InitApartInv == Init => ApartInv
BY DEF Init, ApartInv, OfId

(* The bookings of a branch whose owner and repository have no dash in     *)
(* their names never turn up in the queue of another such branch, whatever *)
(* the names of the branches are and whoever shares their documents.  For  *)
(* other names the ids collide: DashesCollide.                             *)
THEOREM BranchesApart == Spec => []BookingsStayApart
<1>1. Init => TypeOK /\ ApartInv
  BY InitTypeOK, InitApartInv
<1>2. TypeOK /\ ApartInv /\ [Next]_vars => (TypeOK /\ ApartInv)'
  BY NextTypeOK, NextApartInv
<1> QED BY <1>1, <1>2, ApartInvShows, PTL DEF Spec

(* Documents of one owner have ids that start alike.                       *)
LEMMA OwnerOfIds ==
  ASSUME ApartInv, NEW b \in Branches, NEW c \in Branches, Plain(b), Plain(c),
         docs[Key(b)] # NoDoc, docs[Key(c)] # NoDoc,
         docs[Key(b)].owner = docs[Key(c)].owner
  PROVE  b.owner = c.owner
<1>1. PICK d \in Branches : Key(d) = Key(b) /\ d.owner = docs[Key(b)].owner
  BY BranchFields DEF ApartInv, OfId
<1>2. PICK e \in Branches : Key(e) = Key(c) /\ e.owner = docs[Key(c)].owner
  BY BranchFields DEF ApartInv, OfId
<1>3. Key(b)[1] = Key(c)[1]
  BY <1>1, <1>2, KeyHead
<1>4. b.owner[1] = c.owner[1]
  BY <1>3, KeyHead
<1>5. /\ b.owner \in Seq(Parts) /\ c.owner \in Seq(Parts)
      /\ Len(b.owner) = 1 /\ Len(c.owner) = 1
  BY KeyHead DEF Plain
<1> QED BY <1>4, <1>5, SeqEqual

LEMMA StepOwnersApart ==
  ASSUME TypeOK, ApartInv, [Next]_vars,
         NEW b \in Branches, NEW c \in Branches, Plain(b), Plain(c),
         Items(Key(b))' # Items(Key(b)), Items(Key(c))' # Items(Key(c))
  PROVE  b.owner = c.owner
<1>1. docs'[Key(b)] # docs[Key(b)] /\ docs'[Key(c)] # docs[Key(c)]
  BY DEF Items
<1>2. ASSUME NEW d \in Branches,
             \A k \in Keys : k # Key(d) => docs'[k] = docs[k]
      PROVE  b.owner = c.owner
  <2>1. Key(b) = Key(d) /\ Key(c) = Key(d)
    BY <1>1, <1>2, BranchFields
  <2> QED BY <2>1, KeyInjective
<1>3. ASSUME NEW u \in Updates, NEW d \in Branches, NEW pr \in PullRequests,
             NEW user \in Users,
             AddItem(d, pr, user, u) \/ RemoveItem(d, pr, user, u)
      PROVE  b.owner = c.owner
  <2>1. \A k \in Keys : k # Key(d) => docs'[k] = docs[k]
    BY <1>3 DEF AddItem, RemoveItem, TypeOK
  <2> QED BY <1>2, <2>1
<1>4. ASSUME NEW owner \in Owners, DeleteQueue(owner)
      PROVE  b.owner = c.owner
  <2>1. \A d \in Branches : docs'[Key(d)] # docs[Key(d)] =>
          docs[Key(d)] # NoDoc /\ docs[Key(d)].owner = owner
    BY <1>4, BranchFields DEF DeleteQueue
  <2> QED BY <1>1, <2>1, OwnerOfIds
<1>5. docs' # docs
  BY <1>1
<1> QED BY <1>3, <1>4, <1>5
        DEF Next, GetItems, Read, Deliver, Fail, Restart, vars

(* No step touches the queues of two owners with such names, also where    *)
(* their documents are shared with others: a deletion by the owner field   *)
(* finds ids that start alike.                                             *)
THEOREM OwnersApart == Spec => OwnersStayApart
<1>1. Init => TypeOK /\ ApartInv
  BY InitTypeOK, InitApartInv
<1>2. TypeOK /\ ApartInv /\ [Next]_vars => (TypeOK /\ ApartInv)'
  BY NextTypeOK, NextApartInv
<1>3. TypeOK /\ ApartInv /\ [Next]_vars =>
        [\A b, c \in Branches :
           /\ Plain(b) /\ Plain(c)
           /\ Items(Key(b))' # Items(Key(b))
           /\ Items(Key(c))' # Items(Key(c))
           => b.owner = c.owner]_vars
  BY StepOwnersApart
<1> QED BY <1>1, <1>2, <1>3, PTL DEF Spec, OwnersStayApart

-----------------------------------------------------------------------------
(* The queue of a branch is a BookingQueue.                                *)

(* Under no id is a pull request queued twice.                             *)
NoRepeats(q) == \A i, j \in DOMAIN q : q[i].pr = q[j].pr => i = j
EachOnce == \A k \in Keys : NoRepeats(Items(k))

(* What Pull does in detail: nothing when nothing matches, and else it     *)
(* closes the gap where a matching booking was.                            *)
LEMMA PullCloses ==
  ASSUME NEW q \in Seq(Booking), NEW pr, NEW user
  PROVE  \/ /\ Pull(q, pr, user) = q
            /\ \A i \in 1..Len(q) : ~(q[i].pr = pr /\ q[i].user = user)
         \/ \E k \in 1..Len(q) :
              /\ q[k].pr = pr /\ q[k].user = user
              /\ Pull(q, pr, user) = RemoveAt(q, k)
<1> DEFINE hits == {i \in DOMAIN q : q[i].pr = pr /\ q[i].user = user}
<1>1. DOMAIN q = 1..Len(q)
  BY LenProperties
<1>2. CASE hits = {}
  BY <1>1, <1>2 DEF Pull
<1>3. CASE hits # {}
  <2> DEFINE k == CHOOSE i \in hits : TRUE
  <2>1. k \in hits
    BY <1>3
  <2>2. Pull(q, pr, user) = RemoveAt(q, k)
    BY <1>3 DEF Pull
  <2> HIDE DEF k
  <2> QED BY <1>1, <2>1, <2>2
<1> QED BY <1>2, <1>3

LEMMA PullNoRepeats ==
  ASSUME NEW q \in Seq(Booking), NEW pr, NEW user, NoRepeats(q)
  PROVE  NoRepeats(Pull(q, pr, user))
<1>1. DOMAIN q = 1..Len(q) /\ Len(q) \in Nat
  BY LenProperties
<1>2. ASSUME NEW k \in 1..Len(q) PROVE NoRepeats(RemoveAt(q, k))
  <2>1. /\ RemoveAt(q, k) \in Seq(Booking)
        /\ Len(RemoveAt(q, k)) = Len(q) - 1
        /\ \A j \in 1..(Len(q) - 1) :
             RemoveAt(q, k)[j] = IF j < k THEN q[j] ELSE q[j + 1]
    BY RemoveAtCloses
  <2>2. DOMAIN RemoveAt(q, k) = 1..(Len(q) - 1)
    BY <2>1, LenProperties
  <2> QED BY <1>1, <2>1, <2>2 DEF NoRepeats
<1> QED BY <1>2, PullCloses

LEMMA AppendNoRepeats ==
  ASSUME NEW q \in Seq(Booking), NEW item \in Booking, NoRepeats(q),
         ~Holds(q, item.pr)
  PROVE  NoRepeats(Append(q, item))
<1>1. /\ DOMAIN q = 1..Len(q) /\ Len(q) \in Nat
      /\ DOMAIN Append(q, item) = 1..(Len(q) + 1)
      /\ \A i \in 1..Len(q) : Append(q, item)[i] = q[i]
      /\ Append(q, item)[Len(q) + 1] = item
  BY LenProperties, AppendProperties
<1> QED BY <1>1 DEF NoRepeats, Holds

(* What a step does to the items under an id.                              *)
LEMMA StepOfItems ==
  ASSUME TypeOK, [Next]_vars, NEW k \in Keys
  PROVE  \/ Items(k)' = Items(k)
         \/ Items(k)' = <<>>
         \/ \E b \in Branches, pr \in PullRequests, user \in Users :
              /\ ~Holds(Items(k), pr)
              /\ Items(k)' = Append(Items(k), [pr |-> pr, user |-> user,
                                              branch |-> b])
         \/ \E pr \in PullRequests, user \in Users :
              Items(k)' = Pull(Items(k), pr, user)
<1>1. ASSUME NEW u \in Updates, NEW b \in Branches, NEW pr \in PullRequests,
             NEW user \in Users, AddItem(b, pr, user, u)
      PROVE  \/ Items(k)' = Items(k)
             \/ /\ ~Holds(Items(k), pr)
                /\ Items(k)' = Append(Items(k), [pr |-> pr, user |-> user,
                                                branch |-> b])
  <2>1. CASE k # Key(b)
    BY <1>1, <2>1 DEF AddItem, Items, TypeOK
  <2>2. CASE k = Key(b)
    <3> DEFINE new == [owner |-> b.owner,
                       queue |-> Append(Items(k), [pr |-> pr, user |-> user,
                                                   branch |-> b])]
    <3>1. docs'[k] = new /\ docs' \in [Keys -> {NoDoc} \cup Document]
      BY <1>1, <2>2, AddItemType DEF AddItem, TypeOK
    <3>2. new # NoDoc
      <4>1. Items(k) \in Seq(Booking)
        BY ItemsType
      <4>2. [pr |-> pr, user |-> user, branch |-> b] \in Booking
        BY DEF Booking
      <4>3. Append(Items(k), [pr |-> pr, user |-> user, branch |-> b])
              \in Seq(Booking)
        BY <4>1, <4>2, AppendProperties
      <4>4. new \in Document
        BY <4>3, BranchFields DEF Document
      <4> QED BY <4>4, FeedAssumption
    <3> QED BY <1>1, <2>2, <3>1, <3>2 DEF AddItem, Items
  <2> QED BY <2>1, <2>2
<1>2. ASSUME NEW u \in Updates, NEW b \in Branches, NEW pr \in PullRequests,
             NEW user \in Users, RemoveItem(b, pr, user, u)
      PROVE  Items(k)' = Items(k) \/ Items(k)' = Pull(Items(k), pr, user)
  <2>1. CASE k # Key(b) \/ docs[k] = NoDoc
    BY <1>2, <2>1 DEF RemoveItem, Items, TypeOK
  <2>2. CASE k = Key(b) /\ docs[k] # NoDoc
    <3>1. docs'[k] = [owner |-> docs[k].owner,
                      queue |-> Pull(docs[k].queue, pr, user)]
      BY <1>2, <2>2 DEF RemoveItem, TypeOK
    <3>2. docs[k] \in Document
      BY <2>2 DEF TypeOK
    <3>3. docs'[k] \in Document
      <4>1. Pull(docs[k].queue, pr, user) \in Seq(Booking)
        BY <3>2, PullProperties DEF Document
      <4> QED BY <3>1, <3>2, <4>1 DEF Document
    <3> QED BY <2>2, <3>1, <3>3, FeedAssumption DEF Items
  <2> QED BY <2>1, <2>2
<1>3. ASSUME NEW owner \in Owners, DeleteQueue(owner)
      PROVE  Items(k)' = Items(k) \/ Items(k)' = <<>>
  BY <1>3 DEF DeleteQueue, Items
<1>4. CASE docs' = docs
  BY <1>4 DEF Items
<1> QED BY <1>1, <1>2, <1>3, <1>4
        DEF Next, GetItems, Read, Deliver, Fail, Restart, vars

LEMMA NextEachOnce == TypeOK /\ EachOnce /\ [Next]_vars => EachOnce'
<1> SUFFICES ASSUME TypeOK, EachOnce, [Next]_vars, NEW k \in Keys
             PROVE  NoRepeats(Items(k)')
  BY DEF EachOnce
<1>1. Items(k) \in Seq(Booking) /\ NoRepeats(Items(k))
  BY ItemsType DEF EachOnce
<1>2. ASSUME NEW b \in Branches, NEW pr \in PullRequests, NEW user \in Users,
             ~Holds(Items(k), pr)
      PROVE  NoRepeats(Append(Items(k), [pr |-> pr, user |-> user,
                                         branch |-> b]))
  <2>1. [pr |-> pr, user |-> user, branch |-> b] \in Booking
    BY DEF Booking
  <2> QED BY <1>1, <1>2, <2>1, AppendNoRepeats
<1>3. NoRepeats(<<>>)
  BY DEF NoRepeats
<1>4. \A pr, user : NoRepeats(Pull(Items(k), pr, user))
  BY <1>1, PullNoRepeats
<1> QED BY <1>1, <1>2, <1>3, <1>4, StepOfItems

(* Listing commutes with what the steps do.                                *)
LEMMA ListedProperties ==
  ASSUME NEW q \in Seq(Booking)
  PROVE  /\ Listed(q) \in Seq(Bookings!Booking)
         /\ Len(Listed(q)) = Len(q)
         /\ \A i \in 1..Len(q) :
              Listed(q)[i] = [pr |-> q[i].pr, user |-> q[i].user]
<1>1. DOMAIN q = 1..Len(q) /\ Len(q) \in Nat
  BY LenProperties
<1>2. \A i \in 1..Len(q) :
        [pr |-> q[i].pr, user |-> q[i].user] \in Bookings!Booking
  <2>1. \A i \in 1..Len(q) : q[i] \in Booking
    BY ElementOfSeq
  <2> QED BY <2>1 DEF Booking, Bookings!Booking
<1>3. Listed(q) = [i \in 1..Len(q) |-> [pr |-> q[i].pr, user |-> q[i].user]]
  BY <1>1 DEF Listed
<1> QED BY <1>1, <1>2, <1>3

LEMMA ListedPullRequests ==
  ASSUME NEW q \in Seq(Booking)
  PROVE  \A i \in 1..Len(q) : Listed(q)[i].pr = q[i].pr
<1> SUFFICES ASSUME NEW i \in 1..Len(q)
             PROVE  Listed(q)[i].pr = q[i].pr
  OBVIOUS
<1>1. Listed(q)[i] = [pr |-> q[i].pr, user |-> q[i].user]
  BY ListedProperties
<1> QED BY <1>1

LEMMA ListedAppend ==
  ASSUME NEW q \in Seq(Booking), NEW item \in Booking
  PROVE  Listed(Append(q, item)) =
           Append(Listed(q), [pr |-> item.pr, user |-> item.user])
<1> DEFINE new == [pr |-> item.pr, user |-> item.user]
           long == Append(q, item)
           left == Listed(long)
           right == Append(Listed(q), new)
<1>1. /\ long \in Seq(Booking) /\ Len(long) = Len(q) + 1
      /\ \A i \in 1..Len(q) : long[i] = q[i]
      /\ long[Len(q) + 1] = item
      /\ Len(q) \in Nat
  BY AppendProperties, LenProperties
<1>2. new \in Bookings!Booking
  BY DEF Booking, Bookings!Booking
<1>3. /\ Listed(q) \in Seq(Bookings!Booking) /\ Len(Listed(q)) = Len(q)
      /\ \A i \in 1..Len(q) :
           Listed(q)[i] = [pr |-> q[i].pr, user |-> q[i].user]
  BY ListedProperties
<1> HIDE DEF long
<1>4. /\ left \in Seq(Bookings!Booking) /\ Len(left) = Len(q) + 1
      /\ \A i \in 1..(Len(q) + 1) :
           left[i] = [pr |-> long[i].pr, user |-> long[i].user]
  BY <1>1, ListedProperties
<1>5. new = [pr |-> item.pr, user |-> item.user]
  OBVIOUS
<1> HIDE DEF new, left
<1>6. /\ right \in Seq(Bookings!Booking) /\ Len(right) = Len(q) + 1
      /\ \A i \in 1..Len(q) : right[i] = Listed(q)[i]
      /\ right[Len(q) + 1] = new
  BY <1>2, <1>3, AppendProperties
<1> HIDE DEF right
<1>7. \A i \in 1..(Len(q) + 1) : left[i] = right[i]
  <2> SUFFICES ASSUME NEW i \in 1..(Len(q) + 1)
               PROVE  left[i] = right[i]
    OBVIOUS
  <2>1. CASE i \in 1..Len(q)
    BY <1>1, <1>3, <1>4, <1>6, <2>1
  <2>2. CASE i = Len(q) + 1
    BY <1>1, <1>4, <1>5, <1>6, <2>2
  <2> QED BY <1>1, <2>1, <2>2
<1>8. left = right
  BY <1>4, <1>6, <1>7, SeqEqual
<1> QED BY <1>8 DEF left, right, new, long

LEMMA ListedRemoveAt ==
  ASSUME NEW q \in Seq(Booking), NEW k \in 1..Len(q)
  PROVE  Listed(RemoveAt(q, k)) = RemoveAt(Listed(q), k)
<1> DEFINE left == Listed(RemoveAt(q, k))
           right == RemoveAt(Listed(q), k)
<1>1. /\ RemoveAt(q, k) \in Seq(Booking)
      /\ Len(RemoveAt(q, k)) = Len(q) - 1
      /\ \A j \in 1..(Len(q) - 1) :
           RemoveAt(q, k)[j] = IF j < k THEN q[j] ELSE q[j + 1]
      /\ Len(q) \in Nat
  BY RemoveAtCloses, LenProperties
<1>2. /\ Listed(q) \in Seq(Bookings!Booking) /\ Len(Listed(q)) = Len(q)
      /\ \A i \in 1..Len(q) :
           Listed(q)[i] = [pr |-> q[i].pr, user |-> q[i].user]
  BY ListedProperties
<1>3. /\ right \in Seq(Bookings!Booking) /\ Len(right) = Len(q) - 1
      /\ \A j \in 1..(Len(q) - 1) :
           right[j] = IF j < k THEN Listed(q)[j] ELSE Listed(q)[j + 1]
  <2> DEFINE p == Listed(q)
  <2>1. p \in Seq(Bookings!Booking) /\ k \in 1..Len(p) /\ Len(p) = Len(q)
    BY <1>2
  <2> HIDE DEF p
  <2>2. /\ RemoveAt(p, k) \in Seq(Bookings!Booking)
        /\ Len(RemoveAt(p, k)) = Len(p) - 1
        /\ \A j \in 1..(Len(p) - 1) :
             RemoveAt(p, k)[j] = IF j < k THEN p[j] ELSE p[j + 1]
    BY <2>1, RemoveAtCloses
  <2> QED BY <2>1, <2>2 DEF p
<1>4. /\ left \in Seq(Bookings!Booking) /\ Len(left) = Len(q) - 1
      /\ \A j \in 1..(Len(q) - 1) :
           left[j] = [pr |-> RemoveAt(q, k)[j].pr,
                      user |-> RemoveAt(q, k)[j].user]
  BY <1>1, ListedProperties
<1> HIDE DEF left, right
<1>5. \A j \in 1..(Len(q) - 1) : left[j] = right[j]
  <2> SUFFICES ASSUME NEW j \in 1..(Len(q) - 1)
               PROVE  left[j] = right[j]
    OBVIOUS
  <2>1. j \in 1..Len(q) /\ j + 1 \in 1..Len(q)
    BY <1>1
  <2>2. CASE j < k
    BY <1>1, <1>2, <1>3, <1>4, <2>1, <2>2
  <2>3. CASE ~(j < k)
    BY <1>1, <1>2, <1>3, <1>4, <2>1, <2>3
  <2> QED BY <2>2, <2>3
<1>6. left = right
  BY <1>3, <1>4, <1>5, SeqEqual
<1> QED BY <1>6 DEF left, right

LEMMA ListedPull ==
  ASSUME NEW q \in Seq(Booking), NEW pr, NEW user, NoRepeats(q)
  PROVE  Listed(Pull(q, pr, user)) =
           Bookings!Pull(Listed(q), [pr |-> pr, user |-> user])
<1> DEFINE b == [pr |-> pr, user |-> user]
<1>1. DOMAIN q = 1..Len(q)
  BY LenProperties
<1>2. /\ Listed(q) \in Seq(Bookings!Booking)
      /\ DOMAIN Listed(q) = 1..Len(q)
      /\ \A i \in 1..Len(q) :
           Listed(q)[i] = [pr |-> q[i].pr, user |-> q[i].user]
  BY ListedProperties, LenProperties
<1>3. \A i \in 1..Len(q) : Listed(q)[i] = b <=> q[i].pr = pr /\ q[i].user = user
  BY <1>2
<1>4. CASE /\ Pull(q, pr, user) = q
           /\ \A i \in 1..Len(q) : ~(q[i].pr = pr /\ q[i].user = user)
  <2>1. b \notin Bookings!ToSet(Listed(q))
    BY <1>2, <1>3, <1>4 DEF Bookings!ToSet
  <2> QED BY <1>4, <2>1 DEF Bookings!Pull
<1>5. ASSUME NEW k \in 1..Len(q), q[k].pr = pr, q[k].user = user,
             Pull(q, pr, user) = RemoveAt(q, k)
      PROVE  Listed(Pull(q, pr, user)) = Bookings!Pull(Listed(q), b)
  <2>1. b \in Bookings!ToSet(Listed(q))
    BY <1>2, <1>3, <1>5 DEF Bookings!ToSet
  <2> DEFINE l == CHOOSE i \in DOMAIN Listed(q) : Listed(q)[i] = b
  <2>2. l \in 1..Len(q) /\ Listed(q)[l] = b
    BY <1>2, <1>3, <1>5
  <2>3. Bookings!Pull(Listed(q), b) = Bookings!RemoveAt(Listed(q), l)
    BY <2>1 DEF Bookings!Pull
  <2> HIDE DEF l, b
  <2>4. l = k
    BY <1>1, <1>3, <1>5, <2>2 DEF NoRepeats
  <2>5. Bookings!RemoveAt(Listed(q), l) = RemoveAt(Listed(q), k)
    BY <2>4 DEF Bookings!RemoveAt, RemoveAt
  <2> QED BY <1>5, <2>3, <2>5, ListedRemoveAt
<1> QED BY <1>4, <1>5, PullCloses

(* Whatever the names of the branches and whatever happens to the others,  *)
(* the items of every branch are a BookingQueue: this is why the other     *)
(* modules may have one branch.                                            *)
THEOREM BranchImplementsBookingQueue == Spec => BranchIsABookingQueue
<1> DEFINE k == Key(Branch)
<1>0. k \in Keys
  BY BranchAssumption, BranchFields
<1>1. Init => TypeOK /\ EachOnce /\ Bookings!QueueInit
  BY <1>0, InitTypeOK
     DEF Init, EachOnce, NoRepeats, Items, Bookings!QueueInit, BranchItems,
         Listed
<1>2. TypeOK /\ EachOnce /\ [Next]_vars => (TypeOK /\ EachOnce)'
  BY NextTypeOK, NextEachOnce
<1>3. TypeOK /\ EachOnce /\ [Next]_vars => [Bookings!QueueNext]_BranchItems
  <2> SUFFICES ASSUME TypeOK, EachOnce, [Next]_vars
               PROVE  [Bookings!QueueNext]_BranchItems
    OBVIOUS
  <2> HIDE DEF k
  <2>1. Items(k) \in Seq(Booking) /\ NoRepeats(Items(k))
    BY <1>0, ItemsType DEF EachOnce
  <2>2. BranchItems = Listed(Items(k)) /\ BranchItems' = Listed(Items(k)')
    BY DEF BranchItems, k, Listed
  <2>3. CASE Items(k)' = Items(k)
    BY <2>2, <2>3
  <2>4. CASE Items(k)' = <<>>
    BY <2>2, <2>4 DEF Listed, Bookings!QueueNext, Bookings!Clear
  <2>5. ASSUME NEW b \in Branches, NEW pr \in PullRequests, NEW user \in Users,
               ~Holds(Items(k), pr),
               Items(k)' = Append(Items(k), [pr |-> pr, user |-> user,
                                             branch |-> b])
        PROVE  Bookings!QueueNext
    <3> DEFINE item == [pr |-> pr, user |-> user, branch |-> b]
               new == [pr |-> pr, user |-> user]
    <3>1. item \in Booking /\ item.pr = pr /\ item.user = user
      BY DEF Booking
    <3>2. BranchItems' = Append(BranchItems, new)
      <4> HIDE DEF item
      <4> QED BY <2>1, <2>2, <2>5, <3>1, ListedAppend DEF item
    <3>3. ~Bookings!Holds(BranchItems, new.pr)
      <4>1. /\ DOMAIN Listed(Items(k)) = 1..Len(Items(k))
            /\ DOMAIN Items(k) = 1..Len(Items(k))
        BY <2>1, ListedProperties, LenProperties
      <4>2. \A i \in 1..Len(Items(k)) :
              Listed(Items(k))[i].pr = Items(k)[i].pr
        BY <2>1, ListedPullRequests
      <4>3. \A i \in 1..Len(Items(k)) : Items(k)[i].pr # pr
        BY <2>5, <4>1 DEF Holds
      <4>4. \A i \in DOMAIN BranchItems : BranchItems[i].pr # new.pr
        BY <2>2, <4>1, <4>2, <4>3
      <4> QED BY <4>4 DEF Bookings!Holds
    <3>4. new \in Bookings!Booking
      BY DEF Bookings!Booking
    <3> QED BY <3>2, <3>3, <3>4 DEF Bookings!QueueNext, Bookings!Join
  <2>6. ASSUME NEW pr \in PullRequests, NEW user \in Users,
               Items(k)' = Pull(Items(k), pr, user)
        PROVE  Bookings!QueueNext
    <3> DEFINE b == [pr |-> pr, user |-> user]
    <3>1. BranchItems' = Bookings!Pull(BranchItems, b)
      BY <2>1, <2>2, <2>6, ListedPull
    <3>2. b \in Bookings!Booking
      BY DEF Bookings!Booking
    <3> QED BY <3>1, <3>2 DEF Bookings!QueueNext, Bookings!Leave
  <2> QED BY <1>0, <2>3, <2>4, <2>5, <2>6, StepOfItems
<1> QED
  BY <1>1, <1>2, <1>3, PTL
     DEF Spec, BranchIsABookingQueue, Bookings!QueueSpec
===============================================================================
