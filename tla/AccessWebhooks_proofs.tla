------------------------- MODULE AccessWebhooks_proofs -------------------------
(***************************************************************************)
(* For every number of ids, tokens, users, repositories and concurrent     *)
(* requests and webhooks: webhooks that are handled in order keep the      *)
(* collections of Access in step with the installation.                    *)
(***************************************************************************)
EXTENDS Access_proofs, WellFoundedInduction

-----------------------------------------------------------------------------
(* The webhooks on their way, when one is taken out or comes.              *)

(* Where position j of RemoveAt(webhooks, i) was before.                   *)
Was(i, j) == IF j < i THEN j ELSE j + 1

LEMMA WebhookTaken ==
  ASSUME webhooks \in Seq(Webhook), NEW i \in DOMAIN webhooks,
         webhooks' = RemoveAt(webhooks, i)
  PROVE  /\ DOMAIN webhooks \subseteq Nat
         /\ DOMAIN webhooks' \subseteq Nat
         /\ \A j \in DOMAIN webhooks' : /\ Was(i, j) \in DOMAIN webhooks
                                        /\ Was(i, j) # i
                                        /\ webhooks'[j] = webhooks[Was(i, j)]
         /\ \A k \in DOMAIN webhooks :
              k # i => \E j \in DOMAIN webhooks' : k = Was(i, j)
<1>1. /\ DOMAIN webhooks = 1..Len(webhooks) /\ Len(webhooks) \in Nat
      /\ i \in 1..Len(webhooks)
  BY LenProperties
<1>2. /\ webhooks' \in Seq(Webhook)
      /\ Len(webhooks') = Len(webhooks) - 1
      /\ \A j \in 1..(Len(webhooks) - 1) :
           webhooks'[j] = IF j < i THEN webhooks[j] ELSE webhooks[j + 1]
  BY <1>1, RemoveAtCloses
<1>3. DOMAIN webhooks' = 1..(Len(webhooks) - 1)
  BY <1>2, LenProperties
<1>4. ASSUME NEW k \in DOMAIN webhooks, k # i
      PROVE  \E j \in DOMAIN webhooks' : k = Was(i, j)
  <2>1. CASE k < i
    <3>1. k \in DOMAIN webhooks' /\ k = Was(i, k)
      BY <1>1, <1>3, <2>1 DEF Was
    <3> QED BY <3>1
  <2>2. CASE k > i
    <3>1. k - 1 \in DOMAIN webhooks' /\ k = Was(i, k - 1)
      BY <1>1, <1>3, <2>2 DEF Was
    <3> QED BY <3>1
  <2> QED BY <1>1, <1>4, <2>1, <2>2
<1>5. ASSUME NEW j \in DOMAIN webhooks'
      PROVE  /\ Was(i, j) \in DOMAIN webhooks
             /\ Was(i, j) # i
             /\ webhooks'[j] = webhooks[Was(i, j)]
  BY <1>1, <1>2, <1>3 DEF Was
<1> QED BY <1>1, <1>3, <1>4, <1>5

LEMMA WebhookCame ==
  ASSUME webhooks \in Seq(Webhook), NEW kind, NEW id,
         [kind |-> kind, id |-> id] \in Webhook, Owe(kind, id)
  PROVE  /\ DOMAIN webhooks \subseteq Nat
         /\ DOMAIN webhooks' = DOMAIN webhooks \cup {Len(webhooks) + 1}
         /\ \A i \in DOMAIN webhooks : /\ i < Len(webhooks) + 1
                                       /\ webhooks'[i] = webhooks[i]
         /\ webhooks'[Len(webhooks) + 1] = [kind |-> kind, id |-> id]
         /\ Len(webhooks) + 1 \in Nat
<1>1. DOMAIN webhooks = 1..Len(webhooks) /\ Len(webhooks) \in Nat
  BY LenProperties
<1> DEFINE w == [kind |-> kind, id |-> id]
<1>2. webhooks' = Append(webhooks, w)
  BY DEF Owe
<1> HIDE DEF w
<1>3. w \in Webhook
  BY DEF w
<1>4. /\ webhooks' \in Seq(Webhook)
      /\ Len(webhooks') = Len(webhooks) + 1
      /\ \A i \in 1..Len(webhooks) : webhooks'[i] = webhooks[i]
      /\ webhooks'[Len(webhooks) + 1] = w
  BY <1>2, <1>3, AppendProperties
<1>5. DOMAIN webhooks' = 1..(Len(webhooks) + 1)
  BY <1>4, LenProperties
<1> QED BY <1>1, <1>4, <1>5 DEF w

LEMMA WebhookFields ==
  ASSUME webhooks \in Seq(Webhook), NEW i \in DOMAIN webhooks
  PROVE  /\ webhooks[i] \in Webhook
         /\ webhooks[i].id \in Ids
         /\ webhooks[i].kind \in {"created", "deleted", "repositories",
                                  "repository"}
<1>1. webhooks[i] \in Webhook
  BY LenProperties, ElementOfSeq
<1> QED BY <1>1 DEF Webhook

(* What the handler of a webhook starts, step by step.                     *)
LEMMA HandlerSteps ==
  ASSUME NEW r, NEW w \in Webhook
  PROVE  /\ \A op \in Handler(r, w) :
              /\ op.id = w.id
              /\ op.req = r
              /\ op.step \in WebhookSteps
              /\ op.step = "setId" => w.kind = "created"
              /\ op.step = "dropIds" => w.kind = "deleted"
         /\ w.kind = "created" => OfWebhook("setId", r, w.id) \in Handler(r, w)
         /\ w.kind = "deleted" =>
              /\ OfWebhook("dropIds", r, w.id) \in Handler(r, w)
              /\ OfWebhook("dropInfos", r, w.id) \in Handler(r, w)
         /\ w.kind = "repositories" =>
              OfWebhook("dropInfos", r, w.id) \in Handler(r, w)
         /\ w.kind = "repository" =>
              OfWebhook("findId", r, w.id) \in Handler(r, w)
<1>1. CASE w.kind = "created"
  BY <1>1 DEF Handler, OfWebhook, WebhookSteps
<1>2. CASE w.kind = "deleted"
  BY <1>2 DEF Handler, OfWebhook, WebhookSteps
<1>3. CASE w.kind = "repositories"
  BY <1>3 DEF Handler, OfWebhook, WebhookSteps
<1>4. CASE w.kind = "repository"
  BY <1>4 DEF Handler, OfWebhook, WebhookSteps
<1> QED BY <1>1, <1>2, <1>3, <1>4 DEF Webhook

-----------------------------------------------------------------------------
(* An uninstallation leaves nothing.                                       *)

Drop(id) == \E op \in pending : op.step = "dropInfos" /\ op.id = id

(* The cache of id may be used, or will be dropped.                        *)
Covered(id) ==
  \/ id = installed
  \/ \E i \in DOMAIN webhooks : webhooks[i].kind = "deleted"
                                /\ webhooks[i].id = id
  \/ Drop(id)

(* What is in the cache, and what is about to be.                          *)
Filling(id, t) == \E op \in pending : /\ op.step = "saveInfo"
                                      /\ op.id = id
                                      /\ op.token = t

Cached(id, t) == infos[<<id, t>>] # NoInfo \/ Filling(id, t)

LeftInv ==
  orderly => \A id \in Ids, t \in Tokens :
               Cached(id, t) /\ <<id, t>> \notin stale => Covered(id)

LEMMA InitLeftInv == Init => LeftInv
BY DEF Init, LeftInv, Cached, Filling, Keys

LEMMA LeftInvShows == TypeOK /\ LeftInv => NothingIsLeft
BY DEF TypeOK, LeftInv, NothingIsLeft, Settled, Lifecycle, Covered, Cached,
       Drop, Keys

(* What is uncovered by a step has to be gone, or stale.                   *)
LEMMA LeftInvKept ==
  ASSUME LeftInv, orderly' => orderly,
         \A id \in Ids, t \in Tokens :
           /\ orderly'
           /\ Cached(id, t)'
           /\ <<id, t>> \notin stale'
           => \/ Covered(id)'
              \/ Cached(id, t) /\ <<id, t>> \notin stale
                 /\ (Covered(id) => Covered(id)')
  PROVE  LeftInv'
BY DEF LeftInv

LEMMA InFlightIsFilling ==
  ASSUME NEW id \in Ids, NEW t
  PROVE  <<id, t>> \in InFlight(id) <=> Filling(id, t)
BY DEF InFlight, Filling

LEMMA GitHubLeftInv == TypeOK /\ LeftInv /\ GitHub => LeftInv'
<1> SUFFICES ASSUME TypeOK, LeftInv, GitHub
             PROVE  LeftInv'
  OBVIOUS
<1>1. /\ UNCHANGED <<infos, pending, stale, orderly>>
      /\ \A id \in Ids, t \in Tokens : Cached(id, t)' <=> Cached(id, t)
  BY DEF GitHub, Install, Uninstall, Select, ChangeRights, history, Cached,
         Filling
<1> SUFFICES ASSUME NEW id \in Ids, Covered(id)
             PROVE  Covered(id)'
  BY <1>1, LeftInvKept
<1>2. Drop(id) => Drop(id)'
  BY <1>1 DEF Drop
<1>3. ASSUME NEW kind \in {"created", "deleted", "repositories", "repository"},
             NEW new \in Ids, Owe(kind, new), installed' = installed
      PROVE  Covered(id)'
  <2>1. [kind |-> kind, id |-> new] \in Webhook
    BY DEF Webhook
  <2> QED BY <1>2, <1>3, <2>1, WebhookCame DEF Covered, TypeOK
<1>4. CASE \E new \in Ids, repos \in SUBSET Repos : Install(new, repos)
  <2>1. PICK new \in Ids, repos \in SUBSET Repos : Install(new, repos)
    BY <1>4
  <2>2. [kind |-> "created", id |-> new] \in Webhook /\ installed # id
    BY <2>1, AccessAssumption DEF Webhook, Install
  <2>3. Owe("created", new) /\ webhooks \in Seq(Webhook)
    BY <2>1 DEF Install, TypeOK
  <2> QED BY <1>2, <2>2, <2>3, WebhookCame DEF Covered
<1>5. CASE Uninstall
  <2>1. installed \in Ids /\ Owe("deleted", installed)
        /\ webhooks \in Seq(Webhook)
    BY <1>5 DEF Uninstall, TypeOK
  <2>2. [kind |-> "deleted", id |-> installed] \in Webhook
    BY <2>1 DEF Webhook
  <2>3. /\ Len(webhooks) + 1 \in DOMAIN webhooks'
        /\ webhooks'[Len(webhooks) + 1] = [kind |-> "deleted", id |-> installed]
        /\ \A i \in DOMAIN webhooks : i \in DOMAIN webhooks'
                                      /\ webhooks'[i] = webhooks[i]
    BY <2>1, <2>2, WebhookCame
  <2>4. CASE id = installed
    BY <2>3, <2>4 DEF Covered
  <2>5. CASE id # installed
    BY <1>2, <2>3, <2>5 DEF Covered
  <2> QED BY <2>4, <2>5
<1>6. CASE \E repos \in SUBSET Repos, kind \in {"repositories", "repository"} :
             Select(repos, kind)
  BY <1>3, <1>6 DEF Select, TypeOK
<1>7. CASE \E user \in Users, repo \in Repos : ChangeRights(user, repo)
  BY <1>2, <1>7 DEF ChangeRights, Covered
<1> QED BY <1>4, <1>5, <1>6, <1>7 DEF GitHub

LEMMA DeliverLeftInv ==
  ASSUME TypeOK, LeftInv, NEW r \in Hooks, NEW i \in DOMAIN webhooks,
         Deliver(r, i)
  PROVE  LeftInv'
<1>1. webhooks \in Seq(Webhook) /\ webhooks' = RemoveAt(webhooks, i)
  BY DEF TypeOK, Deliver
<1>2. webhooks[i] \in Webhook
  BY <1>1, WebhookFields
<1>3. pending' = pending \cup Handler(r, webhooks[i])
      /\ UNCHANGED <<installed, infos, stale>>
      /\ (orderly' => orderly)
  BY DEF Deliver, github
<1>4. \A id, t : Filling(id, t)' <=> Filling(id, t)
  BY <1>2, <1>3, HandlerSteps DEF Filling, WebhookSteps
<1>5. ASSUME NEW id \in Ids, Covered(id)
      PROVE  Covered(id)'
  <2>1. CASE id = installed
    BY <1>3, <2>1 DEF Covered
  <2>2. CASE Drop(id)
    BY <1>3, <2>2 DEF Drop, Covered
  <2>3. ASSUME NEW k \in DOMAIN webhooks, webhooks[k].kind = "deleted",
               webhooks[k].id = id
        PROVE  Covered(id)'
    <3>1. CASE k = i
      <4>1. OfWebhook("dropInfos", r, id) \in pending'
        BY <1>2, <1>3, <2>3, <3>1, HandlerSteps
      <4> QED BY <4>1 DEF OfWebhook, Covered, Drop
    <3>2. CASE k # i
      BY <1>1, <2>3, <3>2, WebhookTaken DEF Covered
    <3> QED BY <3>1, <3>2
  <2> QED BY <1>5, <2>1, <2>2, <2>3 DEF Covered
<1> QED BY <1>3, <1>4, <1>5, LeftInvKept DEF Cached

LEMMA ProcessLeftInv ==
  ASSUME TypeOK, LeftInv,
         \/ Connect \/ Restart
         \/ \E r \in Requests, t \in Tokens, repo \in Repos :
              Authenticate(r, t, repo)
         \/ \E i \in DOMAIN webhooks : Refuse(i)
         \/ \E key \in Keys : InfoExpired(key)
  PROVE  LeftInv'
<1> USE DEF history, github
<1>1. CASE Connect
  BY <1>1 DEF Connect, LeftInv, Cached, Filling, Covered, Drop
<1>2. CASE Restart
  <2>1. orderly' => orderly /\ \A id : ~Drop(id)
    BY <1>2 DEF Restart, Drop, WebhookSteps
  <2>2. \A id, t : ~Filling(id, t)'
    BY <1>2 DEF Restart, Filling
  <2>3. \A id \in Ids : orderly' /\ Covered(id) => Covered(id)'
    BY <1>2, <2>1 DEF Restart, Covered, Drop
  <2>4. \A id \in Ids, t \in Tokens :
          infos[<<id, t>>] # NoInfo /\ <<id, t>> \notin stale' =>
            <<id, t>> \notin stale
    BY <1>2 DEF Restart
  <2>5. infos' = infos
    BY <1>2 DEF Restart
  <2> QED BY <2>1, <2>2, <2>3, <2>4, <2>5 DEF LeftInv, Cached
<1>3. CASE \E r \in Requests, t \in Tokens, repo \in Repos :
             Authenticate(r, t, repo)
  <2>1. \A id, t : Filling(id, t)' <=> Filling(id, t)
    BY <1>3 DEF Authenticate, Auth, Filling
  <2>2. \A id : Covered(id) => Covered(id)'
    BY <1>3 DEF Authenticate, Covered, Drop
  <2>3. UNCHANGED <<infos, stale, orderly>>
    BY <1>3 DEF Authenticate
  <2> QED BY <2>1, <2>2, <2>3 DEF LeftInv, Cached
<1>4. CASE \E i \in DOMAIN webhooks : Refuse(i)
  BY <1>4 DEF Refuse, LeftInv
<1>5. CASE \E key \in Keys : InfoExpired(key)
  <2>1. PICK key \in Keys : InfoExpired(key)
    BY <1>5
  <2>2. \A id, t : Filling(id, t)' <=> Filling(id, t)
    BY <2>1 DEF InfoExpired, Filling
  <2>3. \A id : Covered(id) => Covered(id)'
    BY <2>1 DEF InfoExpired, Covered, Drop
  <2>4. ASSUME NEW id \in Ids, NEW t \in Tokens, Cached(id, t)',
               <<id, t>> \notin stale'
        PROVE  Cached(id, t) /\ <<id, t>> \notin stale
    <3> DEFINE this == <<id, t>>
    <3>1. this \in Keys
      BY DEF Keys
    <3>2. CASE this = key
      <4>1. infos'[this] = NoInfo
        BY <2>1, <3>1, <3>2 DEF InfoExpired, TypeOK
      <4>2. Filling(id, t)
        BY <2>2, <2>4, <4>1 DEF Cached
      <4>3. this \in InFlight(key[1])
        BY <3>2, <4>2, InFlightIsFilling
      <4> QED BY <2>1, <2>4, <4>2, <4>3 DEF InfoExpired, Cached
    <3>3. CASE this # key
      <4>1. infos'[this] = infos[this] /\ this \notin stale
        BY <2>1, <2>4, <3>1, <3>3 DEF InfoExpired, TypeOK
      <4> QED BY <2>2, <2>4, <4>1 DEF Cached
    <3> QED BY <3>2, <3>3
  <2>5. orderly' = orderly
    BY <2>1 DEF InfoExpired
  <2> QED BY <2>3, <2>4, <2>5, LeftInvKept
<1> QED BY <1>1, <1>2, <1>3, <1>4, <1>5

LEMMA AnswerLeftInv ==
  ASSUME TypeOK, LeftInv, NEW op \in pending, Answer(op)
  PROVE  LeftInv'
<1>1. op \in Operation
  BY DEF TypeOK
<1> USE DEF history, github
(* The answers that leave the cache alone and start neither a write of it  *)
(* nor end an invalidation.                                                *)
<1>2. ASSUME NEW next, Continue(op, next), op.step # "dropInfos",
             \A o \in next : o.step # "saveInfo",
             UNCHANGED <<installed, webhooks, infos, stale, orderly>>
      PROVE  LeftInv'
  <2>1. \A id, t : Filling(id, t)' => Filling(id, t)
    BY <1>2 DEF Continue, Filling
  <2>2. \A id : Covered(id) => Covered(id)'
    BY <1>2 DEF Continue, Covered, Drop
  <2> QED BY <1>2, <2>1, <2>2 DEF LeftInv, Cached
<1>3. CASE GotTokenInfo(op)
  BY <1>2, <1>3 DEF GotTokenInfo, Auth
<1>4. CASE ReadId(op)
  <2>1. \A id : \A o \in {WithId("readInfo", op, id)} : o.step # "saveInfo"
    BY DEF WithId
  <2>2. CASE installations = {}
    BY <1>2, <1>4, <2>2 DEF ReadId
  <2>3. CASE installations # {}
    <3>1. PICK id \in installations :
            Continue(op, {WithId("readInfo", op, id)})
      BY <1>4, <2>3 DEF ReadId
    <3> QED BY <1>2, <1>4, <2>1, <3>1 DEF ReadId
  <2> QED BY <2>2, <2>3
<1>5. CASE ReadInfo(op)
  BY <1>1, <1>2, <1>5, DecideType DEF ReadInfo, WithId
<1>6. CASE FetchedInfo(op)
  <2>1. op.id = installed /\ op.step = "fetchInfo"
    BY <1>6 DEF FetchedInfo
  <2>2. \A id, t : Filling(id, t)' => Filling(id, t) \/ id = installed
    BY <1>6, <2>1 DEF FetchedInfo, Continue, SaveInfo, Filling
  <2>3. \A id : Covered(id) => Covered(id)'
    BY <1>6, <2>1 DEF FetchedInfo, Continue, Covered, Drop
  <2>4. UNCHANGED <<installed, infos, stale, orderly>>
    BY <1>6 DEF FetchedInfo
  <2> QED BY <2>2, <2>3, <2>4 DEF LeftInv, Cached, Covered
<1>7. CASE FetchFailed(op)
  BY <1>2, <1>7 DEF FetchFailed
<1>8. CASE SavedInfo(op)
  <2>1. op.id \in Ids /\ op.token \in Tokens /\ op.step = "saveInfo"
    BY <1>1, <1>8, OperationFields DEF SavedInfo
  <2>2. \A id, t : Filling(id, t)' => Filling(id, t)
    BY <1>1, <1>8, <2>1, DecideType DEF SavedInfo, Continue, Filling
  <2>3. \A id \in Ids, t \in Tokens :
          infos'[<<id, t>>] = infos[<<id, t>>]
            \/ (id = op.id /\ t = op.token)
    <3>1. \A key \in Keys :
            key # <<op.id, op.token>> => infos'[key] = infos[key]
      BY <1>8 DEF SavedInfo, TypeOK
    <3>2. \A id \in Ids, t \in Tokens : <<id, t>> \in Keys
      BY DEF Keys
    <3>3. \A id, t : <<id, t>> = <<op.id, op.token>> =>
            id = op.id /\ t = op.token
      OBVIOUS
    <3> QED BY <3>1, <3>2, <3>3
  <2>4. Filling(op.id, op.token)
    BY <2>1 DEF Filling
  <2>5. \A id \in Ids, t \in Tokens : Cached(id, t)' => Cached(id, t)
    BY <2>2, <2>3, <2>4 DEF Cached
  <2>6. \A id : Covered(id) => Covered(id)'
    BY <1>8, <2>1 DEF SavedInfo, Continue, Covered, Drop
  <2>7. UNCHANGED <<stale, orderly>>
    BY <1>8 DEF SavedInfo
  <2> QED BY <2>5, <2>6, <2>7 DEF LeftInv
<1>9. CASE Acted(op)
  BY <1>2, <1>9 DEF Acted
<1>10. CASE SetId(op)
  BY <1>2, <1>10 DEF SetId
<1>11. CASE DroppedIds(op)
  BY <1>2, <1>11 DEF DroppedIds
<1>12. CASE DroppedInfos(op)
  <2>1. op.step = "dropInfos"
    BY <1>12 DEF DroppedInfos
  <2>2. \A id, t : Filling(id, t)' => Filling(id, t)
    BY <1>12 DEF DroppedInfos, Continue, Filling
  <2>3. \A id : Covered(id) /\ id # op.id => Covered(id)'
    BY <1>12 DEF DroppedInfos, Continue, Covered, Drop
  <2>4. ASSUME NEW id \in Ids, NEW t \in Tokens, Cached(id, t)',
               <<id, t>> \notin stale'
        PROVE  id # op.id /\ Cached(id, t) /\ <<id, t>> \notin stale
    <3> DEFINE key == <<id, t>>
    <3>1. key \in Keys /\ key[1] = id
      BY DEF Keys
    <3>2. /\ infos'[key] = IF id = op.id THEN NoInfo ELSE infos[key]
          /\ stale' = {k \in stale : k[1] # op.id} \cup InFlight(op.id)
      BY <1>12, <3>1 DEF DroppedInfos
    <3>3. CASE id = op.id
      <4>1. Filling(id, t)
        BY <2>2, <2>4, <3>2, <3>3 DEF Cached
      <4>2. key \in InFlight(op.id)
        BY <3>3, <4>1, InFlightIsFilling
      <4> QED BY <2>4, <3>2, <4>2
    <3>4. CASE id # op.id
      BY <2>2, <2>4, <3>1, <3>2, <3>4 DEF Cached
    <3> QED BY <3>3, <3>4
  <2>5. orderly' = orderly
    BY <1>12 DEF DroppedInfos
  <2> QED BY <2>3, <2>4, <2>5 DEF LeftInv
<1>13. CASE FoundId(op)
  <2>1. \A id : \A o \in {OfWebhook("dropInfos", op.req, id)} :
          o.step # "saveInfo"
    BY DEF OfWebhook
  <2>2. PICK id : Continue(op, {OfWebhook("dropInfos", op.req, id)})
    BY <1>13, FoundIdGoesOn
  <2> QED BY <1>2, <1>13, <2>1, <2>2 DEF FoundId
<1> QED
  BY <1>3, <1>4, <1>5, <1>6, <1>7, <1>8, <1>9, <1>10, <1>11, <1>12, <1>13
  DEF Answer

LEMMA NextLeftInv == TypeOK /\ LeftInv /\ [Next]_vars => LeftInv'
<1> SUFFICES ASSUME TypeOK, LeftInv, [Next]_vars
             PROVE  LeftInv'
  OBVIOUS
<1>1. CASE UNCHANGED vars
  BY <1>1 DEF vars, github, history, LeftInv, Cached, Filling, Covered, Drop
<1>2. CASE Next
  BY <1>2, GitHubLeftInv, DeliverLeftInv, ProcessLeftInv, AnswerLeftInv
  DEF Next
<1> QED BY <1>1, <1>2

(* Whatever requests fill the cache while an uninstallation is told and    *)
(* handled: once it is, nothing is cached of it but what a fill wrote that *)
(* was in flight.                                                          *)
THEOREM UninstalledLeavesNothing == Spec => []NothingIsLeft
<1>1. Init => TypeOK /\ LeftInv
  BY InitTypeOK, InitLeftInv
<1>2. TypeOK /\ LeftInv /\ [Next]_vars => (TypeOK /\ LeftInv)'
  BY NextTypeOK, NextLeftInv
<1> QED BY <1>1, <1>2, LeftInvShows, PTL DEF Spec

-----------------------------------------------------------------------------
(* The installation is known.                                              *)

(* What Mongo has to know before a webhook about the installation, and     *)
(* what it knows when that is handled: an id, or NoId.                     *)
Before(w) == IF w.kind = "created" THEN NoId ELSE w.id
After(w) == IF w.kind = "created" THEN w.id ELSE NoId

(* Mongo knows id, or will when the running handler is done.               *)
Settles(op) == op.step \in {"setId", "dropIds"}

Known(id) ==
  IF id = NoId
  THEN \/ ~Settling /\ installations = {}
       \/ \E op \in pending : op.step = "dropIds"
  ELSE \/ ~Settling /\ installations = {id}
       \/ /\ installations = {}
          /\ \E op \in pending : op.step = "setId" /\ op.id = id

IsLifecycle(i) == i \in DOMAIN webhooks /\ Lifecycle(webhooks[i])

(* The webhooks about the installation that are on their way form a chain  *)
(* from what Mongo knows to what is installed.                             *)
OrderInv ==
  orderly =>
    /\ \A o, p \in pending : Settles(o) /\ Settles(p) => o = p
    /\ \A i, j \in DOMAIN webhooks :
         /\ IsLifecycle(i)
         /\ IsLifecycle(j)
         /\ i < j
         /\ \A k \in DOMAIN webhooks : IsLifecycle(k) => k <= i \/ j <= k
         => After(webhooks[i]) = Before(webhooks[j])
    /\ \A i \in DOMAIN webhooks :
         /\ IsLifecycle(i)
         /\ \A k \in DOMAIN webhooks : IsLifecycle(k) => k <= i
         => After(webhooks[i]) = installed
    /\ \A j \in DOMAIN webhooks :
         /\ IsLifecycle(j)
         /\ \A k \in DOMAIN webhooks : IsLifecycle(k) => j <= k
         => \A id : id = Before(webhooks[j]) => Known(id)
    /\ (\A k \in DOMAIN webhooks : ~IsLifecycle(k)) =>
         \A id : id = installed => Known(id)

LEMMA InitOrderInv == Init => OrderInv
BY DEF Init, OrderInv, Known, Settling

LEMMA OrderInvShows == TypeOK /\ OrderInv => InstallationIsKnown
<1> SUFFICES ASSUME TypeOK, OrderInv, Settled
             PROVE  installations = IF installed = NoId THEN {}
                                    ELSE {installed}
  BY DEF InstallationIsKnown
<1>1. \A k \in DOMAIN webhooks : ~IsLifecycle(k)
  BY DEF Settled, IsLifecycle
<1>2. Known(installed)
  BY <1>1 DEF OrderInv, Settled
<1>3. ~Settling
  BY DEF Settled
<1> QED BY <1>2, <1>3 DEF Known, Settling

(* A step that leaves the webhooks and the handlers of those about the     *)
(* installation alone.                                                     *)
LEMMA OrderInvKept ==
  ASSUME OrderInv, UNCHANGED <<installed, webhooks, installations>>,
         orderly' => orderly,
         \A op : Settles(op) => (op \in pending' <=> op \in pending)
  PROVE  OrderInv'
<1>1. Settling' <=> Settling
  BY DEF Settling, Settles
<1>2. \A id : Known(id)' <=> Known(id)
  BY <1>1 DEF Known, Settles
<1>3. \A i : IsLifecycle(i)' <=> IsLifecycle(i)
  BY DEF IsLifecycle
<1>4. \A o, p \in pending' : Settles(o) /\ Settles(p) =>
        o \in pending /\ p \in pending
  OBVIOUS
<1> QED BY <1>2, <1>3, <1>4 DEF OrderInv

(* A webhook comes.                                                        *)
LEMMA CameOrderInv ==
  ASSUME TypeOK, OrderInv, NEW kind, NEW id,
         [kind |-> kind, id |-> id] \in Webhook, Owe(kind, id),
         UNCHANGED <<pending, installations, orderly>>,
         IF Lifecycle([kind |-> kind, id |-> id])
         THEN /\ Before([kind |-> kind, id |-> id]) = installed
              /\ After([kind |-> kind, id |-> id]) = installed'
         ELSE installed' = installed
  PROVE  OrderInv'
<1> DEFINE w == [kind |-> kind, id |-> id]
<1>0. PICK n : n = Len(webhooks) + 1
  OBVIOUS
<1>1. /\ DOMAIN webhooks \subseteq Nat
      /\ DOMAIN webhooks' = DOMAIN webhooks \cup {n}
      /\ \A i \in DOMAIN webhooks : i < n /\ webhooks'[i] = webhooks[i]
      /\ webhooks'[n] = w
      /\ n \in Nat /\ n \in DOMAIN webhooks'
  BY <1>0, WebhookCame DEF TypeOK
<1>2. \A x : Known(x)' <=> Known(x)
  BY DEF Known, Settling
<1>3. IF Lifecycle(w) THEN Before(w) = installed /\ After(w) = installed'
      ELSE installed' = installed
  OBVIOUS
<1> HIDE DEF w
<1>4. /\ \A i \in DOMAIN webhooks : IsLifecycle(i)' <=> IsLifecycle(i)
      /\ IsLifecycle(n)' <=> Lifecycle(w)
      /\ n \notin DOMAIN webhooks
  <2>1. n \notin DOMAIN webhooks
    BY <1>1
  <2> QED BY <1>1, <2>1 DEF IsLifecycle
<1> SUFFICES ASSUME orderly'
             PROVE  OrderInv'
  BY DEF OrderInv
<1>5. \A o, p \in pending' : Settles(o) /\ Settles(p) => o = p
  BY DEF OrderInv
<1>6. ASSUME NEW i \in DOMAIN webhooks', NEW j \in DOMAIN webhooks',
             IsLifecycle(i)', IsLifecycle(j)', i < j,
             \A k \in DOMAIN webhooks' : IsLifecycle(k)' => k <= i \/ j <= k
      PROVE  After(webhooks'[i]) = Before(webhooks'[j])
  <2>1. i \in DOMAIN webhooks /\ i \in Nat /\ j \in Nat
    BY <1>1, <1>6
  <2>2. \A k \in DOMAIN webhooks : IsLifecycle(k) => k <= i \/ j <= k
    BY <1>1, <1>4, <1>6
  <2>3. CASE j \in DOMAIN webhooks
    <3>1. IsLifecycle(i) /\ IsLifecycle(j)
      BY <1>4, <1>6, <2>1, <2>3
    <3>2. After(webhooks[i]) = Before(webhooks[j])
      BY <1>6, <2>1, <2>2, <2>3, <3>1 DEF OrderInv
    <3> QED BY <1>1, <2>1, <2>3, <3>2
  <2>4. CASE j = n
    <3>1. \A k \in DOMAIN webhooks : IsLifecycle(k) => k <= i
      BY <1>1, <2>2, <2>4
    <3>2. After(webhooks[i]) = installed
      BY <1>4, <1>6, <2>1, <3>1 DEF OrderInv
    <3> QED BY <1>1, <1>3, <1>4, <1>6, <2>1, <2>4, <3>2
  <2> QED BY <1>1, <2>3, <2>4
<1>7. ASSUME NEW i \in DOMAIN webhooks', IsLifecycle(i)',
             \A k \in DOMAIN webhooks' : IsLifecycle(k)' => k <= i
      PROVE  After(webhooks'[i]) = installed'
  <2>1. CASE Lifecycle(w)
    <3>1. i = n
      BY <1>1, <1>4, <1>7, <2>1
    <3> QED BY <1>1, <1>3, <2>1, <3>1
  <2>2. CASE ~Lifecycle(w)
    <3>1. i \in DOMAIN webhooks
      BY <1>1, <1>4, <1>7, <2>2
    <3>2. After(webhooks[i]) = installed
      BY <1>1, <1>4, <1>7, <3>1 DEF OrderInv
    <3> QED BY <1>1, <1>3, <2>2, <3>1, <3>2
  <2> QED BY <2>1, <2>2
<1>8. ASSUME NEW j \in DOMAIN webhooks', IsLifecycle(j)',
             \A k \in DOMAIN webhooks' : IsLifecycle(k)' => j <= k,
             NEW x, x = Before(webhooks'[j])
      PROVE  Known(x)'
  <2>1. CASE j \in DOMAIN webhooks
    <3>1. x = Before(webhooks[j])
      BY <1>1, <1>8, <2>1
    <3>2. Known(x)
      BY <1>1, <1>4, <1>8, <2>1, <3>1 DEF OrderInv
    <3> QED BY <1>2, <3>2
  <2>2. CASE j = n
    <3>1. \A k \in DOMAIN webhooks : ~IsLifecycle(k)
      BY <1>1, <1>4, <1>8, <2>2
    <3>2. x = installed
      BY <1>1, <1>3, <1>4, <1>8, <2>2
    <3>3. Known(x)
      BY <3>1, <3>2 DEF OrderInv
    <3> QED BY <1>2, <3>3
  <2> QED BY <1>1, <2>1, <2>2
<1>9. ASSUME \A k \in DOMAIN webhooks' : ~IsLifecycle(k)',
             NEW x, x = installed'
      PROVE  Known(x)'
  <2>1. /\ installed' = installed
        /\ \A k \in DOMAIN webhooks : ~IsLifecycle(k)
    BY <1>1, <1>3, <1>4, <1>9
  <2> QED BY <1>2, <1>9, <2>1 DEF OrderInv
<1> QED BY <1>5, <1>6, <1>7, <1>8, <1>9 DEF OrderInv

(* A webhook about something else goes to its handler.                     *)
LEMMA OtherDeliveredOrderInv ==
  ASSUME TypeOK, OrderInv, NEW r \in Hooks, NEW i \in DOMAIN webhooks,
         Deliver(r, i), ~Lifecycle(webhooks[i])
  PROVE  OrderInv'
<1>1. /\ DOMAIN webhooks \subseteq Nat
      /\ DOMAIN webhooks' \subseteq Nat
      /\ \A j \in DOMAIN webhooks' : /\ Was(i, j) \in DOMAIN webhooks
                                     /\ Was(i, j) # i
                                     /\ webhooks'[j] = webhooks[Was(i, j)]
      /\ \A k \in DOMAIN webhooks :
           k # i => \E j \in DOMAIN webhooks' : k = Was(i, j)
  BY WebhookTaken DEF Deliver, TypeOK
<1>2. /\ \A j \in DOMAIN webhooks' : IsLifecycle(j)' <=> IsLifecycle(Was(i, j))
      /\ ~IsLifecycle(i)
  BY <1>1 DEF IsLifecycle
<1>3. \A j, k \in DOMAIN webhooks' : /\ j < k <=> Was(i, j) < Was(i, k)
                                     /\ j <= k <=> Was(i, j) <= Was(i, k)
  BY <1>1 DEF Was
<1>4. \A op : Settles(op) => (op \in pending' <=> op \in pending)
  <2>1. webhooks[i] \in Webhook
    BY WebhookFields DEF TypeOK
  <2>2. \A op \in Handler(r, webhooks[i]) : ~Settles(op)
    BY <2>1, HandlerSteps DEF Settles, Lifecycle
  <2> QED BY <2>2 DEF Deliver
<1>5. \A x : Known(x)' <=> Known(x)
  <2>1. installations' = installations
    BY DEF Deliver
  <2>2. Settling' <=> Settling
    BY <1>4 DEF Settling, Settles
  <2> QED BY <1>4, <2>1, <2>2 DEF Known, Settles
<1>6. installed' = installed /\ (orderly' => orderly)
  BY DEF Deliver, github
<1> SUFFICES ASSUME orderly'
             PROVE  OrderInv'
  BY DEF OrderInv
<1>7. \A o, p \in pending' : Settles(o) /\ Settles(p) => o = p
  BY <1>4, <1>6 DEF OrderInv
<1>9. ASSUME NEW a \in DOMAIN webhooks', NEW b \in DOMAIN webhooks',
             IsLifecycle(a)', IsLifecycle(b)', a < b,
             \A k \in DOMAIN webhooks' : IsLifecycle(k)' => k <= a \/ b <= k
      PROVE  After(webhooks'[a]) = Before(webhooks'[b])
  <2>1. \A k \in DOMAIN webhooks :
          IsLifecycle(k) => k <= Was(i, a) \/ Was(i, b) <= k
    BY <1>1, <1>2, <1>3, <1>9
  <2>2. After(webhooks[Was(i, a)]) = Before(webhooks[Was(i, b)])
    BY <1>1, <1>2, <1>3, <1>6, <1>9, <2>1 DEF OrderInv
  <2> QED BY <1>1, <2>2
<1>10. ASSUME NEW a \in DOMAIN webhooks', IsLifecycle(a)',
              \A k \in DOMAIN webhooks' : IsLifecycle(k)' => k <= a
       PROVE  After(webhooks'[a]) = installed'
  <2>1. \A k \in DOMAIN webhooks : IsLifecycle(k) => k <= Was(i, a)
    BY <1>1, <1>2, <1>3, <1>10
  <2>2. After(webhooks[Was(i, a)]) = installed
    BY <1>1, <1>2, <1>6, <1>10, <2>1 DEF OrderInv
  <2> QED BY <1>1, <1>6, <2>2
<1>11. ASSUME NEW b \in DOMAIN webhooks', IsLifecycle(b)',
              \A k \in DOMAIN webhooks' : IsLifecycle(k)' => b <= k,
              NEW x, x = Before(webhooks'[b])
       PROVE  Known(x)'
  <2>1. \A k \in DOMAIN webhooks : IsLifecycle(k) => Was(i, b) <= k
    BY <1>1, <1>2, <1>3, <1>11
  <2>2. Known(x)
    BY <1>1, <1>2, <1>6, <1>11, <2>1 DEF OrderInv
  <2> QED BY <1>5, <2>2
<1>12. ASSUME \A k \in DOMAIN webhooks' : ~IsLifecycle(k)',
              NEW x, x = installed'
       PROVE  Known(x)'
  <2>1. \A k \in DOMAIN webhooks : ~IsLifecycle(k)
    BY <1>1, <1>2, <1>12
  <2> QED BY <1>5, <1>6, <1>12, <2>1 DEF OrderInv
<1> QED BY <1>7, <1>9, <1>10, <1>11, <1>12 DEF OrderInv

(* One about the installation goes to its handler, in order.               *)
LEMMA DeliveredOrderInv ==
  ASSUME TypeOK, OrderInv, NEW r \in Hooks, NEW i \in DOMAIN webhooks,
         Deliver(r, i), Lifecycle(webhooks[i])
  PROVE  OrderInv'
<1> SUFFICES ASSUME orderly'
             PROVE  OrderInv'
  BY DEF OrderInv
<1>1. /\ DOMAIN webhooks \subseteq Nat
      /\ DOMAIN webhooks' \subseteq Nat
      /\ \A j \in DOMAIN webhooks' : /\ Was(i, j) \in DOMAIN webhooks
                                     /\ Was(i, j) # i
                                     /\ webhooks'[j] = webhooks[Was(i, j)]
      /\ \A k \in DOMAIN webhooks :
           k # i => \E j \in DOMAIN webhooks' : k = Was(i, j)
  BY WebhookTaken DEF Deliver, TypeOK
<1>2. /\ \A j \in DOMAIN webhooks' : IsLifecycle(j)' <=> IsLifecycle(Was(i, j))
      /\ IsLifecycle(i)
  BY <1>1 DEF IsLifecycle
<1>3. \A j, k \in DOMAIN webhooks' : /\ j < k <=> Was(i, j) < Was(i, k)
                                     /\ j <= k <=> Was(i, j) <= Was(i, k)
  BY <1>1 DEF Was
<1>4. /\ installed' = installed
      /\ installations' = installations
      /\ orderly
      /\ ~Settling
      /\ pending' = pending \cup Handler(r, webhooks[i])
      /\ ~\E j \in 1..(i - 1) : Lifecycle(webhooks[j])
  BY DEF Deliver, github, OutOfOrder
<1>5. \A k \in DOMAIN webhooks : IsLifecycle(k) => i <= k
  <2>1. DOMAIN webhooks = 1..Len(webhooks) /\ Len(webhooks) \in Nat
    BY LenProperties DEF TypeOK
  <2> QED BY <1>4, <2>1 DEF IsLifecycle
<1>6. webhooks[i] \in Webhook /\ webhooks[i].id \in Ids
  BY WebhookFields DEF TypeOK
<1>7. \A x : x = Before(webhooks[i]) => Known(x)
  BY <1>2, <1>4, <1>5 DEF OrderInv
<1>8. \A o \in pending : ~Settles(o)
  BY <1>4 DEF Settling, Settles
<1>9. ASSUME NEW x, x = After(webhooks[i])
      PROVE  Known(x)'
  <2>1. CASE webhooks[i].kind = "created"
    <3>1. OfWebhook("setId", r, webhooks[i].id) \in pending'
      BY <1>4, <1>6, <2>1, HandlerSteps
    <3>2. x = webhooks[i].id /\ x # NoId
      BY <1>6, <1>9, <2>1, AccessAssumption DEF After
    <3>3. Known(NoId)
      BY <1>7, <2>1 DEF Before
    <3>4. installations = {}
      BY <1>4, <1>8, <3>3 DEF Known, Settles
    <3>5. \E op \in pending' : op.step = "setId" /\ op.id = x
      BY <3>1, <3>2 DEF OfWebhook
    <3> QED BY <1>4, <3>2, <3>4, <3>5 DEF Known
  <2>2. CASE webhooks[i].kind = "deleted"
    <3>1. OfWebhook("dropIds", r, webhooks[i].id) \in pending'
      BY <1>4, <1>6, <2>2, HandlerSteps
    <3>2. x = NoId
      BY <1>9, <2>2 DEF After
    <3>3. \E op \in pending' : op.step = "dropIds"
      BY <3>1 DEF OfWebhook
    <3> QED BY <3>2, <3>3 DEF Known
  <2> QED BY <2>1, <2>2 DEF Lifecycle
<1>10. \A o, p \in pending' : Settles(o) /\ Settles(p) => o = p
  <2>1. \A o, p \in Handler(r, webhooks[i]) : Settles(o) /\ Settles(p) => o = p
    <3>1. CASE webhooks[i].kind = "created"
      BY <3>1 DEF Handler, OfWebhook, Settles
    <3>2. CASE webhooks[i].kind = "deleted"
      BY <3>2 DEF Handler, OfWebhook, Settles
    <3> QED BY <3>1, <3>2 DEF Lifecycle
  <2> QED BY <1>4, <1>8, <2>1
<1>11. \A j \in DOMAIN webhooks' : IsLifecycle(j)' => i < Was(i, j)
  BY <1>1, <1>2, <1>5
<1>12. ASSUME NEW a \in DOMAIN webhooks', NEW b \in DOMAIN webhooks',
              IsLifecycle(a)', IsLifecycle(b)', a < b,
              \A k \in DOMAIN webhooks' : IsLifecycle(k)' => k <= a \/ b <= k
       PROVE  After(webhooks'[a]) = Before(webhooks'[b])
  <2>1. \A k \in DOMAIN webhooks :
          IsLifecycle(k) => k <= Was(i, a) \/ Was(i, b) <= k
    <3> SUFFICES ASSUME NEW k \in DOMAIN webhooks, IsLifecycle(k), k # i
                 PROVE  k <= Was(i, a) \/ Was(i, b) <= k
      BY <1>1, <1>11, <1>12
    <3> QED BY <1>1, <1>2, <1>3, <1>12
  <2>2. After(webhooks[Was(i, a)]) = Before(webhooks[Was(i, b)])
    BY <1>1, <1>2, <1>3, <1>4, <1>12, <2>1 DEF OrderInv
  <2> QED BY <1>1, <2>2
<1>13. ASSUME NEW a \in DOMAIN webhooks', IsLifecycle(a)',
              \A k \in DOMAIN webhooks' : IsLifecycle(k)' => k <= a
       PROVE  After(webhooks'[a]) = installed'
  <2>1. \A k \in DOMAIN webhooks : IsLifecycle(k) => k <= Was(i, a)
    <3> SUFFICES ASSUME NEW k \in DOMAIN webhooks, IsLifecycle(k), k # i
                 PROVE  k <= Was(i, a)
      BY <1>1, <1>11, <1>13
    <3> QED BY <1>1, <1>2, <1>3, <1>13
  <2>2. After(webhooks[Was(i, a)]) = installed
    BY <1>1, <1>2, <1>4, <1>13, <2>1 DEF OrderInv
  <2> QED BY <1>1, <1>4, <2>2
<1>14. ASSUME NEW b \in DOMAIN webhooks', IsLifecycle(b)',
              \A k \in DOMAIN webhooks' : IsLifecycle(k)' => b <= k,
              NEW x, x = Before(webhooks'[b])
       PROVE  Known(x)'
  <2>1. \A k \in DOMAIN webhooks : IsLifecycle(k) => k <= i \/ Was(i, b) <= k
    <3> SUFFICES ASSUME NEW k \in DOMAIN webhooks, IsLifecycle(k), k # i
                 PROVE  Was(i, b) <= k
      BY <1>1
    <3> QED BY <1>1, <1>2, <1>3, <1>14
  <2>2. After(webhooks[i]) = Before(webhooks[Was(i, b)])
    BY <1>1, <1>2, <1>4, <1>11, <1>14, <2>1 DEF OrderInv
  <2>3. x = After(webhooks[i])
    BY <1>1, <1>14, <2>2
  <2> QED BY <1>9, <2>3
<1>15. ASSUME \A k \in DOMAIN webhooks' : ~IsLifecycle(k)',
              NEW x, x = installed'
       PROVE  Known(x)'
  <2>1. \A k \in DOMAIN webhooks : IsLifecycle(k) => k <= i
    BY <1>1, <1>2, <1>15
  <2>2. After(webhooks[i]) = installed
    BY <1>2, <1>4, <2>1 DEF OrderInv
  <2> QED BY <1>4, <1>9, <1>15, <2>2
<1> QED BY <1>10, <1>12, <1>13, <1>14, <1>15 DEF OrderInv

LEMMA GitHubOrderInv == TypeOK /\ OrderInv /\ GitHub => OrderInv'
<1> SUFFICES ASSUME TypeOK, OrderInv, GitHub
             PROVE  OrderInv'
  OBVIOUS
<1> USE DEF history
<1>1. CASE \E id \in Ids, repos \in SUBSET Repos : Install(id, repos)
  <2>1. PICK id \in Ids, repos \in SUBSET Repos : Install(id, repos)
    BY <1>1
  <2>2. /\ [kind |-> "created", id |-> id] \in Webhook
        /\ Lifecycle([kind |-> "created", id |-> id])
        /\ Before([kind |-> "created", id |-> id]) = NoId
        /\ After([kind |-> "created", id |-> id]) = id
    BY DEF Webhook, Lifecycle, Before, After
  <2>3. /\ installed = NoId
        /\ installed' = id
        /\ Owe("created", id)
        /\ UNCHANGED <<pending, installations, orderly>>
    BY <2>1 DEF Install
  <2> QED BY <2>2, <2>3, CameOrderInv
<1>2. CASE Uninstall
  <2>1. PICK id : id = installed
    OBVIOUS
  <2>2. /\ id \in Ids
        /\ installed' = NoId
        /\ Owe("deleted", id)
        /\ UNCHANGED <<pending, installations, orderly>>
    BY <1>2, <2>1 DEF Uninstall, TypeOK
  <2>3. /\ [kind |-> "deleted", id |-> id] \in Webhook
        /\ Lifecycle([kind |-> "deleted", id |-> id])
        /\ Before([kind |-> "deleted", id |-> id]) = id
        /\ After([kind |-> "deleted", id |-> id]) = NoId
    BY <2>2 DEF Webhook, Lifecycle, Before, After
  <2> QED BY <2>1, <2>2, <2>3, CameOrderInv
<1>3. CASE \E repos \in SUBSET Repos, kind \in {"repositories", "repository"} :
             Select(repos, kind)
  <2>1. PICK repos \in SUBSET Repos, kind \in {"repositories", "repository"} :
          Select(repos, kind)
    BY <1>3
  <2>2. PICK id : id = installed
    OBVIOUS
  <2>3. /\ id \in Ids
        /\ installed' = installed
        /\ Owe(kind, id)
        /\ UNCHANGED <<pending, installations, orderly>>
    BY <2>1, <2>2 DEF Select, TypeOK
  <2>4. /\ [kind |-> kind, id |-> id] \in Webhook
        /\ ~Lifecycle([kind |-> kind, id |-> id])
    BY <2>3 DEF Webhook, Lifecycle
  <2> QED BY <2>3, <2>4, CameOrderInv
<1>4. CASE \E user \in Users, repo \in Repos : ChangeRights(user, repo)
  BY <1>4, OrderInvKept DEF ChangeRights
<1> QED BY <1>1, <1>2, <1>3, <1>4 DEF GitHub

LEMMA ProcessOrderInv ==
  ASSUME TypeOK, OrderInv,
         \/ Connect \/ Restart
         \/ \E r \in Requests, t \in Tokens, repo \in Repos :
              Authenticate(r, t, repo)
         \/ \E r \in Hooks, i \in DOMAIN webhooks : Deliver(r, i)
         \/ \E i \in DOMAIN webhooks : Refuse(i)
         \/ \E key \in Keys : InfoExpired(key)
  PROVE  OrderInv'
<1> USE DEF history, github
<1>1. CASE Connect
  BY <1>1, OrderInvKept DEF Connect
<1>2. CASE Restart
  <2> SUFFICES ASSUME orderly'
               PROVE  OrderInv'
    BY DEF OrderInv
  <2>1. \A op : Settles(op) => op \notin pending /\ op \notin pending'
    BY <1>2 DEF Restart, Settles, WebhookSteps
  <2> QED BY <1>2, <2>1, OrderInvKept DEF Restart
<1>3. CASE \E r \in Requests, t \in Tokens, repo \in Repos :
             Authenticate(r, t, repo)
  <2>1. PICK r \in Requests, t \in Tokens, repo \in Repos :
          Authenticate(r, t, repo)
    BY <1>3
  <2>2. ~Settles(Auth("readToken", r, t, repo))
    BY DEF Settles, Auth
  <2> QED BY <2>1, <2>2, OrderInvKept DEF Authenticate
<1>4. CASE \E r \in Hooks, i \in DOMAIN webhooks : Deliver(r, i)
  BY <1>4, OtherDeliveredOrderInv, DeliveredOrderInv
<1>5. CASE \E i \in DOMAIN webhooks : Refuse(i)
  BY <1>5 DEF Refuse, OrderInv
<1>6. CASE \E key \in Keys : InfoExpired(key)
  BY <1>6, OrderInvKept DEF InfoExpired
<1> QED BY <1>1, <1>2, <1>3, <1>4, <1>5, <1>6

(* The handler of a webhook about the installation is done: it was the     *)
(* only one, and Mongo knows what it was to tell.                          *)
LEMMA SettledOrderInv ==
  ASSUME TypeOK, OrderInv, NEW op \in pending, SetId(op) \/ DroppedIds(op)
  PROVE  OrderInv'
<1> SUFFICES ASSUME orderly'
             PROVE  OrderInv'
  BY DEF OrderInv
<1>1. /\ UNCHANGED <<installed, webhooks>>
      /\ orderly
      /\ pending' = pending \ {op}
      /\ Settles(op)
  BY DEF SetId, DroppedIds, github, history, Continue, Settles
<1>2. \A o \in pending : Settles(o) => o = op
  BY <1>1 DEF OrderInv
<1>3. ~Settling' /\ Settling
  BY <1>1, <1>2 DEF Settling, Settles
<1>4. ASSUME NEW x, Known(x)
      PROVE  Known(x)'
  <2>1. CASE op.step = "setId"
    <3>1. installations' = installations \cup {op.id}
      BY <2>1 DEF SetId, DroppedIds
    <3>2. x # NoId /\ x = op.id /\ installations = {}
      BY <1>2, <1>3, <1>4, <2>1 DEF Known, Settles
    <3>3. installations' = {x}
      BY <3>1, <3>2
    <3> QED BY <1>3, <3>2, <3>3 DEF Known
  <2>2. CASE op.step = "dropIds"
    <3>1. installations' = {}
      BY <2>2 DEF SetId, DroppedIds
    <3>2. x = NoId
      BY <1>2, <1>3, <1>4, <2>2 DEF Known, Settles
    <3> QED BY <1>3, <3>1, <3>2 DEF Known
  <2> QED BY <1>1, <2>1, <2>2 DEF Settles
<1>5. \A i : IsLifecycle(i)' <=> IsLifecycle(i)
  BY <1>1 DEF IsLifecycle
<1>6. \A o, p \in pending' : Settles(o) /\ Settles(p) => o = p
  BY <1>1, <1>2
<1> QED BY <1>1, <1>4, <1>5, <1>6 DEF OrderInv

LEMMA AnswerOrderInv ==
  ASSUME TypeOK, OrderInv, NEW op \in pending, Answer(op)
  PROVE  OrderInv'
<1>1. op \in Operation
  BY DEF TypeOK
<1> USE DEF history, github
<1>2. ASSUME NEW next, Continue(op, next), ~Settles(op),
             \A o \in next : ~Settles(o),
             UNCHANGED <<installed, webhooks, installations, orderly>>
      PROVE  OrderInv'
  <2>1. \A o : Settles(o) => (o \in pending' <=> o \in pending)
    BY <1>2 DEF Continue
  <2> QED BY <1>2, <2>1, OrderInvKept
<1>3. CASE GotTokenInfo(op)
  BY <1>2, <1>3 DEF GotTokenInfo, Auth, Settles
<1>4. CASE ReadId(op)
  <2>1. \A id : ~Settles(WithId("readInfo", op, id)) /\ ~Settles(op)
    BY <1>4 DEF ReadId, WithId, Settles
  <2>2. CASE installations = {}
    BY <1>2, <1>4, <2>1, <2>2 DEF ReadId
  <2>3. CASE installations # {}
    <3>1. PICK id \in installations :
            Continue(op, {WithId("readInfo", op, id)})
      BY <1>4, <2>3 DEF ReadId
    <3> QED BY <1>2, <1>4, <2>1, <3>1 DEF ReadId
  <2> QED BY <2>2, <2>3
<1>5. CASE ReadInfo(op)
  <2>1. \A o \in Decide(op, infos[<<op.id, op.token>>]) : ~Settles(o)
    BY <1>1, <1>5, DecideType DEF ReadInfo, Settles
  <2> QED BY <1>2, <1>5, <2>1 DEF ReadInfo, WithId, Settles
<1>6. CASE FetchedInfo(op)
  BY <1>2, <1>6 DEF FetchedInfo, SaveInfo, Settles
<1>7. CASE FetchFailed(op)
  BY <1>2, <1>7 DEF FetchFailed, Settles
<1>8. CASE SavedInfo(op)
  <2>1. \A o \in Decide(op, op.repos) : ~Settles(o)
    BY <1>1, <1>8, DecideType DEF SavedInfo, Settles
  <2> QED BY <1>2, <1>8, <2>1 DEF SavedInfo, Settles
<1>9. CASE Acted(op)
  BY <1>2, <1>9 DEF Acted, Settles
<1>10. CASE SetId(op)
  BY <1>10, SettledOrderInv
<1>11. CASE DroppedIds(op)
  BY <1>11, SettledOrderInv
<1>12. CASE DroppedInfos(op)
  BY <1>2, <1>12 DEF DroppedInfos, Settles
<1>13. CASE FoundId(op)
  <2>1. \A id : ~Settles(OfWebhook("dropInfos", op.req, id)) /\ ~Settles(op)
    BY <1>13 DEF FoundId, OfWebhook, Settles
  <2>2. CASE installations = {}
    BY <1>2, <1>13, <2>1, <2>2 DEF FoundId
  <2>3. CASE installations # {}
    <3>1. PICK id \in installations :
            Continue(op, {OfWebhook("dropInfos", op.req, id)})
      BY <1>13, <2>3 DEF FoundId
    <3> QED BY <1>2, <1>13, <2>1, <3>1 DEF FoundId
  <2> QED BY <2>2, <2>3
<1> QED
  BY <1>3, <1>4, <1>5, <1>6, <1>7, <1>8, <1>9, <1>10, <1>11, <1>12, <1>13
  DEF Answer

LEMMA NextOrderInv == TypeOK /\ OrderInv /\ [Next]_vars => OrderInv'
<1> SUFFICES ASSUME TypeOK, OrderInv, [Next]_vars
             PROVE  OrderInv'
  OBVIOUS
<1>1. CASE UNCHANGED vars
  BY <1>1, OrderInvKept DEF vars, github, history
<1>2. CASE Next
  BY <1>2, GitHubOrderInv, ProcessOrderInv, AnswerOrderInv DEF Next
<1> QED BY <1>1, <1>2

(* However many installations and uninstallations are on their way: when   *)
(* they are handled in order, Mongo has the one installation there is once *)
(* they are, and no other.                                                 *)
THEOREM InstallationStaysKnown == Spec => []InstallationIsKnown
<1>1. Init => TypeOK /\ OrderInv
  BY InitTypeOK, InitOrderInv
<1>2. TypeOK /\ OrderInv /\ [Next]_vars => (TypeOK /\ OrderInv)'
  BY NextTypeOK, NextOrderInv
<1> QED BY <1>1, <1>2, OrderInvShows, PTL DEF Spec

-----------------------------------------------------------------------------
(* The cache is current.                                                   *)

LEMMA LeastOf ==
  ASSUME NEW T \in SUBSET Nat, T # {}
  PROVE  \E least \in T : \A n \in T : least <= n
<1> DEFINE Below == OpToRel(<, Nat)
<1>1. \A n, m \in Nat : n < m => <<n, m>> \in Below
  BY DEF OpToRel
<1>2. IsWellFoundedOn(Below, Nat)
  BY NatLessThanWellFounded
<1> HIDE DEF Below
<1>3. PICK least \in T : \A n \in T : <<n, least>> \notin Below
  BY <1>2, WFMin
<1>4. \A n \in T : least <= n
  <2> SUFFICES ASSUME NEW n \in T
               PROVE  least <= n
    OBVIOUS
  <2>1. n \in Nat /\ least \in Nat
    OBVIOUS
  <2>2. ~(n < least)
    BY <1>1, <1>3, <2>1
  <2> QED BY <2>1, <2>2
<1> QED BY <1>4

LEMMA HaveIds ==
  ASSUME NEW op \in Operation,
         op.step \in {"readInfo", "fetchInfo", "saveInfo"} \cup WebhookSteps
  PROVE  "id" \in DOMAIN op
BY DEF Operation, AuthSteps, WebhookSteps

(* An uninstallation that is on its way is of an installation that is gone *)
(* for good.                                                               *)
DeletedIsGone ==
  \A i \in DOMAIN webhooks : webhooks[i].kind = "deleted" =>
                               webhooks[i].id # installed

LEMMA InitDeletedIsGone == Init => DeletedIsGone
BY DEF Init, DeletedIsGone

LEMMA NextDeletedIsGone == TypeOK /\ DeletedIsGone /\ [Next]_vars =>
                             DeletedIsGone'
<1> SUFFICES ASSUME TypeOK, DeletedIsGone, [Next]_vars
             PROVE  DeletedIsGone'
  OBVIOUS
<1> USE DEF history, github
<1>1. CASE UNCHANGED <<installed, webhooks>>
  BY <1>1 DEF DeletedIsGone
<1>2. ASSUME NEW i \in DOMAIN webhooks, webhooks' = RemoveAt(webhooks, i),
             installed' = installed
      PROVE  DeletedIsGone'
  BY <1>2, WebhookTaken DEF DeletedIsGone, TypeOK
<1>3. ASSUME NEW kind \in {"created", "repositories", "repository"},
             NEW id \in Ids, Owe(kind, id),
             installed' = installed \/ (installed' = id /\ FreshId(id))
      PROVE  DeletedIsGone'
  <2>1. [kind |-> kind, id |-> id] \in Webhook
    BY DEF Webhook
  <2> QED BY <1>3, <2>1, WebhookCame DEF DeletedIsGone, TypeOK, FreshId
<1>4. CASE \E id \in Ids, repos \in SUBSET Repos : Install(id, repos)
  BY <1>3, <1>4 DEF Install
<1>5. CASE Uninstall
  <2>1. PICK id : id = installed
    OBVIOUS
  <2>2. /\ id \in Ids /\ Owe("deleted", id)
        /\ installed' = NoId
    BY <1>5, <2>1 DEF Uninstall, TypeOK
  <2>3. [kind |-> "deleted", id |-> id] \in Webhook
    BY <2>2 DEF Webhook
  <2>4. webhooks' \in Seq(Webhook)
    BY <2>2, <2>3, AppendProperties DEF Owe, TypeOK
  <2>5. \A i \in DOMAIN webhooks' : webhooks'[i].id \in Ids
    <3>1. \A i \in DOMAIN webhooks' : webhooks'[i] \in Webhook
      BY <2>4, LenProperties, ElementOfSeq
    <3> QED BY <3>1 DEF Webhook
  <2> QED BY <2>2, <2>5, AccessAssumption DEF DeletedIsGone
<1>6. CASE \E repos \in SUBSET Repos, kind \in {"repositories", "repository"} :
             Select(repos, kind)
  <2>1. PICK repos \in SUBSET Repos, kind \in {"repositories", "repository"} :
          Select(repos, kind)
    BY <1>6
  <2>2. PICK id : id = installed
    OBVIOUS
  <2>3. id \in Ids /\ Owe(kind, id) /\ installed' = installed
    BY <2>1, <2>2 DEF Select, TypeOK
  <2> QED BY <1>3, <2>3
<1>7. CASE \E user \in Users, repo \in Repos : ChangeRights(user, repo)
  BY <1>1, <1>7 DEF ChangeRights
<1>8. CASE GitHub
  BY <1>4, <1>5, <1>6, <1>7, <1>8 DEF GitHub
<1>9. CASE \E r \in Hooks, i \in DOMAIN webhooks : Deliver(r, i)
  BY <1>2, <1>9 DEF Deliver
<1>10. CASE \E i \in DOMAIN webhooks : Refuse(i)
  BY <1>2, <1>10 DEF Refuse
<1>11. CASE \E op \in pending : Answer(op)
  BY <1>1, <1>11 DEF Answer, GotTokenInfo, ReadId, ReadInfo, FetchedInfo,
     FetchFailed, SavedInfo, Acted, SetId, DroppedIds, DroppedInfos, FoundId
<1>12. CASE \/ Connect \/ Restart
            \/ \E r \in Requests, t \in Tokens, repo \in Repos :
                 Authenticate(r, t, repo)
            \/ \E key \in Keys : InfoExpired(key)
  BY <1>1, <1>12 DEF Connect, Restart, Authenticate, InfoExpired
<1>13. CASE UNCHANGED vars
  BY <1>1, <1>13 DEF vars
<1> QED BY <1>8, <1>9, <1>10, <1>11, <1>12, <1>13 DEF Next

(* The id is in use: Mongo knows it, or an authenticator that has read it  *)
(* fills or has filled the cache.                                          *)
Used(id) ==
  \/ id \in installations
  \/ \E t \in Tokens : infos[<<id, t>>] # NoInfo
  \/ \E op \in pending : op.step \in {"readInfo", "fetchInfo", "saveInfo"}
                         /\ op.id = id

(* An id in use was told, and nothing about it is on its way.              *)
UsedInv ==
  orderly =>
    \A id \in Ids : id = installed /\ Used(id) =>
      ~Settling /\ \A k \in DOMAIN webhooks : ~IsLifecycle(k)

LEMMA InitUsedInv == Init => UsedInv
BY DEF Init, UsedInv, IsLifecycle, Settling

LEMMA UsedInvKept ==
  ASSUME UsedInv, orderly' => orderly, UNCHANGED <<installed, webhooks>>,
         Settling' => Settling,
         \A id \in Ids : Used(id)' => Used(id)
  PROVE  UsedInv'
BY DEF UsedInv, IsLifecycle

LEMMA GitHubUsedInv == TypeOK /\ UsedInv /\ GitHub => UsedInv'
<1> SUFFICES ASSUME TypeOK, UsedInv, GitHub
             PROVE  UsedInv'
  OBVIOUS
<1> USE DEF history
<1>1. UNCHANGED <<installations, infos, pending, orderly>>
  BY DEF GitHub, Install, Uninstall, Select, ChangeRights
<1>2. (Settling' <=> Settling) /\ \A id : Used(id)' <=> Used(id)
  BY <1>1 DEF Settling, Used
<1>3. CASE \E id \in Ids, repos \in SUBSET Repos : Install(id, repos)
  <2>1. PICK id \in Ids, repos \in SUBSET Repos : Install(id, repos)
    BY <1>3
  <2>2. \A op \in pending :
          op.step \in {"readInfo", "fetchInfo", "saveInfo"} => op.id # id
    BY <2>1, HaveIds DEF Install, FreshId, TypeOK
  <2>3. installed' = id /\ ~Used(id)
    BY <2>1, <2>2 DEF Install, FreshId, Used
  <2> QED BY <1>2, <2>3 DEF UsedInv
<1>4. CASE Uninstall
  BY <1>4, AccessAssumption DEF Uninstall, UsedInv
<1>5. CASE \E repos \in SUBSET Repos, kind \in {"repositories", "repository"} :
             Select(repos, kind)
  <2>1. PICK repos \in SUBSET Repos, kind \in {"repositories", "repository"} :
          Select(repos, kind)
    BY <1>5
  <2>2. PICK id : id = installed
    OBVIOUS
  <2>3. id \in Ids /\ Owe(kind, id) /\ installed' = installed
    BY <2>1, <2>2 DEF Select, TypeOK
  <2>4. [kind |-> kind, id |-> id] \in Webhook
        /\ ~Lifecycle([kind |-> kind, id |-> id])
    BY <2>3 DEF Webhook, Lifecycle
  <2>5. (\A k \in DOMAIN webhooks : ~IsLifecycle(k)) =>
          (\A k \in DOMAIN webhooks' : ~IsLifecycle(k)')
    BY <2>3, <2>4, WebhookCame DEF IsLifecycle, TypeOK
  <2> QED BY <1>1, <1>2, <2>3, <2>5 DEF UsedInv
<1>6. CASE \E user \in Users, repo \in Repos : ChangeRights(user, repo)
  BY <1>1, <1>2, <1>6, UsedInvKept DEF ChangeRights
<1> QED BY <1>3, <1>4, <1>5, <1>6 DEF GitHub

LEMMA DeliverUsedInv ==
  ASSUME TypeOK, UsedInv, NEW r \in Hooks, NEW i \in DOMAIN webhooks,
         Deliver(r, i)
  PROVE  UsedInv'
<1>1. /\ UNCHANGED <<installed, installations, infos>>
      /\ orderly' => orderly
      /\ pending' = pending \cup Handler(r, webhooks[i])
      /\ webhooks' = RemoveAt(webhooks, i)
      /\ webhooks[i] \in Webhook
  BY WebhookFields DEF Deliver, github, TypeOK
<1>2. \A id : Used(id)' => Used(id)
  BY <1>1, HandlerSteps DEF Used, WebhookSteps
<1>3. CASE Lifecycle(webhooks[i])
  <2>1. IsLifecycle(i)
    BY <1>3 DEF IsLifecycle
  <2> QED BY <1>1, <1>2, <2>1 DEF UsedInv
<1>4. CASE ~Lifecycle(webhooks[i])
  <2>1. Settling' => Settling
    BY <1>1, <1>4, HandlerSteps DEF Settling, Lifecycle
  <2>2. (\A k \in DOMAIN webhooks : ~IsLifecycle(k)) =>
          (\A k \in DOMAIN webhooks' : ~IsLifecycle(k)')
    BY <1>1, WebhookTaken DEF IsLifecycle, TypeOK
  <2> QED BY <1>1, <1>2, <2>1, <2>2 DEF UsedInv
<1> QED BY <1>3, <1>4

LEMMA ProcessUsedInv ==
  ASSUME TypeOK, UsedInv,
         \/ Connect \/ Restart
         \/ \E r \in Requests, t \in Tokens, repo \in Repos :
              Authenticate(r, t, repo)
         \/ \E i \in DOMAIN webhooks : Refuse(i)
         \/ \E key \in Keys : InfoExpired(key)
  PROVE  UsedInv'
<1> USE DEF history, github
<1>1. CASE Connect
  BY <1>1, UsedInvKept DEF Connect, Used, Settling
<1>2. CASE Restart
  BY <1>2, UsedInvKept DEF Restart, Used, Settling
<1>3. CASE \E r \in Requests, t \in Tokens, repo \in Repos :
             Authenticate(r, t, repo)
  BY <1>3, UsedInvKept DEF Authenticate, Auth, Used, Settling
<1>4. CASE \E i \in DOMAIN webhooks : Refuse(i)
  BY <1>4 DEF Refuse, UsedInv
<1>5. CASE \E key \in Keys : InfoExpired(key)
  <2>1. PICK key \in Keys : InfoExpired(key)
    BY <1>5
  <2>2. \A k \in Keys : infos'[k] # NoInfo => infos[k] # NoInfo
    BY <2>1 DEF InfoExpired, TypeOK
  <2>3. \A id \in Ids, t \in Tokens : <<id, t>> \in Keys
    BY DEF Keys
  <2>4. \A id \in Ids : Used(id)' => Used(id)
    BY <2>1, <2>2, <2>3 DEF InfoExpired, Used
  <2> QED BY <2>1, <2>4, UsedInvKept DEF InfoExpired, Settling
<1> QED BY <1>1, <1>2, <1>3, <1>4, <1>5

(* The installation that becomes known is the last one told of.            *)
LEMMA SetIdUsedInv ==
  ASSUME TypeOK, OrderInv, DeletedIsGone, UsedInv, NEW op \in pending, SetId(op)
  PROVE  UsedInv'
<1>1. /\ UNCHANGED <<installed, webhooks, infos, orderly>>
      /\ pending' = pending \ {op}
      /\ installations' = installations \cup {op.id}
      /\ op.step = "setId"
      /\ Settles(op)
  BY DEF SetId, github, history, Continue, Settles
<1> SUFFICES ASSUME orderly, NEW id \in Ids, id = installed, Used(id)'
             PROVE  ~Settling' /\ \A k \in DOMAIN webhooks : ~IsLifecycle(k)
  BY <1>1 DEF UsedInv, IsLifecycle
<1>2. \A o \in pending : Settles(o) => o = op
  BY <1>1 DEF OrderInv
<1>3. ~Settling' /\ Settling
  BY <1>1, <1>2 DEF Settling, Settles
<1>4. id = op.id
  <2>1. ~Used(id)
    BY <1>3 DEF UsedInv
  <2>2. id \notin installations
    BY <2>1 DEF Used
  <2>3. id \in installations'
    BY <1>1, <2>1 DEF Used
  <2> QED BY <1>1, <2>2, <2>3
<1>5. ASSUME NEW k \in DOMAIN webhooks, IsLifecycle(k)
      PROVE  FALSE
  <2> DEFINE Ks == {n \in DOMAIN webhooks : IsLifecycle(n)}
  <2>1. Ks \in SUBSET Nat
    BY LenProperties DEF TypeOK
  <2>2. k \in Ks
    BY <1>5
  <2>3. PICK j \in Ks : \A n \in Ks : j <= n
    <3> HIDE DEF Ks
    <3> QED BY <2>1, <2>2, LeastOf
  <2>4. /\ j \in DOMAIN webhooks /\ IsLifecycle(j)
        /\ \A n \in DOMAIN webhooks : IsLifecycle(n) => j <= n
    BY <2>3
  <2>5. PICK x : x = Before(webhooks[j])
    OBVIOUS
  <2>6. Known(x)
    BY <2>4, <2>5 DEF OrderInv
  <2>7. x = op.id /\ x # NoId
    BY <1>1, <1>2, <1>3, <2>6 DEF Known, Settles
  <2>8. webhooks[j].kind = "deleted" /\ webhooks[j].id = installed
    BY <1>4, <2>4, <2>5, <2>7 DEF Before, IsLifecycle, Lifecycle
  <2> QED BY <2>4, <2>8 DEF DeletedIsGone
<1> QED BY <1>3, <1>5

LEMMA AnswerUsedInv ==
  ASSUME TypeOK, OrderInv, DeletedIsGone, UsedInv, NEW op \in pending,
         Answer(op)
  PROVE  UsedInv'
<1>1. op \in Operation
  BY DEF TypeOK
<1> USE DEF history, github
<1>2. ASSUME NEW next, Continue(op, next), \A o \in next : ~Settles(o),
             UNCHANGED <<installed, webhooks, orderly>>,
             \A id \in Ids : Used(id)' => Used(id)
      PROVE  UsedInv'
  <2>1. Settling' => Settling
    BY <1>2 DEF Continue, Settling, Settles
  <2> QED BY <1>2, <2>1, UsedInvKept
<1>3. CASE GotTokenInfo(op)
  <2>1. \A id \in Ids : Used(id)' => Used(id)
    BY <1>3 DEF GotTokenInfo, Continue, Auth, Used
  <2> QED BY <1>2, <1>3, <2>1 DEF GotTokenInfo, Auth, Settles
<1>4. CASE ReadId(op)
  <2>1. CASE installations = {}
    <3>1. \A id \in Ids : Used(id)' => Used(id)
      BY <1>4, <2>1 DEF ReadId, Continue, Used
    <3> QED BY <1>2, <1>4, <2>1, <3>1 DEF ReadId
  <2>2. CASE installations # {}
    <3>1. PICK new \in installations :
            Continue(op, {WithId("readInfo", op, new)})
      BY <1>4, <2>2 DEF ReadId
    <3>2. \A id \in Ids : Used(id)' => Used(id)
      BY <1>4, <3>1 DEF ReadId, Continue, WithId, Used
    <3>3. ~Settles(WithId("readInfo", op, new))
      BY DEF WithId, Settles
    <3> QED BY <1>2, <1>4, <3>1, <3>2, <3>3 DEF ReadId
  <2> QED BY <2>1, <2>2
<1>5. CASE ReadInfo(op)
  <2>1. \A o \in Decide(op, infos[<<op.id, op.token>>]) : o.step = "act"
    BY <1>1, <1>5, DecideType DEF ReadInfo
  <2>2. PICK next : /\ Continue(op, next)
                    /\ \A o \in next : \/ o.step = "act"
                                       \/ o = WithId("fetchInfo", op, op.id)
    BY <1>5, <2>1 DEF ReadInfo
  <2>3. \A id \in Ids : Used(id)' => Used(id)
    BY <1>5, <2>2 DEF ReadInfo, Continue, WithId, Used
  <2> QED BY <1>2, <1>5, <2>2, <2>3 DEF ReadInfo, WithId, Settles
<1>6. CASE FetchedInfo(op)
  <2>1. \A id \in Ids : Used(id)' => Used(id)
    BY <1>6 DEF FetchedInfo, Continue, SaveInfo, Used
  <2> QED BY <1>2, <1>6, <2>1 DEF FetchedInfo, SaveInfo, Settles
<1>7. CASE FetchFailed(op)
  <2>1. \A id \in Ids : Used(id)' => Used(id)
    BY <1>7 DEF FetchFailed, Continue, Used
  <2> QED BY <1>2, <1>7, <2>1 DEF FetchFailed
<1>8. CASE SavedInfo(op)
  <2>1. \A o \in Decide(op, op.repos) : o.step = "act"
    BY <1>1, <1>8, DecideType DEF SavedInfo
  <2>2. \A id \in Ids, t \in Tokens : infos'[<<id, t>>] # NoInfo =>
          id = op.id \/ infos[<<id, t>>] # NoInfo
    <3>1. \A key \in Keys :
            key # <<op.id, op.token>> => infos'[key] = infos[key]
      BY <1>8 DEF SavedInfo, TypeOK
    <3>2. \A id \in Ids, t \in Tokens : <<id, t>> \in Keys
      BY DEF Keys
    <3>3. \A id, t : <<id, t>> = <<op.id, op.token>> => id = op.id
      OBVIOUS
    <3> QED BY <3>1, <3>2, <3>3
  <2>3. \A id \in Ids : Used(id)' => Used(id)
    BY <1>8, <2>1, <2>2 DEF SavedInfo, Continue, Used
  <2> QED BY <1>2, <1>8, <2>1, <2>3 DEF SavedInfo, Settles
<1>9. CASE Acted(op)
  <2>1. \A id \in Ids : Used(id)' => Used(id)
    BY <1>9 DEF Acted, Continue, Used
  <2> QED BY <1>2, <1>9, <2>1 DEF Acted
<1>10. CASE SetId(op)
  BY <1>10, SetIdUsedInv
<1>11. CASE DroppedIds(op)
  <2>1. \A id \in Ids : Used(id)' => Used(id)
    BY <1>11 DEF DroppedIds, Continue, Used
  <2> QED BY <1>2, <1>11, <2>1 DEF DroppedIds
<1>12. CASE DroppedInfos(op)
  <2>1. \A id \in Ids, t \in Tokens :
          infos'[<<id, t>>] # NoInfo => infos[<<id, t>>] # NoInfo
    BY <1>12 DEF DroppedInfos, Keys
  <2>2. \A id \in Ids : Used(id)' => Used(id)
    BY <1>12, <2>1 DEF DroppedInfos, Continue, Used
  <2> QED BY <1>2, <1>12, <2>2 DEF DroppedInfos
<1>13. CASE FoundId(op)
  <2>1. PICK next : /\ Continue(op, next)
                    /\ \A o \in next : o.step = "dropInfos"
    <3>1. \A id : \A o \in {OfWebhook("dropInfos", op.req, id)} :
            o.step = "dropInfos"
      BY DEF OfWebhook
    <3>2. PICK id : Continue(op, {OfWebhook("dropInfos", op.req, id)})
      BY <1>13, FoundIdGoesOn
    <3> HIDE DEF OfWebhook
    <3> QED BY <3>1, <3>2
  <2>2. \A id \in Ids : Used(id)' => Used(id)
    BY <1>13, <2>1 DEF FoundId, Continue, Used
  <2> QED BY <1>2, <1>13, <2>1, <2>2 DEF FoundId, Settles
<1> QED
  BY <1>3, <1>4, <1>5, <1>6, <1>7, <1>8, <1>9, <1>10, <1>11, <1>12, <1>13
  DEF Answer

LEMMA NextUsedInv ==
  TypeOK /\ OrderInv /\ DeletedIsGone /\ UsedInv /\ [Next]_vars => UsedInv'
<1> SUFFICES ASSUME TypeOK, OrderInv, DeletedIsGone, UsedInv, [Next]_vars
             PROVE  UsedInv'
  OBVIOUS
<1>1. CASE UNCHANGED vars
  BY <1>1, UsedInvKept DEF vars, github, history, Used, Settling
<1>2. CASE Next
  BY <1>2, GitHubUsedInv, DeliverUsedInv, ProcessUsedInv, AnswerUsedInv
  DEF Next
<1> QED BY <1>1, <1>2

(* A webhook that is on its way or handled will drop the cache of id.      *)
Owed(id) ==
  \/ \E i \in DOMAIN webhooks :
       webhooks[i].kind \in {"repositories", "repository"}
         /\ webhooks[i].id = id
  \/ \E op \in pending : op.step \in {"findId", "dropInfos"} /\ op.id = id

(* The cache lists repo, or is about to.                                   *)
Lists(id, t, repo) ==
  \/ infos[<<id, t>>] # NoInfo /\ repo \in infos[<<id, t>>]
  \/ \E op \in pending : /\ op.step = "saveInfo"
                         /\ op.id = id
                         /\ op.token = t
                         /\ repo \in op.repos

(* What it lists and the installation does not cover will be dropped.      *)
Wrong(id, t, repo) == /\ id = installed
                      /\ Lists(id, t, repo)
                      /\ repo \notin selected
                      /\ <<id, t>> \notin stale

CurrentInv ==
  orderly => \A id \in Ids, t \in Tokens, repo \in Repos :
               Wrong(id, t, repo) => Owed(id)

LEMMA InitCurrentInv == Init => CurrentInv
BY AccessAssumption DEF Init, CurrentInv, Wrong

LEMMA CurrentInvShows == TypeOK /\ CurrentInv => InfoIsCurrent
<1> SUFFICES ASSUME TypeOK, CurrentInv, orderly, NEW key \in Keys,
                    infos[key] # NoInfo, key \notin stale, key[1] = installed,
                    Invalidated(installed)
             PROVE  infos[key] \subseteq selected
  BY DEF InfoIsCurrent
<1>1. PICK id \in Ids, t \in Tokens : key = <<id, t>>
  BY DEF Keys
<1>2. id = installed
  BY <1>1
<1>3. \A repo \in infos[key] : repo \notin selected => Wrong(id, t, repo)
  BY <1>1, <1>2 DEF Wrong, Lists
<1>4. ~Owed(id)
  BY <1>2 DEF Invalidated, Owed
<1>5. infos[key] \subseteq Repos
  BY DEF TypeOK
<1> QED BY <1>3, <1>4, <1>5 DEF CurrentInv

LEMMA CurrentInvKept ==
  ASSUME CurrentInv, orderly' => orderly,
         \A id \in Ids, t \in Tokens, repo \in Repos :
           orderly' /\ Wrong(id, t, repo)' =>
             \/ Owed(id)'
             \/ Wrong(id, t, repo) /\ (Owed(id) => Owed(id)')
  PROVE  CurrentInv'
BY DEF CurrentInv

LEMMA GitHubCurrentInv == TypeOK /\ CurrentInv /\ GitHub => CurrentInv'
<1> SUFFICES ASSUME TypeOK, CurrentInv, GitHub
             PROVE  CurrentInv'
  OBVIOUS
<1> USE DEF history
<1>1. UNCHANGED <<infos, pending, stale, orderly>>
  BY DEF GitHub, Install, Uninstall, Select, ChangeRights
<1>2. \A id, t, repo : Lists(id, t, repo)' <=> Lists(id, t, repo)
  BY <1>1 DEF Lists
<1>3. CASE \E id \in Ids, repos \in SUBSET Repos : Install(id, repos)
  <2>1. PICK id \in Ids, repos \in SUBSET Repos : Install(id, repos)
    BY <1>3
  <2>2. \A op \in pending : op.step = "saveInfo" => op.id # id
    BY <2>1, HaveIds DEF Install, FreshId, TypeOK
  <2>3. installed' = id /\ \A t \in Tokens, repo \in Repos : ~Lists(id, t, repo)
    BY <2>1, <2>2 DEF Install, FreshId, Lists
  <2> QED BY <1>1, <1>2, <2>3, CurrentInvKept DEF Wrong
<1>4. CASE Uninstall
  <2>1. installed' \notin Ids
    BY <1>4, AccessAssumption DEF Uninstall
  <2> QED BY <1>1, <2>1, CurrentInvKept DEF Wrong
<1>5. CASE \E repos \in SUBSET Repos, kind \in {"repositories", "repository"} :
             Select(repos, kind)
  <2>1. PICK repos \in SUBSET Repos, kind \in {"repositories", "repository"} :
          Select(repos, kind)
    BY <1>5
  <2>2. PICK id : id = installed
    OBVIOUS
  <2>3. id \in Ids /\ Owe(kind, id) /\ installed' = installed
    BY <2>1, <2>2 DEF Select, TypeOK
  <2>4. [kind |-> kind, id |-> id] \in Webhook
    BY <2>3 DEF Webhook
  <2>5. \E i \in DOMAIN webhooks' :
          webhooks'[i] = [kind |-> kind, id |-> id]
    BY <2>3, <2>4, WebhookCame DEF TypeOK
  <2>6. Owed(id)'
    BY <2>5 DEF Owed
  <2>7. \A x \in Ids, t \in Tokens, repo \in Repos :
          Wrong(x, t, repo)' => x = id
    BY <2>2, <2>3 DEF Wrong
  <2>8. \A x \in Ids, t \in Tokens, repo \in Repos :
          Wrong(x, t, repo)' => Owed(x)'
    BY <2>6, <2>7
  <2> QED BY <1>1, <2>8, CurrentInvKept
<1>6. CASE \E user \in Users, repo \in Repos : ChangeRights(user, repo)
  BY <1>1, <1>2, <1>6, CurrentInvKept DEF ChangeRights, Wrong, Owed
<1> QED BY <1>3, <1>4, <1>5, <1>6 DEF GitHub

LEMMA DeliverCurrentInv ==
  ASSUME TypeOK, CurrentInv, NEW r \in Hooks, NEW i \in DOMAIN webhooks,
         Deliver(r, i)
  PROVE  CurrentInv'
<1>1. /\ UNCHANGED <<installed, selected, infos, stale>>
      /\ orderly' => orderly
      /\ pending' = pending \cup Handler(r, webhooks[i])
      /\ webhooks' = RemoveAt(webhooks, i)
      /\ webhooks[i] \in Webhook
  BY WebhookFields DEF Deliver, github, TypeOK
<1>2. \A id, t, repo : Lists(id, t, repo)' <=> Lists(id, t, repo)
  BY <1>1, HandlerSteps DEF Lists, WebhookSteps
<1>3. ASSUME NEW id, Owed(id)
      PROVE  Owed(id)'
  <2>1. CASE \E op \in pending : op.step \in {"findId", "dropInfos"}
                                 /\ op.id = id
    BY <1>1, <2>1 DEF Owed
  <2>2. ASSUME NEW k \in DOMAIN webhooks, webhooks[k].id = id,
               webhooks[k].kind \in {"repositories", "repository"}
        PROVE  Owed(id)'
    <3>1. CASE k = i
      <4>1. \/ OfWebhook("dropInfos", r, id) \in pending'
            \/ OfWebhook("findId", r, id) \in pending'
        BY <1>1, <2>2, <3>1, HandlerSteps
      <4> QED BY <4>1 DEF OfWebhook, Owed
    <3>2. CASE k # i
      BY <1>1, <2>2, <3>2, WebhookTaken DEF Owed, TypeOK
    <3> QED BY <3>1, <3>2
  <2> QED BY <1>3, <2>1, <2>2 DEF Owed
<1> QED BY <1>1, <1>2, <1>3, CurrentInvKept DEF Wrong

LEMMA ProcessCurrentInv ==
  ASSUME TypeOK, CurrentInv,
         \/ Connect \/ Restart
         \/ \E r \in Requests, t \in Tokens, repo \in Repos :
              Authenticate(r, t, repo)
         \/ \E i \in DOMAIN webhooks : Refuse(i)
         \/ \E key \in Keys : InfoExpired(key)
  PROVE  CurrentInv'
<1> USE DEF history, github
<1>1. CASE Connect
  BY <1>1 DEF Connect, CurrentInv, Wrong, Lists, Owed
<1>2. CASE Restart
  <2>1. /\ UNCHANGED <<installed, selected, webhooks, infos>>
        /\ pending' = {}
        /\ stale' = {key \in stale : infos[key] # NoInfo}
        /\ orderly' => orderly
    BY <1>2 DEF Restart
  <2>2. \A op \in pending : orderly' => op.step \notin {"findId", "dropInfos"}
    BY <1>2 DEF Restart, WebhookSteps
  <2>3. \A id, t, repo : Wrong(id, t, repo)' => Wrong(id, t, repo)
    BY <2>1 DEF Wrong, Lists
  <2>4. \A id : orderly' /\ Owed(id) => Owed(id)'
    BY <2>1, <2>2 DEF Owed
  <2> QED BY <2>1, <2>3, <2>4, CurrentInvKept
<1>3. CASE \E r \in Requests, t \in Tokens, repo \in Repos :
             Authenticate(r, t, repo)
  <2>1. UNCHANGED <<installed, selected, webhooks, infos, stale, orderly>>
    BY <1>3 DEF Authenticate
  <2>2. \A id, t, repo : Lists(id, t, repo)' <=> Lists(id, t, repo)
    BY <1>3, <2>1 DEF Authenticate, Auth, Lists
  <2>3. \A id : Owed(id) => Owed(id)'
    BY <1>3, <2>1 DEF Authenticate, Owed
  <2> QED BY <2>1, <2>2, <2>3, CurrentInvKept DEF Wrong
<1>4. CASE \E i \in DOMAIN webhooks : Refuse(i)
  BY <1>4 DEF Refuse, CurrentInv
<1>5. CASE \E key \in Keys : InfoExpired(key)
  <2>1. PICK key \in Keys : InfoExpired(key)
    BY <1>5
  <2>2. /\ UNCHANGED <<installed, selected, webhooks, pending, orderly>>
        /\ infos' = [infos EXCEPT ![key] = NoInfo]
        /\ stale' = (stale \ {key}) \cup (stale \cap InFlight(key[1]))
    BY <2>1 DEF InfoExpired
  <2>3. ASSUME NEW id \in Ids, NEW t \in Tokens, NEW repo, Wrong(id, t, repo)'
        PROVE  Wrong(id, t, repo)
    <3> DEFINE this == <<id, t>>
    <3>1. this \in Keys /\ this[1] = id
      BY DEF Keys
    <3>2. infos'[this] = IF this = key THEN NoInfo ELSE infos[this]
      BY <2>2, <3>1 DEF TypeOK
    <3>3. Lists(id, t, repo)
      BY <2>2, <2>3, <3>2 DEF Wrong, Lists
    <3>4. CASE this = key
      <4>1. Filling(id, t)
        BY <2>2, <2>3, <3>2, <3>4 DEF Wrong, Lists, Filling
      <4>2. this \in InFlight(key[1])
        BY <3>1, <3>4, <4>1, InFlightIsFilling
      <4> QED BY <2>2, <2>3, <3>3, <4>2 DEF Wrong
    <3>5. CASE this # key
      BY <2>2, <2>3, <3>3, <3>5 DEF Wrong
    <3> QED BY <3>4, <3>5
  <2>4. \A id : Owed(id) => Owed(id)'
    BY <2>2 DEF Owed
  <2> QED BY <2>2, <2>3, <2>4, CurrentInvKept
<1> QED BY <1>1, <1>2, <1>3, <1>4, <1>5

(* The route of a repository event finds the installation there is, if     *)
(* that has anything in the cache.                                         *)
LEMMA FoundIdCurrentInv ==
  ASSUME TypeOK, OrderInv, UsedInv, CurrentInv, NEW op \in pending, FoundId(op)
  PROVE  CurrentInv'
<1>1. /\ UNCHANGED <<installed, selected, webhooks, infos, stale, orderly>>
      /\ op.step = "findId"
  BY DEF FoundId, github, history
<1>2. \A o : (o \in pending /\ o # op => o \in pending')
             /\ (o \in pending' => o \in pending \/ o.step = "dropInfos")
  <2>1. PICK id : Continue(op, {OfWebhook("dropInfos", op.req, id)})
    BY FoundIdGoesOn
  <2> QED BY <2>1 DEF Continue, OfWebhook
<1>3. \A id, t, repo : Wrong(id, t, repo)' => Wrong(id, t, repo)
  BY <1>1, <1>2 DEF Wrong, Lists
<1>4. ASSUME orderly, NEW id \in Ids, NEW t \in Tokens, NEW repo,
             Wrong(id, t, repo), Owed(id)
      PROVE  Owed(id)'
  <2>1. id = installed /\ Used(id)
    BY <1>4 DEF Wrong, Lists, Used
  <2>2. ~Settling /\ \A k \in DOMAIN webhooks : ~IsLifecycle(k)
    BY <1>4, <2>1 DEF UsedInv
  <2>3. Known(id)
    BY <1>4, <2>1, <2>2 DEF OrderInv
  <2>4. installations = {id}
    BY <2>2, <2>3, AccessAssumption DEF Known, Settling
  <2>5. OfWebhook("dropInfos", op.req, id) \in pending'
    BY <2>4 DEF FoundId, Continue
  <2> QED BY <2>5 DEF OfWebhook, Owed
<1> QED BY <1>1, <1>3, <1>4, CurrentInvKept

LEMMA AnswerCurrentInv ==
  ASSUME TypeOK, OrderInv, UsedInv, CurrentInv, NEW op \in pending, Answer(op)
  PROVE  CurrentInv'
<1>1. op \in Operation
  BY DEF TypeOK
<1> USE DEF history, github
<1>2. ASSUME NEW next, Continue(op, next),
             op.step \notin {"dropInfos", "findId"},
             \A o \in next : o.step # "saveInfo",
             UNCHANGED <<installed, selected, webhooks, infos, stale, orderly>>
      PROVE  CurrentInv'
  <2>1. \A id, t, repo : Lists(id, t, repo)' => Lists(id, t, repo)
    BY <1>2 DEF Continue, Lists
  <2>2. \A id : Owed(id) => Owed(id)'
    BY <1>2 DEF Continue, Owed
  <2> QED BY <1>2, <2>1, <2>2, CurrentInvKept DEF Wrong
<1>3. CASE GotTokenInfo(op)
  BY <1>2, <1>3 DEF GotTokenInfo, Auth
<1>4. CASE ReadId(op)
  <2>1. \A id : \A o \in {WithId("readInfo", op, id)} : o.step # "saveInfo"
    BY DEF WithId
  <2>2. CASE installations = {}
    BY <1>2, <1>4, <2>2 DEF ReadId
  <2>3. CASE installations # {}
    <3>1. PICK id \in installations :
            Continue(op, {WithId("readInfo", op, id)})
      BY <1>4, <2>3 DEF ReadId
    <3> QED BY <1>2, <1>4, <2>1, <3>1 DEF ReadId
  <2> QED BY <2>2, <2>3
<1>5. CASE ReadInfo(op)
  BY <1>1, <1>2, <1>5, DecideType DEF ReadInfo, WithId
<1>6. CASE FetchedInfo(op)
  <2>1. Accessible(op.token) \subseteq selected
    BY DEF Accessible
  <2>2. UNCHANGED <<installed, selected, webhooks, infos, stale, orderly>>
    BY <1>6 DEF FetchedInfo
  <2>3. \A id, t, repo : Lists(id, t, repo)' =>
          Lists(id, t, repo) \/ repo \in selected
    BY <1>6, <2>1, <2>2 DEF FetchedInfo, Continue, SaveInfo, Lists
  <2>4. \A id : Owed(id) => Owed(id)'
    BY <1>6, <2>2 DEF FetchedInfo, Continue, Owed
  <2> QED BY <2>2, <2>3, <2>4, CurrentInvKept DEF Wrong
<1>7. CASE FetchFailed(op)
  BY <1>2, <1>7 DEF FetchFailed
<1>8. CASE SavedInfo(op)
  <2>1. UNCHANGED <<installed, selected, webhooks, stale, orderly>>
    BY <1>8 DEF SavedInfo
  <2>2. \A o \in Decide(op, op.repos) : o.step = "act"
    BY <1>1, <1>8, DecideType DEF SavedInfo
  <2>3. \A id \in Ids, t \in Tokens :
          \/ infos'[<<id, t>>] = infos[<<id, t>>]
          \/ id = op.id /\ t = op.token /\ infos'[<<id, t>>] = op.repos
    <3>1. \A key \in Keys : infos'[key] = IF key = <<op.id, op.token>>
                                          THEN op.repos ELSE infos[key]
      BY <1>8 DEF SavedInfo, TypeOK
    <3>2. \A id \in Ids, t \in Tokens : <<id, t>> \in Keys
      BY DEF Keys
    <3>3. \A id, t : <<id, t>> = <<op.id, op.token>> =>
            id = op.id /\ t = op.token
      OBVIOUS
    <3> QED BY <3>1, <3>2, <3>3
  <2>4. \A id \in Ids, t \in Tokens, repo \in Repos :
          Lists(id, t, repo)' => Lists(id, t, repo)
    BY <1>8, <2>2, <2>3 DEF SavedInfo, Continue, Lists
  <2>5. \A id : Owed(id) => Owed(id)'
    BY <1>8, <2>1 DEF SavedInfo, Continue, Owed
  <2> QED BY <2>1, <2>4, <2>5, CurrentInvKept DEF Wrong
<1>9. CASE Acted(op)
  BY <1>2, <1>9 DEF Acted
<1>10. CASE SetId(op)
  BY <1>2, <1>10 DEF SetId
<1>11. CASE DroppedIds(op)
  BY <1>2, <1>11 DEF DroppedIds
<1>12. CASE DroppedInfos(op)
  <2>1. /\ UNCHANGED <<installed, selected, webhooks, orderly>>
        /\ pending' = pending \ {op}
        /\ stale' = {key \in stale : key[1] # op.id} \cup InFlight(op.id)
    BY <1>12 DEF DroppedInfos, Continue
  <2>2. ASSUME NEW id \in Ids, NEW t \in Tokens, NEW repo, Wrong(id, t, repo)'
        PROVE  Wrong(id, t, repo) /\ id # op.id
    <3> DEFINE key == <<id, t>>
    <3>1. key \in Keys /\ key[1] = id
      BY DEF Keys
    <3>2. infos'[key] = IF id = op.id THEN NoInfo ELSE infos[key]
      BY <1>12, <3>1 DEF DroppedInfos
    <3>3. Lists(id, t, repo)
      BY <2>1, <2>2, <3>2 DEF Wrong, Lists
    <3>4. CASE id = op.id
      <4>1. Filling(id, t)
        BY <2>1, <2>2, <3>2, <3>4 DEF Wrong, Lists, Filling
      <4>2. key \in InFlight(op.id)
        BY <3>4, <4>1, InFlightIsFilling
      <4> QED BY <2>1, <2>2, <4>2 DEF Wrong
    <3>5. CASE id # op.id
      BY <2>1, <2>2, <3>1, <3>3, <3>5 DEF Wrong
    <3> QED BY <3>4, <3>5
  <2>3. \A id : Owed(id) /\ id # op.id => Owed(id)'
    BY <2>1 DEF Owed
  <2> QED BY <2>1, <2>2, <2>3, CurrentInvKept
<1>13. CASE FoundId(op)
  BY <1>13, FoundIdCurrentInv
<1> QED
  BY <1>3, <1>4, <1>5, <1>6, <1>7, <1>8, <1>9, <1>10, <1>11, <1>12, <1>13
  DEF Answer

LEMMA NextCurrentInv ==
  TypeOK /\ OrderInv /\ UsedInv /\ CurrentInv /\ [Next]_vars => CurrentInv'
<1> SUFFICES ASSUME TypeOK, OrderInv, UsedInv, CurrentInv, [Next]_vars
             PROVE  CurrentInv'
  OBVIOUS
<1>1. CASE UNCHANGED vars
  BY <1>1 DEF vars, github, history, CurrentInv, Wrong, Lists, Owed
<1>2. CASE Next
  BY <1>2, GitHubCurrentInv, DeliverCurrentInv, ProcessCurrentInv,
     AnswerCurrentInv
  DEF Next
<1> QED BY <1>1, <1>2

(* Whatever is fetched, saved, expired and told meanwhile: a cache entry   *)
(* whose invalidations are through lists no repository that is not covered *)
(* any more, but for a fill that was in flight.                            *)
THEOREM CacheStaysCurrent == Spec => []InfoIsCurrent
<1>1. Init => TypeOK /\ OrderInv /\ DeletedIsGone /\ UsedInv /\ CurrentInv
  BY InitTypeOK, InitOrderInv, InitDeletedIsGone, InitUsedInv, InitCurrentInv
<1>2. TypeOK /\ OrderInv /\ DeletedIsGone /\ UsedInv /\ CurrentInv
        /\ [Next]_vars =>
          (TypeOK /\ OrderInv /\ DeletedIsGone /\ UsedInv /\ CurrentInv)'
  BY NextTypeOK, NextOrderInv, NextDeletedIsGone, NextUsedInv, NextCurrentInv
<1> QED BY <1>1, <1>2, CurrentInvShows, PTL DEF Spec
===============================================================================
