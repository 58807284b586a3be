---------------------------- MODULE Access_proofs ----------------------------
(***************************************************************************)
(* For every number of ids, tokens, users, repositories and concurrent     *)
(* requests and webhooks: the types of Access, that who is admitted was    *)
(* granted that repository by GitHub, and that nothing renews what was     *)
(* revoked.                                                                *)
(***************************************************************************)
EXTENDS Access, SequenceLemmas

-----------------------------------------------------------------------------
(* Lemmas about the operators.                                             *)

(* The constructors of pending operations make operations ...              *)
LEMMA OperationMade ==
  /\ \A step \in AuthSteps, r \in Requests, t \in Tokens, repo \in Repos :
       Auth(step, r, t, repo) \in Operation
  /\ \A step \in WebhookSteps, r \in Hooks, id \in Ids :
       OfWebhook(step, r, id) \in Operation
  /\ \A r \in Hooks : OfWebhook("dropInfos", r, NoId) \in Operation
  /\ \A op \in Operation, step \in {"readInfo", "fetchInfo"}, id \in Ids :
       op.step \in AuthSteps \cup {"readInfo", "fetchInfo"} =>
         WithId(step, op, id) \in Operation
  /\ \A op \in Operation, repos \in SUBSET Repos :
       op.step = "fetchInfo" => SaveInfo(op, repos) \in Operation
<1>1. \A step \in AuthSteps, r \in Requests, t \in Tokens, repo \in Repos :
        Auth(step, r, t, repo) \in Operation
  BY DEF Auth, Operation
<1>2. \A step \in WebhookSteps, r \in Hooks, id \in Ids :
        OfWebhook(step, r, id) \in Operation
  BY DEF OfWebhook, Operation
<1>3. \A op \in Operation, step \in {"readInfo", "fetchInfo"}, id \in Ids :
        op.step \in AuthSteps \cup {"readInfo", "fetchInfo"} =>
          WithId(step, op, id) \in Operation
  BY DEF WithId, Operation, AuthSteps, WebhookSteps
<1>4. \A op \in Operation, repos \in SUBSET Repos :
        op.step = "fetchInfo" => SaveInfo(op, repos) \in Operation
  BY DEF SaveInfo, Operation, AuthSteps, WebhookSteps
<1>5. \A r \in Hooks : OfWebhook("dropInfos", r, NoId) \in Operation
  BY DEF OfWebhook, Operation
<1> QED BY <1>1, <1>2, <1>3, <1>4, <1>5

(* ... and their fields can be read off the step they are at.              *)
LEMMA OperationFields ==
  ASSUME NEW op \in Operation
  PROVE  /\ op.step \in AuthSteps \cup {"readInfo", "fetchInfo", "saveInfo"} =>
              op.req \in Requests /\ op.token \in Tokens /\ op.repo \in Repos
         /\ op.step \in {"readInfo", "fetchInfo", "saveInfo"} => op.id \in Ids
         /\ op.step = "saveInfo" => op.repos \subseteq Repos
         /\ op.step \in WebhookSteps =>
              op.req \in Hooks /\ op.id \in Ids \cup {NoId}
         /\ op.step \in WebhookSteps \ {"dropInfos"} => op.id \in Ids
BY DEF Operation, AuthSteps, WebhookSteps

(* The handler of a webhook starts operations of webhooks.                 *)
LEMMA HandlerType ==
  ASSUME NEW r \in Hooks, NEW w \in Webhook
  PROVE  \A op \in Handler(r, w) : op \in Operation /\ op.step \in WebhookSteps
<1>1. w.id \in Ids
  BY DEF Webhook
<1>2. \A op \in Handler(r, w) :
        \E step \in WebhookSteps : op = OfWebhook(step, r, w.id)
  BY DEF Handler, WebhookSteps, Webhook
<1> QED BY <1>1, <1>2, OperationMade DEF OfWebhook

(* The repository route goes on with an installation, or with none.        *)
LEMMA FoundIdGoesOn ==
  ASSUME NEW op, FoundId(op)
  PROVE  \E id \in installations \cup {NoId} :
           Continue(op, {OfWebhook("dropInfos", op.req, id)})
BY DEF FoundId

LEMMA InFlightType ==
  ASSUME NEW id, pending \subseteq Operation
  PROVE  InFlight(id) \subseteq Keys
BY OperationFields DEF InFlight, Keys

LEMMA DecideType ==
  ASSUME NEW op \in Operation, NEW repos,
         op.step \in {"readInfo", "saveInfo"}
  PROVE  \A next \in Decide(op, repos) :
           /\ next \in Operation
           /\ next.step = "act"
           /\ next.token = op.token
           /\ next.repo = op.repo
           /\ op.repo \in repos
BY OperationFields, OperationMade DEF Decide, Auth, AuthSteps

-----------------------------------------------------------------------------
(* Type correctness.                                                       *)

LEMMA InitTypeOK == Init => TypeOK
<1>1. <<>> \in Seq(Webhook)
  BY EmptySeq
<1> QED BY <1>1 DEF Init, TypeOK

LEMMA GitHubTypeOK == TypeOK /\ GitHub => TypeOK'
<1> SUFFICES ASSUME TypeOK, GitHub
             PROVE  TypeOK'
  OBVIOUS
<1> USE DEF TypeOK
<1>1. \A kind \in {"created", "deleted", "repositories", "repository"},
        id \in Ids : Owe(kind, id) => webhooks' \in Seq(Webhook)
  BY AppendProperties DEF Owe, Webhook
<1>2. Grants => granted' \subseteq Users \X Repos
  BY DEF Grants
<1>3. CASE \E id \in Ids, repos \in SUBSET Repos : Install(id, repos)
  BY <1>1, <1>2, <1>3 DEF Install
<1>4. CASE Uninstall
  BY <1>1, <1>4 DEF Uninstall, history
<1>5. CASE \E repos \in SUBSET Repos, kind \in {"repositories", "repository"} :
             Select(repos, kind)
  BY <1>1, <1>2, <1>5 DEF Select
<1>6. CASE \E user \in Users, repo \in Repos : ChangeRights(user, repo)
  BY <1>2, <1>6 DEF ChangeRights
<1> QED BY <1>3, <1>4, <1>5, <1>6 DEF GitHub

LEMMA ProcessTypeOK ==
  ASSUME TypeOK,
         \/ Connect \/ Restart
         \/ \E r \in Requests, t \in Tokens, repo \in Repos :
              Authenticate(r, t, repo)
         \/ \E r \in Hooks, i \in DOMAIN webhooks : Deliver(r, i)
         \/ \E i \in DOMAIN webhooks : Refuse(i)
         \/ \E key \in Keys : InfoExpired(key)
  PROVE  TypeOK'
<1> USE DEF TypeOK, github, history
<1>1. CASE Connect
  BY <1>1 DEF Connect
<1>2. CASE Restart
  BY <1>2 DEF Restart
<1>3. CASE \E r \in Requests, t \in Tokens, repo \in Repos :
             Authenticate(r, t, repo)
  BY <1>3, OperationMade DEF Authenticate, AuthSteps
<1>4. ASSUME NEW i \in DOMAIN webhooks
      PROVE  webhooks[i] \in Webhook /\ RemoveAt(webhooks, i) \in Seq(Webhook)
  BY LenProperties, ElementOfSeq, RemoveAtCloses
<1>5. CASE \E r \in Hooks, i \in DOMAIN webhooks : Deliver(r, i)
  BY <1>4, <1>5, HandlerType DEF Deliver
<1>6. CASE \E i \in DOMAIN webhooks : Refuse(i)
  BY <1>4, <1>6 DEF Refuse
<1>7. CASE \E key \in Keys : InfoExpired(key)
  BY <1>7 DEF InfoExpired
<1> QED BY <1>1, <1>2, <1>3, <1>5, <1>6, <1>7

LEMMA AnswerTypeOK ==
  ASSUME TypeOK, NEW op \in pending, Answer(op)
  PROVE  TypeOK'
<1>1. op \in Operation
  BY DEF TypeOK
<1>2. ASSUME NEW next, next \subseteq Operation, Continue(op, next)
      PROVE  pending' \subseteq Operation
  BY <1>2 DEF TypeOK, Continue
<1>3. {} \subseteq Operation
  OBVIOUS
<1> USE DEF TypeOK, github, history
<1>4. CASE GotTokenInfo(op)
  <2>1. Auth("readId", op.req, op.token, op.repo) \in Operation
    BY <1>1, <1>4, OperationMade, OperationFields DEF GotTokenInfo, AuthSteps
  <2> QED BY <1>2, <1>4, <2>1 DEF GotTokenInfo
<1>5. CASE ReadId(op)
  <2>1. \A id \in installations : WithId("readInfo", op, id) \in Operation
    BY <1>1, <1>5, OperationMade DEF ReadId, AuthSteps
  <2>2. pending' \subseteq Operation
    BY <1>2, <1>3, <1>5, <2>1 DEF ReadId
  <2> QED BY <1>5, <2>2 DEF ReadId
<1>6. CASE ReadInfo(op)
  <2>1. WithId("fetchInfo", op, op.id) \in Operation
    BY <1>1, <1>6, OperationMade, OperationFields DEF ReadInfo
  <2>2. \A repos : Decide(op, repos) \subseteq Operation
    BY <1>1, <1>6, DecideType DEF ReadInfo
  <2>3. pending' \subseteq Operation
    BY <1>2, <1>6, <2>1, <2>2 DEF ReadInfo
  <2> QED BY <1>6, <2>3 DEF ReadInfo
<1>7. CASE FetchedInfo(op)
  <2>1. SaveInfo(op, Accessible(op.token)) \in Operation
    BY <1>1, <1>7, OperationMade DEF FetchedInfo, Accessible
  <2> QED BY <1>2, <1>7, <2>1 DEF FetchedInfo
<1>8. CASE FetchFailed(op)
  BY <1>2, <1>3, <1>8 DEF FetchFailed
<1>9. CASE SavedInfo(op)
  <2>1. pending' \subseteq Operation
    BY <1>1, <1>2, <1>9, DecideType DEF SavedInfo
  <2>2. infos' \in [Keys -> {NoInfo} \cup SUBSET Repos]
    BY <1>1, <1>9, OperationFields DEF SavedInfo, Keys
  <2> QED BY <1>9, <2>1, <2>2 DEF SavedInfo
<1>10. CASE Acted(op)
  BY <1>2, <1>3, <1>10 DEF Acted
<1>11. CASE SetId(op)
  <2>1. op.id \in Ids
    BY <1>1, <1>11, OperationFields DEF SetId, WebhookSteps
  <2> QED BY <1>2, <1>3, <1>11, <2>1 DEF SetId
<1>12. CASE DroppedIds(op)
  BY <1>2, <1>3, <1>12 DEF DroppedIds
<1>13. CASE DroppedInfos(op)
  <2>1. stale' \subseteq Keys
    BY <1>13, InFlightType DEF DroppedInfos
  <2>2. infos' \in [Keys -> {NoInfo} \cup SUBSET Repos]
    BY <1>13 DEF DroppedInfos
  <2> QED BY <1>2, <1>3, <1>13, <2>1, <2>2 DEF DroppedInfos
<1>14. CASE FoundId(op)
  <2>1. op.req \in Hooks
    BY <1>1, <1>14, OperationFields DEF FoundId, WebhookSteps
  <2>2. PICK id \in installations \cup {NoId} :
          Continue(op, {OfWebhook("dropInfos", op.req, id)})
    BY <1>14, FoundIdGoesOn
  <2>3. OfWebhook("dropInfos", op.req, id) \in Operation
    BY <2>1, OperationMade DEF WebhookSteps
  <2> HIDE DEF OfWebhook
  <2> QED BY <1>2, <1>14, <2>2, <2>3 DEF FoundId
<1> QED
  BY <1>4, <1>5, <1>6, <1>7, <1>8, <1>9, <1>10, <1>11, <1>12, <1>13, <1>14
  DEF Answer

LEMMA NextTypeOK == TypeOK /\ [Next]_vars => TypeOK'
<1> SUFFICES ASSUME TypeOK, [Next]_vars
             PROVE  TypeOK'
  OBVIOUS
<1>1. CASE UNCHANGED vars
  BY <1>1 DEF vars, github, history, TypeOK
<1>2. CASE Next
  BY <1>2, GitHubTypeOK, ProcessTypeOK, AnswerTypeOK DEF Next
<1> QED BY <1>1, <1>2

(* The variables of Access keep their types, whatever the sizes of the     *)
(* constants: no operation waits for what it has no field for, and nothing *)
(* is cached but for an id and a token.                                    *)
THEOREM TypeCorrect == Spec => []TypeOK
BY InitTypeOK, NextTypeOK, PTL DEF Spec

-----------------------------------------------------------------------------
(* Admission.                                                              *)

Given(t, repos) == \A repo \in repos : <<UserOf[t], repo>> \in granted

(* Where an admission comes from: every answer of GitHub that waits to be  *)
(* cached, or is cached, was true when it was given.                       *)
OperationGiven(op) ==
  /\ op.step \in {"readId", "readInfo", "fetchInfo", "saveInfo", "act"} =>
       op.token \notin Foreign
  /\ op.step = "saveInfo" => Given(op.token, op.repos)
  /\ op.step = "act" => <<UserOf[op.token], op.repo>> \in granted

GrantInv ==
  /\ \A user \in Users, repo \in Repos :
       HasAccess(user, repo) => <<user, repo>> \in granted
  /\ \A id \in Ids, t \in Tokens :
       infos[<<id, t>>] # NoInfo => Given(t, infos[<<id, t>>])
  /\ \A op \in pending : OperationGiven(op)

LEMMA InitGrantInv == Init => GrantInv
BY DEF Init, GrantInv, HasAccess, Keys

(* What was granted stays granted.                                         *)
LEMMA GivenKept ==
  ASSUME GrantInv, granted \subseteq granted', UNCHANGED <<infos, pending>>,
         \A user \in Users, repo \in Repos :
           HasAccess(user, repo)' => <<user, repo>> \in granted'
  PROVE  GrantInv'
BY DEF GrantInv, OperationGiven, Given

LEMMA GitHubGrantInv == TypeOK /\ GrantInv /\ GitHub => GrantInv'
<1> SUFFICES ASSUME TypeOK, GrantInv, GitHub
             PROVE  GrantInv'
  OBVIOUS
<1>1. ASSUME Grants
      PROVE  /\ granted \subseteq granted'
             /\ \A user \in Users, repo \in Repos :
                  HasAccess(user, repo)' => <<user, repo>> \in granted'
  BY <1>1 DEF Grants
<1>2. CASE \E id \in Ids, repos \in SUBSET Repos : Install(id, repos)
  BY <1>1, <1>2, GivenKept DEF Install
<1>3. CASE Uninstall
  <2>1. \A user \in Users, repo \in Repos : ~HasAccess(user, repo)'
    BY <1>3 DEF Uninstall, HasAccess
  <2> QED BY <1>3, <2>1, GivenKept DEF Uninstall, history
<1>4. CASE \E repos \in SUBSET Repos, kind \in {"repositories", "repository"} :
             Select(repos, kind)
  BY <1>1, <1>4, GivenKept DEF Select
<1>5. CASE \E user \in Users, repo \in Repos : ChangeRights(user, repo)
  BY <1>1, <1>5, GivenKept DEF ChangeRights
<1> QED BY <1>2, <1>3, <1>4, <1>5 DEF GitHub

(* The other actions leave GitHub alone; they have to account for what they *)
(* cache and for what they start.                                          *)
LEMMA GrantInvKept ==
  ASSUME GrantInv, UNCHANGED <<github, granted>>,
         \A id \in Ids, t \in Tokens :
           infos'[<<id, t>>] # NoInfo =>
             \/ infos'[<<id, t>>] = infos[<<id, t>>]
             \/ Given(t, infos'[<<id, t>>]),
         \A op \in pending' : op \in pending \/ OperationGiven(op)
  PROVE  GrantInv'
BY DEF GrantInv, OperationGiven, Given, HasAccess, github

LEMMA ProcessGrantInv ==
  ASSUME TypeOK, GrantInv,
         \/ Connect \/ Restart
         \/ \E r \in Requests, t \in Tokens, repo \in Repos :
              Authenticate(r, t, repo)
         \/ \E r \in Hooks, i \in DOMAIN webhooks : Deliver(r, i)
         \/ \E i \in DOMAIN webhooks : Refuse(i)
         \/ \E key \in Keys : InfoExpired(key)
  PROVE  GrantInv'
<1> USE DEF history
<1>1. CASE Connect
  BY <1>1, GrantInvKept DEF Connect
<1>2. CASE Restart
  BY <1>2, GrantInvKept DEF Restart
<1>3. CASE \E r \in Requests, t \in Tokens, repo \in Repos :
             Authenticate(r, t, repo)
  BY <1>3, GrantInvKept DEF Authenticate, Auth, OperationGiven
<1>4. CASE \E r \in Hooks, i \in DOMAIN webhooks : Deliver(r, i)
  <2>1. PICK r \in Hooks, i \in DOMAIN webhooks : Deliver(r, i)
    BY <1>4
  <2>2. webhooks[i] \in Webhook
    BY LenProperties, ElementOfSeq DEF TypeOK
  <2>3. \A op \in Handler(r, webhooks[i]) : OperationGiven(op)
    BY <2>2, HandlerType DEF OperationGiven, WebhookSteps
  <2> QED BY <2>1, <2>3, GrantInvKept DEF Deliver
<1>5. CASE \E i \in DOMAIN webhooks : Refuse(i)
  BY <1>5, GrantInvKept DEF Refuse
<1>6. CASE \E key \in Keys : InfoExpired(key)
  <2>1. PICK key \in Keys : InfoExpired(key)
    BY <1>6
  <2>2. \A id \in Ids, t \in Tokens :
          infos'[<<id, t>>] # NoInfo => infos'[<<id, t>>] = infos[<<id, t>>]
    BY <2>1 DEF InfoExpired, TypeOK, Keys
  <2> QED BY <2>1, <2>2, GrantInvKept DEF InfoExpired
<1> QED BY <1>1, <1>2, <1>3, <1>4, <1>5, <1>6

LEMMA AnswerGrantInv ==
  ASSUME TypeOK, GrantInv, NEW op \in pending, Answer(op)
  PROVE  GrantInv'
<1>1. op \in Operation /\ OperationGiven(op)
  BY DEF TypeOK, GrantInv
<1>2. ASSUME NEW next, Continue(op, next), \A o \in next : OperationGiven(o),
             UNCHANGED <<github, infos, granted>>
      PROVE  GrantInv'
  BY <1>2, GrantInvKept DEF Continue
<1>3. \A o \in {} : OperationGiven(o)
  OBVIOUS
<1> USE DEF history
<1>4. CASE GotTokenInfo(op)
  <2>1. op.token \notin Foreign =>
          OperationGiven(Auth("readId", op.req, op.token, op.repo))
    BY DEF OperationGiven, Auth
  <2> QED BY <1>2, <1>4, <2>1 DEF GotTokenInfo
<1>5. CASE ReadId(op)
  <2>1. \A id : OperationGiven(WithId("readInfo", op, id))
    BY <1>1, <1>5 DEF ReadId, OperationGiven, WithId
  <2>2. CASE installations = {}
    BY <1>2, <1>3, <1>5, <2>2 DEF ReadId
  <2>3. CASE installations # {}
    <3>1. PICK id \in installations :
            Continue(op, {WithId("readInfo", op, id)})
      BY <1>5, <2>3 DEF ReadId
    <3> QED BY <1>2, <1>5, <2>1, <3>1 DEF ReadId
  <2> QED BY <2>2, <2>3
<1>6. CASE ReadInfo(op)
  <2>1. OperationGiven(WithId("fetchInfo", op, op.id))
    BY <1>1, <1>6 DEF ReadInfo, OperationGiven, WithId
  <2>2. op.id \in Ids /\ op.token \in Tokens
    BY <1>1, <1>6, OperationFields DEF ReadInfo
  <2>3. infos[<<op.id, op.token>>] # NoInfo =>
          \A o \in Decide(op, infos[<<op.id, op.token>>]) : OperationGiven(o)
    BY <1>1, <1>6, <2>2, DecideType
    DEF ReadInfo, OperationGiven, GrantInv, Given
  <2> QED BY <1>2, <1>6, <2>1, <2>3 DEF ReadInfo
<1>7. CASE FetchedInfo(op)
  <2>1. op.token \in Tokens
    BY <1>1, <1>7, OperationFields DEF FetchedInfo
  <2>2. op.id \in Ids
    BY <1>1, <1>7, OperationFields DEF FetchedInfo
  <2>3. UserOf[op.token] \in Users
    BY <2>1, AccessAssumption
  <2>4. installed # NoId
    BY <1>7, <2>2, AccessAssumption DEF FetchedInfo
  <2>5. \A repo \in Accessible(op.token) :
          repo \in Repos /\ HasAccess(UserOf[op.token], repo)
    BY <2>4 DEF Accessible, HasAccess, TypeOK
  <2>6. Given(op.token, Accessible(op.token))
    BY <2>3, <2>5 DEF Given, GrantInv
  <2>7. OperationGiven(SaveInfo(op, Accessible(op.token)))
    BY <1>1, <1>7, <2>6 DEF FetchedInfo, OperationGiven, SaveInfo
  <2> QED BY <1>2, <1>7, <2>7 DEF FetchedInfo
<1>8. CASE FetchFailed(op)
  BY <1>2, <1>3, <1>8 DEF FetchFailed
<1>9. CASE SavedInfo(op)
  <2>1. Given(op.token, op.repos)
    BY <1>1, <1>9 DEF SavedInfo, OperationGiven
  <2>2. \A o \in Decide(op, op.repos) : OperationGiven(o)
    BY <1>1, <1>9, <2>1, DecideType DEF SavedInfo, OperationGiven, Given
  <2>3. \A id \in Ids, t \in Tokens :
          infos'[<<id, t>>] # NoInfo =>
            \/ infos'[<<id, t>>] = infos[<<id, t>>]
            \/ Given(t, infos'[<<id, t>>])
    BY <1>9, <2>1 DEF SavedInfo, TypeOK, Keys
  <2> QED BY <1>9, <2>2, <2>3, GrantInvKept DEF SavedInfo, Continue
<1>10. CASE Acted(op)
  BY <1>2, <1>3, <1>10 DEF Acted
<1>11. CASE SetId(op)
  BY <1>2, <1>3, <1>11 DEF SetId
<1>12. CASE DroppedIds(op)
  BY <1>2, <1>3, <1>12 DEF DroppedIds
<1>13. CASE DroppedInfos(op)
  <2>1. \A id \in Ids, t \in Tokens :
          infos'[<<id, t>>] # NoInfo => infos'[<<id, t>>] = infos[<<id, t>>]
    BY <1>13 DEF DroppedInfos, TypeOK, Keys
  <2> QED BY <1>13, <2>1, GrantInvKept DEF DroppedInfos, Continue
<1>14. CASE FoundId(op)
  <2>1. \A id : OperationGiven(OfWebhook("dropInfos", op.req, id))
    BY DEF OperationGiven, OfWebhook
  <2>2. PICK id : Continue(op, {OfWebhook("dropInfos", op.req, id)})
    BY <1>14, FoundIdGoesOn
  <2> QED BY <1>2, <1>14, <2>1, <2>2 DEF FoundId
<1> QED
  BY <1>4, <1>5, <1>6, <1>7, <1>8, <1>9, <1>10, <1>11, <1>12, <1>13, <1>14
  DEF Answer

LEMMA NextGrantInv == TypeOK /\ GrantInv /\ [Next]_vars => GrantInv'
<1> SUFFICES ASSUME TypeOK, GrantInv, [Next]_vars
             PROVE  GrantInv'
  OBVIOUS
<1>1. CASE UNCHANGED vars
  BY <1>1, GrantInvKept DEF vars, history
<1>2. CASE Next
  BY <1>2, GitHubGrantInv, ProcessGrantInv, AnswerGrantInv DEF Next
<1> QED BY <1>1, <1>2

(* However webhooks are lost or reordered, fills cross invalidations and   *)
(* the process restarts: who the authenticator of authenticator-github.js  *)
(* lets through holds a token of the app, and GitHub granted that user the *)
(* repository at some time.                                                *)
THEOREM AdmissionIsGranted == Spec => []AdmittedOnAGrant
<1>1. GrantInv => AdmittedOnAGrant
  BY DEF GrantInv, OperationGiven, AdmittedOnAGrant
<1> QED
  BY <1>1, InitTypeOK, NextTypeOK, InitGrantInv, NextGrantInv, PTL DEF Spec
-----------------------------------------------------------------------------
(* Revocation.                                                             *)

(* Why an answer of GitHub, an entry of the cache and an admission may be  *)
(* there after a step.                                                     *)
FillIsTrue(op) == \A repo \in op.repos : HasAccess(UserOf[op.token], repo)

EntryIsFilled(key) ==
  \E op \in pending : /\ op.step = "saveInfo"
                      /\ key = <<op.id, op.token>>
                      /\ infos'[key] = op.repos

LetIn(op) ==
  \/ \E key \in Keys : /\ infos[key] # NoInfo
                       /\ key[2] = op.token
                       /\ op.repo \in infos[key]
  \/ \E fill \in pending : /\ fill.step = "saveInfo"
                           /\ fill.token = op.token
                           /\ op.repo \in fill.repos

FillsAreTrue == \A op \in pending' :
                  op \in pending \/ op.step # "saveInfo" \/ FillIsTrue(op)
EntriesAreFilled == \A key \in Keys :
                      \/ infos'[key] = NoInfo
                      \/ infos'[key] = infos[key]
                      \/ EntryIsFilled(key)
LettingIn == \A op \in pending' :
               op \in pending \/ op.step # "act" \/ LetIn(op)

Accounted == FillsAreTrue /\ EntriesAreFilled /\ LettingIn

NotRenewed(user, repo) ==
  /\ Fills(user, repo)' \subseteq Fills(user, repo)
  /\ Entries(user, repo)' \subseteq
       Entries(user, repo)
       \cup {<<op.id, op.token>> : op \in Fills(user, repo)}
  /\ Admitted(user, repo)' \subseteq Admitted(user, repo)
     \/ Entries(user, repo) # {}
     \/ Fills(user, repo) # {}

(* A step that accounts for what it starts and caches renews nothing.      *)
LEMMA AccountedRenewsNothing ==
  ASSUME NEW user, NEW repo, Accounted, ~HasAccess(user, repo)
  PROVE  NotRenewed(user, repo)
<1>1. Fills(user, repo)' \subseteq Fills(user, repo)
  BY DEF Accounted, FillsAreTrue, FillIsTrue, Fills
<1>2. ASSUME NEW key \in Entries(user, repo)', key \notin Entries(user, repo)
      PROVE  key \in {<<op.id, op.token>> : op \in Fills(user, repo)}
  <2>1. /\ key \in Keys
        /\ infos'[key] # NoInfo
        /\ UserOf[key[2]] = user
        /\ repo \in infos'[key]
    BY <1>2 DEF Entries
  <2>2. infos'[key] # infos[key]
    BY <1>2, <2>1 DEF Entries
  <2>3. PICK op \in pending : /\ op.step = "saveInfo"
                              /\ key = <<op.id, op.token>>
                              /\ infos'[key] = op.repos
    BY <2>1, <2>2 DEF Accounted, EntriesAreFilled, EntryIsFilled
  <2>4. op \in Fills(user, repo)
    BY <2>1, <2>3 DEF Fills
  <2> QED BY <2>3, <2>4
<1>3. ASSUME NEW op \in Admitted(user, repo)', op \notin Admitted(user, repo)
      PROVE  Entries(user, repo) # {} \/ Fills(user, repo) # {}
  <2>1. /\ op \in pending' /\ op \notin pending
        /\ op.step = "act" /\ UserOf[op.token] = user /\ op.repo = repo
    BY <1>3 DEF Admitted
  <2>2. LetIn(op)
    BY <2>1 DEF Accounted, LettingIn
  <2>3. ASSUME NEW key \in Keys, infos[key] # NoInfo, key[2] = op.token,
               op.repo \in infos[key]
        PROVE  key \in Entries(user, repo)
    BY <2>1, <2>3 DEF Entries
  <2>4. ASSUME NEW fill \in pending, fill.step = "saveInfo",
               fill.token = op.token, op.repo \in fill.repos
        PROVE  fill \in Fills(user, repo)
    BY <2>1, <2>4 DEF Fills
  <2> QED BY <2>2, <2>3, <2>4 DEF LetIn
<1> QED BY <1>1, <1>2, <1>3 DEF NotRenewed

(* Most steps neither cache anything nor start what they must account for. *)
LEMMA QuietIsAccounted ==
  ASSUME UNCHANGED infos,
         \A op \in pending' : op \in pending \/ op.step \notin {"saveInfo", "act"}
  PROVE  Accounted
BY DEF Accounted, FillsAreTrue, EntriesAreFilled, LettingIn

LEMMA ExpiryIsAccounted ==
  ASSUME pending' \subseteq pending,
         \A key \in Keys : infos'[key] = NoInfo \/ infos'[key] = infos[key]
  PROVE  Accounted
BY DEF Accounted, FillsAreTrue, EntriesAreFilled, LettingIn

LEMMA AnswerIsAccounted ==
  ASSUME TypeOK, NEW op \in pending, Answer(op)
  PROVE  Accounted
<1>1. op \in Operation
  BY DEF TypeOK
<1>2. ASSUME NEW next, Continue(op, next), UNCHANGED infos,
             \A o \in next : o.step \notin {"saveInfo", "act"}
      PROVE  Accounted
  BY <1>2, QuietIsAccounted DEF Continue
<1>3. \A o \in {} : o.step \notin {"saveInfo", "act"}
  OBVIOUS
<1>4. CASE GotTokenInfo(op)
  BY <1>2, <1>3, <1>4 DEF GotTokenInfo, Auth
<1>5. CASE ReadId(op)
  <2>1. \A id : WithId("readInfo", op, id).step \notin {"saveInfo", "act"}
    BY DEF WithId
  <2>2. CASE installations = {}
    BY <1>2, <1>3, <1>5, <2>2 DEF ReadId
  <2>3. CASE installations # {}
    <3>1. PICK id \in installations :
            Continue(op, {WithId("readInfo", op, id)})
      BY <1>5, <2>3 DEF ReadId
    <3> QED BY <1>2, <1>5, <2>1, <3>1 DEF ReadId
  <2> QED BY <2>2, <2>3
<1>6. CASE ReadInfo(op)
  <2> DEFINE key == <<op.id, op.token>>
  <2>1. key \in Keys /\ key[2] = op.token
    BY <1>1, <1>6, OperationFields DEF ReadInfo, Keys
  <2>2. CASE infos[key] = NoInfo
    <3>1. WithId("fetchInfo", op, op.id).step \notin {"saveInfo", "act"}
      BY DEF WithId
    <3> QED BY <1>2, <1>6, <2>2, <3>1 DEF ReadInfo
  <2>3. CASE infos[key] # NoInfo
    <3>1. /\ pending' = (pending \ {op}) \cup Decide(op, infos[key])
          /\ UNCHANGED infos
      BY <1>6, <2>3 DEF ReadInfo, Continue
    <3>2. \A o \in Decide(op, infos[key]) :
            o.step = "act" /\ o.token = op.token /\ o.repo \in infos[key]
      BY <1>1, <1>6, DecideType DEF ReadInfo
    <3>3. \A o \in Decide(op, infos[key]) : LetIn(o)
      BY <2>1, <2>3, <3>2 DEF LetIn
    <3> QED BY <3>1, <3>2, <3>3
            DEF Accounted, FillsAreTrue, EntriesAreFilled, LettingIn
  <2> QED BY <2>2, <2>3
<1>7. CASE FetchedInfo(op)
  <2>1. op.id \in Ids
    BY <1>1, <1>7, OperationFields DEF FetchedInfo
  <2>2. \A repo \in Accessible(op.token) : HasAccess(UserOf[op.token], repo)
    BY <1>7, <2>1, AccessAssumption DEF FetchedInfo, Accessible, HasAccess
  <2>3. LET fill == SaveInfo(op, Accessible(op.token))
        IN  fill.step = "saveInfo" /\ FillIsTrue(fill)
    BY <2>2 DEF SaveInfo, FillIsTrue
  <2> QED BY <1>7, <2>3
          DEF FetchedInfo, Continue, history,
              Accounted, FillsAreTrue, EntriesAreFilled, LettingIn
<1>8. CASE FetchFailed(op)
  BY <1>2, <1>3, <1>8 DEF FetchFailed
<1>9. CASE SavedInfo(op)
  <2>1. /\ pending' = (pending \ {op}) \cup Decide(op, op.repos)
        /\ op.step = "saveInfo"
    BY <1>9 DEF SavedInfo, Continue
  <2>2. \A o \in Decide(op, op.repos) :
          o.step = "act" /\ o.token = op.token /\ o.repo \in op.repos
    BY <1>1, <2>1, DecideType
  <2>3. \A o \in Decide(op, op.repos) : LetIn(o)
    BY <2>1, <2>2 DEF LetIn
  <2>4. EntriesAreFilled
    <3>1. SUFFICES ASSUME NEW key \in Keys, infos'[key] # infos[key]
                   PROVE  EntryIsFilled(key)
      BY DEF EntriesAreFilled
    <3>2. key = <<op.id, op.token>> /\ infos'[key] = op.repos
      BY <1>9, <3>1 DEF SavedInfo, TypeOK
    <3> QED BY <2>1, <3>2 DEF EntryIsFilled
  <2> QED BY <2>1, <2>2, <2>3, <2>4 DEF Accounted, FillsAreTrue, LettingIn
<1>10. CASE Acted(op)
  BY <1>2, <1>3, <1>10 DEF Acted
<1>11. CASE SetId(op)
  BY <1>2, <1>3, <1>11 DEF SetId
<1>12. CASE DroppedIds(op)
  BY <1>2, <1>3, <1>12 DEF DroppedIds
<1>13. CASE DroppedInfos(op)
  BY <1>13, ExpiryIsAccounted DEF DroppedInfos, Continue
<1>14. CASE FoundId(op)
  <2>1. \A id : OfWebhook("dropInfos", op.req, id).step
                  \notin {"saveInfo", "act"}
    BY DEF OfWebhook
  <2>2. PICK id : Continue(op, {OfWebhook("dropInfos", op.req, id)})
    BY <1>14, FoundIdGoesOn
  <2> QED BY <1>2, <1>14, <2>1, <2>2 DEF FoundId
<1> QED
  BY <1>4, <1>5, <1>6, <1>7, <1>8, <1>9, <1>10, <1>11, <1>12, <1>13, <1>14
  DEF Answer

LEMMA NextIsAccounted == TypeOK /\ [Next]_vars => Accounted
<1> SUFFICES ASSUME TypeOK, [Next]_vars
             PROVE  Accounted
  OBVIOUS
<1>1. CASE UNCHANGED vars
  BY <1>1, QuietIsAccounted DEF vars
<1>2. CASE GitHub
  BY <1>2, QuietIsAccounted DEF GitHub, Install, Uninstall, Select, ChangeRights
<1>3. CASE Connect
  BY <1>3, QuietIsAccounted DEF Connect
<1>4. CASE Restart
  BY <1>4, QuietIsAccounted DEF Restart
<1>5. CASE \E r \in Requests, t \in Tokens, repo \in Repos :
             Authenticate(r, t, repo)
  BY <1>5, QuietIsAccounted DEF Authenticate, Auth
<1>6. CASE \E r \in Hooks, i \in DOMAIN webhooks : Deliver(r, i)
  <2>1. PICK r \in Hooks, i \in DOMAIN webhooks : Deliver(r, i)
    BY <1>6
  <2>2. webhooks[i] \in Webhook
    BY LenProperties, ElementOfSeq DEF TypeOK
  <2>3. \A op \in Handler(r, webhooks[i]) : op.step \notin {"saveInfo", "act"}
    BY <2>2, HandlerType DEF WebhookSteps
  <2> QED BY <2>1, <2>3, QuietIsAccounted DEF Deliver
<1>7. CASE \E i \in DOMAIN webhooks : Refuse(i)
  BY <1>7, QuietIsAccounted DEF Refuse
<1>8. CASE \E op \in pending : Answer(op)
  BY <1>8, AnswerIsAccounted
<1>9. CASE \E key \in Keys : InfoExpired(key)
  BY <1>9, ExpiryIsAccounted DEF InfoExpired, TypeOK
<1> QED BY <1>1, <1>2, <1>3, <1>4, <1>5, <1>6, <1>7, <1>8, <1>9 DEF Next

(* However fills, invalidations, restarts and requests of others cross: as *)
(* long as a user has no access to a repository on GitHub, what the        *)
(* authenticator has in its cache and on the way for that user and that    *)
(* repository is used up and never renewed.                                *)
THEOREM RevocationHolds == Spec => RevokedIsNotRenewed
<1>1. TypeOK /\ [Next]_vars =>
        [\A user \in Users, repo \in Repos :
           ~HasAccess(user, repo) => NotRenewed(user, repo)]_vars
  BY NextIsAccounted, AccountedRenewsNothing
<1> QED
  BY <1>1, InitTypeOK, NextTypeOK, PTL
  DEF Spec, RevokedIsNotRenewed, NotRenewed
===============================================================================
