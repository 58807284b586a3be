-------------------------------- MODULE Access --------------------------------
(***************************************************************************)
(* Who may use the queues of one owner: authenticator-github.js over       *)
(* manager-token.js, manager-installation.js and the read-through cache of *)
(* manager-installation-info.js, and the webhooks of routes-webhook.js     *)
(* that keep them in step with the installation of the app.                *)
(*                                                                         *)
(* As in QueueBoard an action is one operation on Mongo or GitHub with the *)
(* code that runs on its answer; what comes next waits in pending.  The    *)
(* cache is filled in two operations, GitHub's answer and its write to     *)
(* Mongo, and an invalidation may come between them.                       *)
(***************************************************************************)
EXTENDS Naturals, Sequences, SequencesExt, FiniteSets

CONSTANTS Ids,       \* ids that GitHub gives to installations of the app
          Tokens,    \* OAuth tokens that HTTP requests come with
          Foreign,   \* tokens that were issued to another client
          Users,     \* the users of the tokens
          UserOf,    \* [Tokens -> Users]
          Repos,     \* the repositories of the owner
          Requests,  \* slots for HTTP requests at the same time
          Hooks,     \* slots for webhooks at the same time
          MaxOwed,   \* bound: webhooks on their way at once
          NoId,      \* the app is not installed
          NoInfo     \* no document of the installationInfo collection

ASSUME AccessAssumption ==
    /\ Foreign \subseteq Tokens
    /\ UserOf \in [Tokens -> Users]
    /\ MaxOwed \in Nat
    /\ NoId \notin Ids
    /\ \A repos \in SUBSET Repos : repos # NoInfo

VARIABLES
    installed,      \* on GitHub: the id of the installation, or NoId
    selected,       \* on GitHub: the repositories the installation covers
    rights,         \* on GitHub: which users can push to and pull from what
    webhooks,       \* webhooks on their way, the oldest first
    connected,      \* the connection to Mongo is up
    installations,  \* in Mongo: the installation ids of the owner
    infos,          \* in Mongo: the repositories cached for an id and a token
    pending,        \* the operations the running requests wait for
    orderly,        \* history: no webhook was lost, and those about the
                    \* installation itself were handled in order
    granted,        \* history: who has had access to what
    stale           \* history: keys of infos an invalidation may have missed

github == <<installed, selected, rights>>
history == <<granted, orderly, stale>>
vars == <<github, webhooks, connected, installations, infos, pending, history>>

-----------------------------------------------------------------------------
(* Webhooks and pending operations.                                        *)

\* "repositories" is an installation_repositories event, which names the
\* installation; "repository" is an event of that name, which does not.
Webhook == [kind: {"created", "deleted", "repositories", "repository"}, id: Ids]
Lifecycle(w) == w.kind \in {"created", "deleted"}

Auth(step, r, t, repo) == [step |-> step, req |-> r, token |-> t, repo |-> repo]
WithId(step, op, id) == [step |-> step, req |-> op.req, token |-> op.token,
                         repo |-> op.repo, id |-> id]
SaveInfo(op, repos) == [step |-> "saveInfo", req |-> op.req, token |-> op.token,
                        repo |-> op.repo, id |-> op.id, repos |-> repos]
OfWebhook(step, r, id) == [step |-> step, req |-> r, id |-> id]

AuthSteps == {"readToken", "readId", "act"}
WebhookSteps == {"setId", "dropIds", "dropInfos", "findId"}

Operation ==
    [step: AuthSteps, req: Requests, token: Tokens, repo: Repos]
    \cup [step: {"readInfo", "fetchInfo"}, req: Requests, token: Tokens,
          repo: Repos, id: Ids]
    \cup [step: {"saveInfo"}, req: Requests, token: Tokens, repo: Repos,
          id: Ids, repos: SUBSET Repos]
    \cup [step: WebhookSteps, req: Hooks, id: Ids]
    \cup [step: {"dropInfos"}, req: Hooks, id: {NoId}]

Idle(r) == \A op \in pending : op.req # r

\* A webhook about the installation itself is being handled.
Settling == \E op \in pending : op.step \in {"setId", "dropIds"}

Keys == Ids \X Tokens

\* The fills of installation id whose answer is not in Mongo yet.
InFlight(id) ==
    {<<op.id, op.token>> :
       op \in {o \in pending : o.step = "saveInfo" /\ o.id = id}}

-----------------------------------------------------------------------------
TypeOK == /\ installed \in Ids \cup {NoId}
          /\ selected \subseteq Repos
          /\ rights \subseteq Users \X Repos
          /\ webhooks \in Seq(Webhook)
          /\ connected \in BOOLEAN
          /\ installations \subseteq Ids
          /\ infos \in [Keys -> {NoInfo} \cup SUBSET Repos]
          /\ pending \subseteq Operation
          /\ granted \subseteq Users \X Repos
          /\ orderly \in BOOLEAN
          /\ stale \subseteq Keys

Init == /\ installed = NoId
        /\ selected = {}
        /\ rights \in SUBSET (Users \X Repos)
        /\ webhooks = <<>>
        /\ connected = FALSE
        /\ installations = {}
        /\ infos = [key \in Keys |-> NoInfo]
        /\ pending = {}
        /\ granted = {}
        /\ orderly = TRUE
        /\ stale = {}

-----------------------------------------------------------------------------
(* GitHub.                                                                 *)

HasAccess(user, repo) == /\ installed # NoId
                         /\ repo \in selected
                         /\ <<user, repo>> \in rights

\* Mutant: without "Repository not accessible".
AccessibleToAll(t) == selected

\* The repositories in GitHub's answer that the user can push to and pull
\* from; the others in it are refused just as those that are missing.
Accessible(t) == {repo \in selected : <<UserOf[t], repo>> \in rights}

Grants == granted' = granted \cup
                       {pair \in Users \X Repos : HasAccess(pair[1], pair[2])'}

Owe(kind, id) == /\ Len(webhooks) < MaxOwed
                 /\ webhooks' = Append(webhooks, [kind |-> kind, id |-> id])

\* GitHub never gives an id twice; one that nobody remembers is a new one.
FreshId(id) == /\ id \notin installations
               /\ \A i \in DOMAIN webhooks : webhooks[i].id # id
               /\ \A op \in pending : "id" \in DOMAIN op => op.id # id
               /\ \A t \in Tokens : infos[<<id, t>>] = NoInfo

Install(id, repos) ==
    /\ installed = NoId
    /\ FreshId(id)
    /\ installed' = id
    /\ selected' = repos
    /\ Owe("created", id)
    /\ UNCHANGED <<rights, connected, installations, infos, pending, orderly,
                   stale>>
    /\ Grants

Uninstall ==
    /\ installed # NoId
    /\ installed' = NoId
    /\ selected' = {}
    /\ Owe("deleted", installed)
    /\ UNCHANGED <<rights, connected, installations, infos, pending, history>>

\* The owner adds a repository to the installation, creates or deletes one.
Select(repos, kind) ==
    /\ installed # NoId
    /\ repos # selected
    /\ selected' = repos
    /\ Owe(kind, installed)
    /\ UNCHANGED <<installed, rights, connected, installations, infos, pending,
                   orderly, stale>>
    /\ Grants

\* A collaborator comes or goes: no webhook tells ugo.
ChangeRights(user, repo) ==
    /\ rights' = IF <<user, repo>> \in rights THEN rights \ {<<user, repo>>}
                 ELSE rights \cup {<<user, repo>>}
    /\ UNCHANGED <<installed, selected, webhooks, connected, installations,
                   infos, pending, orderly, stale>>
    /\ Grants

-----------------------------------------------------------------------------
(* The process.                                                            *)

\* manager-mongo: enabled() is false until the connection is there.
Connect ==
    /\ ~connected
    /\ connected' = TRUE
    /\ UNCHANGED <<github, webhooks, installations, infos, pending, history>>

\* A webhook whose handler dies half way is as good as lost.
Restart ==
    /\ connected
    /\ connected' = FALSE
    /\ pending' = {}
    /\ orderly' = (orderly /\ \A op \in pending : op.step \notin WebhookSteps)
    /\ stale' = {key \in stale : infos[key] # NoInfo}
    /\ UNCHANGED <<github, webhooks, installations, infos, granted>>

-----------------------------------------------------------------------------
(* The authenticator.                                                      *)

Continue(op, next) == pending' = (pending \ {op}) \cup next

Authenticate(r, t, repo) ==
    /\ Idle(r)
    /\ pending' = pending \cup {Auth("readToken", r, t, repo)}
    /\ UNCHANGED <<github, webhooks, connected, installations, infos, history>>

\* Mutant: without the check of the client id.
GotTokenInfoOfAny(op) ==
    /\ op.step = "readToken"
    /\ Continue(op, {Auth("readId", op.req, op.token, op.repo)})
    /\ UNCHANGED <<github, webhooks, connected, installations, infos, history>>

\* getTokenInfo, from Mongo or from GitHub: the user of a token and its client
\* never change, so it does not matter which.  Then "Wrong client id".
GotTokenInfo(op) ==
    /\ op.step = "readToken"
    /\ Continue(op, IF op.token \in Foreign THEN {}
                    ELSE {Auth("readId", op.req, op.token, op.repo)})
    /\ UNCHANGED <<github, webhooks, connected, installations, infos, history>>

\* Mutant: without "No installation id".
ReadIdUndefined(op) ==
    /\ op.step = "readId"
    /\ connected
    /\ \E id \in IF installations = {} THEN {NoId} ELSE installations :
         Continue(op, {WithId("readInfo", op, id)})
    /\ UNCHANGED <<github, webhooks, connected, installations, infos, history>>

\* getInstallationId waits for the connection.  Of several documents the
\* first is taken, and Mongo gives them in any order.
ReadId(op) ==
    /\ op.step = "readId"
    /\ connected
    /\ IF installations = {} THEN Continue(op, {})
       ELSE \E id \in installations : Continue(op, {WithId("readInfo", op, id)})
    /\ UNCHANGED <<github, webhooks, connected, installations, infos, history>>

\* "Repository not found", "Repository not accessible", or on to the route.
Decide(op, repos) == IF op.repo \in repos
                     THEN {Auth("act", op.req, op.token, op.repo)} ELSE {}

ReadInfo(op) ==
    /\ op.step = "readInfo"
    /\ connected
    /\ Continue(op, IF infos[<<op.id, op.token>>] = NoInfo
                    THEN {WithId("fetchInfo", op, op.id)}
                    ELSE Decide(op, infos[<<op.id, op.token>>]))
    /\ UNCHANGED <<github, webhooks, connected, installations, infos, history>>

\* GitHub.getInstallationInfo.
FetchedInfo(op) ==
    /\ op.step = "fetchInfo"
    /\ installed = op.id
    /\ Continue(op, {SaveInfo(op, Accessible(op.token))})
    /\ UNCHANGED <<github, webhooks, connected, installations, infos, history>>

\* GitHub answers an error, as it does for a revoked token and for an
\* installation that is gone.
FetchFailed(op) ==
    /\ op.step \in {"readToken", "fetchInfo"}
    /\ Continue(op, {})
    /\ UNCHANGED <<github, webhooks, connected, installations, infos, history>>

SavedInfo(op) ==
    /\ op.step = "saveInfo"
    /\ connected
    /\ infos' = [infos EXCEPT ![<<op.id, op.token>>] = op.repos]
    /\ Continue(op, Decide(op, op.repos))
    /\ UNCHANGED <<github, webhooks, connected, installations, history>>

\* The route behind the authenticator, which reads a queue or changes it.
Acted(op) ==
    /\ op.step = "act"
    /\ connected
    /\ Continue(op, {})
    /\ UNCHANGED <<github, webhooks, connected, installations, infos, history>>

\* Mutant: a hit of the cache renews created_at, so that what is asked for
\* does not expire.
UnusedInfoExpired(key) ==
    /\ infos[key] # NoInfo
    /\ key[1] \notin installations
    /\ infos' = [infos EXCEPT ![key] = NoInfo]
    /\ UNCHANGED <<github, webhooks, connected, installations, pending,
                   history>>

\* Mongo drops what was written 86400 s ago; reads do not renew it.
InfoExpired(key) ==
    /\ infos[key] # NoInfo
    /\ infos' = [infos EXCEPT ![key] = NoInfo]
    /\ stale' = (stale \ {key}) \cup (stale \cap InFlight(key[1]))
    /\ UNCHANGED <<github, webhooks, connected, installations, pending,
                   granted, orderly>>

-----------------------------------------------------------------------------
(* Webhooks.                                                               *)

\* Mutants of Handler: the cache is dropped for an uninstallation only; an
\* uninstallation forgets the ids, or the cache.
HandlerOfInstallations(r, w) ==
    {OfWebhook(step, r, w.id) : step \in
       CASE w.kind = "created" -> {"setId"}
         [] w.kind = "deleted" -> {"dropIds", "dropInfos"}
         [] OTHER -> {}}
HandlerKeepsIds(r, w) ==
    {OfWebhook(step, r, w.id) : step \in
       CASE w.kind = "created" -> {"setId"}
         [] w.kind = "deleted" -> {"dropInfos"}
         [] w.kind = "repositories" -> {"dropInfos"}
         [] w.kind = "repository" -> {"findId"}}
HandlerKeepsInfos(r, w) ==
    {OfWebhook(step, r, w.id) : step \in
       CASE w.kind = "created" -> {"setId"}
         [] w.kind = "deleted" -> {"dropIds"}
         [] w.kind = "repositories" -> {"dropInfos"}
         [] w.kind = "repository" -> {"findId"}}

\* What the handler of a webhook starts: an uninstallation does its deletions
\* side by side (those of queues are QueueFeed's and QueueManager's), a
\* repository event looks up the installation.
Handler(r, w) ==
    {OfWebhook(step, r, w.id) : step \in
       CASE w.kind = "created" -> {"setId"}
         [] w.kind = "deleted" -> {"dropIds", "dropInfos"}
         [] w.kind = "repositories" -> {"dropInfos"}
         [] w.kind = "repository" -> {"findId"}}

\* One about the installation comes before an older one is done with.
OutOfOrder(i) ==
    /\ Lifecycle(webhooks[i])
    /\ Settling \/ \E j \in 1..(i - 1) : Lifecycle(webhooks[j])

Deliver(r, i) ==
    /\ Idle(r)
    /\ connected
    /\ webhooks' = RemoveAt(webhooks, i)
    /\ pending' = pending \cup Handler(r, webhooks[i])
    /\ orderly' = (orderly /\ ~OutOfOrder(i))
    /\ UNCHANGED <<github, connected, installations, infos, granted, stale>>

\* Before Mongo is there a webhook is answered 503, and GitHub does not
\* repeat it.
Refuse(i) ==
    /\ ~connected
    /\ webhooks' = RemoveAt(webhooks, i)
    /\ orderly' = FALSE
    /\ UNCHANGED <<github, connected, installations, infos, pending, granted,
                   stale>>

SetId(op) ==
    /\ op.step = "setId"
    /\ connected
    /\ installations' = installations \cup {op.id}
    /\ Continue(op, {})
    /\ UNCHANGED <<github, webhooks, connected, infos, history>>

\* deleteInstallationId(owner): all of the owner, whatever the id.
DroppedIds(op) ==
    /\ op.step = "dropIds"
    /\ connected
    /\ installations' = {}
    /\ Continue(op, {})
    /\ UNCHANGED <<github, webhooks, connected, infos, history>>

\* deleteInstallationInfos.  A fill in flight will write its old answer.
DroppedInfos(op) ==
    /\ op.step = "dropInfos"
    /\ connected
    /\ infos' = [key \in Keys |-> IF key[1] = op.id THEN NoInfo ELSE infos[key]]
    /\ stale' = {key \in stale : key[1] # op.id} \cup InFlight(op.id)
    /\ Continue(op, {})
    /\ UNCHANGED <<github, webhooks, connected, installations, granted,
                   orderly>>

\* getInstallationId in the repository route.  Without a document the
\* deletion goes on with undefined, which no entry has for an installation.
FoundId(op) ==
    /\ op.step = "findId"
    /\ connected
    /\ \E id \in IF installations = {} THEN {NoId} ELSE installations :
         Continue(op, {OfWebhook("dropInfos", op.req, id)})
    /\ UNCHANGED <<github, webhooks, connected, installations, infos, history>>

-----------------------------------------------------------------------------
GitHub ==
    \/ \E id \in Ids, repos \in SUBSET Repos : Install(id, repos)
    \/ Uninstall
    \/ \E repos \in SUBSET Repos, kind \in {"repositories", "repository"} :
         Select(repos, kind)
    \/ \E user \in Users, repo \in Repos : ChangeRights(user, repo)

Answer(op) ==
    \/ GotTokenInfo(op) \/ ReadId(op) \/ ReadInfo(op) \/ FetchedInfo(op)
    \/ FetchFailed(op) \/ SavedInfo(op) \/ Acted(op)
    \/ SetId(op) \/ DroppedIds(op) \/ DroppedInfos(op) \/ FoundId(op)

Next == \/ GitHub
        \/ Connect \/ Restart
        \/ \E r \in Requests, t \in Tokens, repo \in Repos :
             Authenticate(r, t, repo)
        \/ \E r \in Hooks, i \in DOMAIN webhooks : Deliver(r, i)
        \/ \E i \in DOMAIN webhooks : Refuse(i)
        \/ \E op \in pending : Answer(op)
        \/ \E key \in Keys : InfoExpired(key)

Spec == Init /\ [][Next]_vars

\* Mongo and GitHub answer a request or fail it, and Mongo's TTL monitor gets
\* to every document.  Webhooks may be late for ever, and their handlers too.
Advance(r) == \E op \in pending : op.req = r /\ Answer(op)

FairSpec == /\ Spec
            /\ \A r \in Requests : WF_vars(Advance(r))
            /\ \A key \in Keys : WF_vars(InfoExpired(key))

-----------------------------------------------------------------------------
(* Properties.                                                             *)

\* Nothing about installation id is left to be told to the cache.
Invalidated(id) ==
    /\ \A i \in DOMAIN webhooks : webhooks[i].kind = "created"
    /\ \A op \in pending : op.step = "findId"
                           \/ op.step = "dropInfos" => op.id # id

\* Every webhook about the installation was handled, in order.
Settled == /\ orderly
           /\ ~Settling
           /\ \A i \in DOMAIN webhooks : ~Lifecycle(webhooks[i])

\* Once the webhooks of a change are handled no cached entry lists a
\* repository that the installation does not cover any more, as long as the
\* webhooks about the installation itself were all handled, in order
\* (orderly): after a lost or overtaken one the repository route may find
\* another installation than the one there is.  Then the only other cause is a
\* fill that was in flight when its entry was invalidated (stale).
InfoIsCurrent ==
    \A key \in Keys :
      /\ infos[key] # NoInfo
      /\ key \notin stale
      /\ orderly
      /\ key[1] = installed
      /\ Invalidated(installed)
      => infos[key] \subseteq selected

\* When installations and uninstallations were told in order, Mongo knows the
\* one there is and no other.
InstallationIsKnown ==
    Settled => installations = (IF installed = NoId THEN {} ELSE {installed})

\* A handled uninstallation leaves nothing cached of its installation, but
\* for a fill that was in flight.
NothingIsLeft ==
    Settled =>
      \A key \in Keys :
           key[1] # installed /\ infos[key] # NoInfo =>
             key \in stale
             \/ \E op \in pending : op.step = "dropInfos" /\ op.id = key[1]

\* Whatever is cached, stale or lost: who gets in came with a token of the
\* app, and had access to that repository on GitHub at some time.
AdmittedOnAGrant ==
    \A op \in pending :
      op.step = "act" => /\ op.token \notin Foreign
                         /\ <<UserOf[op.token], op.repo>> \in granted

\* What lets a user into a repository: GitHub's answers that are not in Mongo
\* yet, and those that are.
Fills(user, repo) ==
    {op \in pending : /\ op.step = "saveInfo"
                      /\ UserOf[op.token] = user
                      /\ repo \in op.repos}
Entries(user, repo) ==
    {key \in Keys : /\ infos[key] # NoInfo
                    /\ UserOf[key[2]] = user
                    /\ repo \in infos[key]}
Admitted(user, repo) ==
    {op \in pending : /\ op.step = "act"
                      /\ UserOf[op.token] = user
                      /\ op.repo = repo}

\* While somebody has no access to a repository nothing renews it: no answer
\* of GitHub that lists it is under way but the old ones, it is cached only
\* where it was or where an old answer goes to, and when neither is left
\* nobody else is let in.
RevokedIsNotRenewed ==
    [][\A user \in Users, repo \in Repos :
         ~HasAccess(user, repo) =>
           /\ Fills(user, repo)' \subseteq Fills(user, repo)
           /\ Entries(user, repo)' \subseteq
                Entries(user, repo)
                \cup {<<op.id, op.token>> : op \in Fills(user, repo)}
           /\ Admitted(user, repo)' \subseteq Admitted(user, repo)
              \/ Entries(user, repo) # {}
              \/ Fills(user, repo) # {}]_vars

\* Lost webhooks, restarts and fills that cross an invalidation delay a
\* revocation, they never cancel it: who has lost access for good is in the
\* end refused for good.
RevocationEnds ==
    \A user \in Users, repo \in Repos :
      <>[]~HasAccess(user, repo) =>
        <>[](\A op \in pending :
               op.step = "act" => UserOf[op.token] # user \/ op.repo # repo)
===============================================================================
