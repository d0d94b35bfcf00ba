------------------------------- MODULE IcsFeed -------------------------------
(***************************************************************************)
(* One subscribed ICS feed (IcsService): its account and subscription, the *)
(* user name and password it may need, in the keyring, the requests for it *)
(* and the chunks in which an answer replaces the cached events.           *)
(*                                                                         *)
(* m_refreshing keeps a feed from being requested twice, but new           *)
(* credentials and a disconnection take the feed out of it without ending  *)
(* the request that is under way: its answer is handled as any other.      *)
(***************************************************************************)
EXTENDS Naturals, FiniteSets

CONSTANTS
    Events,        \* events the feed may show
    MaxVersion,    \* states of the feed
    MaxFetches,    \* requests under way at the same time
    MaxEntered,    \* pairs of credentials the user enters
    MaxCommands,   \* updates of the credentials and disconnections
    Faults,        \* "network", "keyring", "cache", "crash"
    MaxFaults

ASSUME FeedAssumption ==
    /\ IsFiniteSet(Events) /\ Events # {}
    /\ MaxVersion \in Nat \ {0} /\ MaxFetches \in Nat \ {0}
    /\ MaxEntered \in Nat /\ MaxCommands \in Nat /\ MaxFaults \in Nat
    /\ Faults \subseteq {"network", "keyring", "cache", "crash"}

VARIABLES
    account,       \* the row of accounts
    hasCredentials,\* the provider state has_credentials
    validator,     \* the ETag of ics_subscriptions; 0: none
    cache,         \* the events of the calendar
    keyring,       \* the user name and the password in the Secret Service
    secret,        \* m_secretOperations
    refreshing,    \* m_refreshing
    applying,      \* m_applies: the request whose answer is being applied
    fetches,       \* the requests under way
    feed, version, \* the feed at its server
    private,       \* whether the server asks for credentials
    entered, commands, faults,
    lateWrote      \* history: an answer overtaken by a new request was applied

served == <<feed, version, private>>
bounds == <<entered, commands, faults>>
vars == <<account, hasCredentials, validator, cache, keyring, secret, refreshing,
          applying, fetches, served, bounds, lateWrote>>

Kinds == {"username", "password"}
Slots == 1..MaxFetches
Versions == 0..MaxVersion
Contents == [Events -> Versions]
Nothing == [e \in Events |-> 0]
None == [kind |-> "none"]

NoAccount == [enabled |-> FALSE, status |-> "none"]
Accounts ==
    {NoAccount} \cup
    [enabled : BOOLEAN,
     status : {"credential_storage_pending", "connected", "reauthorization_required",
               "disconnected"}]

\* One operation stores a credential, or two remove both of them.
Secrets ==
    {None}
    \cup [kind : {"store"}, of : Kinds, value : 1..MaxEntered, done : BOOLEAN]
    \cup [kind : {"remove"}, of : SUBSET Kinds]

\* FetchContext with its reply and ChunkedSyncApply; sent is the ETag of the
\* request, late is a history: a later request was started.
Fetches ==
    {None} \cup
    [kind : {"username", "password", "sent", "answered", "apply"},
     username : 0..MaxEntered, password : 0..MaxEntered, sent : Versions,
     code : {"", "200", "304", "401", "failed"}, etag : Versions, body : Contents,
     events : SUBSET Events, pruned : SUBSET Events, late : BOOLEAN]

TypeOK ==
    /\ account \in Accounts /\ hasCredentials \in BOOLEAN
    /\ validator \in Versions /\ cache \in Contents
    /\ keyring \in [Kinds -> 0..MaxEntered] /\ secret \in Secrets
    /\ refreshing \in BOOLEAN /\ applying \in {0} \cup Slots
    /\ fetches \in [Slots -> Fetches]
    /\ feed \in Contents /\ version \in Versions /\ private \in BOOLEAN
    /\ entered \in 0..MaxEntered /\ commands \in 0..MaxCommands
    /\ faults \in 0..MaxFaults /\ lateWrote \in BOOLEAN
    \* What is applied for all to see is a request that is under way.
    /\ applying # 0 => fetches[applying].kind = "apply"
    \* While credentials are being stored no request is sent with those of before.
    /\ secret.kind # "none" => ~hasCredentials

Init ==
    /\ account = NoAccount /\ hasCredentials = FALSE
    /\ validator = 0 /\ cache = Nothing
    /\ keyring = [k \in Kinds |-> 0] /\ secret = None
    /\ refreshing = FALSE /\ applying = 0
    /\ fetches = [f \in Slots |-> None]
    /\ feed = [e \in Events |-> 1] /\ version = 1
    /\ private \in BOOLEAN
    /\ entered = 0 /\ commands = 0 /\ faults = 0
    /\ lateWrote = FALSE

Exists == account # NoAccount
Fault(kind) == kind \in Faults /\ faults < MaxFaults /\ faults' = faults + 1
Command == commands < MaxCommands /\ commands' = commands + 1

WithStatus(status) == IF Exists THEN [account EXCEPT !.status = status] ELSE account

\* The server takes the pair the user entered, not the halves of two.
Accepts(username, password) == private => username = password /\ username # 0

----------------------------------------------------------------------------
(* Requests                                                                 *)

\* refresh: the requests with a new one, in a slot of its own.
Started(credentials) ==
    LET free == {f \in Slots : fetches[f] = None}
        slot == CHOOSE f \in free : \A g \in free : f <= g
        fetch == [kind |-> IF credentials THEN "username" ELSE "sent",
                  username |-> 0, password |-> 0, sent |-> validator, code |-> "",
                  etag |-> 0, body |-> Nothing, events |-> {}, pruned |-> {},
                  late |-> FALSE]
    IN [f \in Slots |->
          IF f = slot THEN fetch
          ELSE IF fetches[f] = None THEN None
          ELSE [fetches[f] EXCEPT !.late = TRUE]]

Room == \E f \in Slots : fetches[f] = None

\* refresh, for refreshAll, syncAccount, the command and the first request.
Refresh ==
    /\ Exists /\ account.enabled /\ ~refreshing /\ Room
    /\ refreshing' = TRUE /\ fetches' = Started(hasCredentials)
    /\ UNCHANGED <<account, hasCredentials, validator, cache, keyring, secret,
                   applying, served, bounds, lateWrote>>

\* finishFetch, of a request that is over. It is another's turn, whether or not
\* this was the request m_refreshing stood for.
Finish(f, status) ==
    /\ fetches' = [fetches EXCEPT ![f] = None]
    /\ refreshing' = FALSE
    /\ account' = IF status = "" THEN account ELSE WithStatus(status)

Drop(f) ==
    /\ fetches' = [fetches EXCEPT ![f] = None]
    /\ UNCHANGED <<account, refreshing>>

\* The two lookups of refresh. Their operations are not among those that are
\* cancelled; m_refreshing tells whether the request is still wanted.
Lookup(f) ==
    LET kind == fetches[f].kind
        value == keyring[kind]
    IN /\ kind \in Kinds
       /\ CASE ~refreshing -> Drop(f)
            [] refreshing /\ value = 0 -> Finish(f, "reauthorization_required")
            [] OTHER ->
                 /\ fetches' = [fetches EXCEPT
                      ![f].kind = IF kind = "username" THEN "password" ELSE "sent",
                      ![f][kind] = value]
                 /\ UNCHANGED <<account, refreshing>>
       /\ UNCHANGED <<hasCredentials, validator, cache, keyring, secret, applying,
                      served, bounds, lateWrote>>

LookupFails(f) ==
    /\ fetches[f].kind \in Kinds /\ refreshing /\ Fault("keyring")
    /\ Finish(f, "reauthorization_required")
    /\ UNCHANGED <<hasCredentials, validator, cache, keyring, secret, applying,
                   served, entered, commands, lateWrote>>

\* What the request was sent with does not matter any more.
Answered(fetch, code, etag, body) ==
    [fetch EXCEPT !.kind = "answered", !.code = code, !.etag = etag, !.body = body,
                  !.username = 0, !.password = 0, !.sent = 0]

\* The server's answer to a conditional request.
Serve(f) ==
    /\ fetches[f].kind = "sent"
    /\ LET sent == fetches[f]
           code == CASE ~Accepts(sent.username, sent.password) -> "401"
                     [] Accepts(sent.username, sent.password)
                          /\ sent.sent = version -> "304"
                     [] OTHER -> "200"
           etag == IF code = "401" THEN 0 ELSE version
           body == IF code = "200" THEN feed ELSE Nothing
       IN fetches' = [fetches EXCEPT ![f] = Answered(sent, code, etag, body)]
    /\ UNCHANGED <<account, hasCredentials, validator, cache, keyring, secret,
                   refreshing, applying, served, bounds, lateWrote>>

RequestFails(f) ==
    /\ fetches[f].kind = "sent" /\ Fault("network")
    /\ fetches' = [fetches EXCEPT ![f] = Answered(fetches[f], "failed", 0, Nothing)]
    /\ UNCHANGED <<account, hasCredentials, validator, cache, keyring, secret,
                   refreshing, applying, served, entered, commands, lateWrote>>

\* Mutant of Rejected: the account's status is left as it is.
RejectedSilently(f) ==
    /\ fetches[f].kind = "answered" /\ fetches[f].code \in {"401", "failed"}
    /\ Finish(f, "")
    /\ UNCHANGED <<hasCredentials, validator, cache, keyring, secret, applying,
                   served, bounds, lateWrote>>

\* The finished handler of beginFetch.
Rejected(f) ==
    /\ fetches[f].kind = "answered" /\ fetches[f].code \in {"401", "failed"}
    /\ Finish(f, IF fetches[f].code = "401" THEN "reauthorization_required" ELSE "")
    /\ UNCHANGED <<hasCredentials, validator, cache, keyring, secret, applying,
                   served, bounds, lateWrote>>

\* Mutant of NotModified: the subscription is written whether or not it is there.
NotModifiedAnyhow(f) ==
    /\ fetches[f].kind = "answered" /\ fetches[f].code = "304"
    /\ validator' = fetches[f].etag
    /\ Finish(f, "connected")
    /\ UNCHANGED <<hasCredentials, cache, keyring, secret, applying, served, bounds,
                   lateWrote>>

NotModified(f) ==
    /\ fetches[f].kind = "answered" /\ fetches[f].code = "304"
    /\ validator' = IF Exists THEN fetches[f].etag ELSE validator
    /\ Finish(f, "connected")
    /\ UNCHANGED <<hasCredentials, cache, keyring, secret, applying, served, bounds,
                   lateWrote>>

\* prepareFeed compares the answer with the events of the cache, and start
\* leaves the rest to the timer.
Modified(f) ==
    /\ fetches[f].kind = "answered" /\ fetches[f].code = "200"
    /\ IF Exists
       THEN /\ fetches' = [fetches EXCEPT ![f].kind = "apply", ![f].code = "",
                 ![f].events = {e \in Events : fetches[f].body[e] # 0},
                 ![f].pruned = {e \in Events : cache[e] # 0 /\ fetches[f].body[e] = 0}]
            /\ applying' = f
            /\ UNCHANGED <<account, refreshing>>
       ELSE Finish(f, "") /\ UNCHANGED applying
    /\ UNCHANGED <<hasCredentials, validator, cache, keyring, secret, served, bounds,
                   lateWrote>>

Chosen(S) == IF S = {} THEN {{}} ELSE {{e} : e \in S}

\* Mutant of Apply: the validator is saved with every chunk.
ApplyEarly(f) ==
    /\ fetches[f].kind = "apply" /\ Exists
    /\ \E saved \in Chosen(fetches[f].events), removed \in Chosen(fetches[f].pruned) :
         LET events == fetches[f].events \ saved
             pruned == fetches[f].pruned \ removed
             final == events = {} /\ pruned = {}
         IN /\ cache' = [e \in Events |-> IF e \in saved THEN fetches[f].body[e]
                                     ELSE IF e \in removed THEN 0 ELSE cache[e]]
            /\ validator' = fetches[f].etag
            /\ applying' = IF final /\ applying = f THEN 0 ELSE applying
            /\ CASE final /\ applying = f -> Finish(f, "connected")
                 [] final /\ applying # f -> Drop(f)
                 [] OTHER ->
                      /\ fetches' = [fetches EXCEPT ![f].events = events,
                           ![f].pruned = pruned,
                           ![f].body = [e \in Events |-> IF e \in saved THEN 0 ELSE @[e]]]
                      /\ UNCHANGED <<account, refreshing>>
    /\ lateWrote' = (lateWrote \/ fetches[f].late)
    /\ UNCHANGED <<hasCredentials, keyring, secret, served, bounds>>

\* One turn of ChunkedSyncApply: an event and a removal of the answer (in the
\* code 32 of each); the last turn saves the validator with them. An answer
\* that was replaced in m_applies goes on, but nobody hears that it is done.
Apply(f) ==
    /\ fetches[f].kind = "apply" /\ Exists
    /\ \E saved \in Chosen(fetches[f].events), removed \in Chosen(fetches[f].pruned) :
         LET events == fetches[f].events \ saved
             pruned == fetches[f].pruned \ removed
             final == events = {} /\ pruned = {}
         IN /\ cache' = [e \in Events |-> IF e \in saved THEN fetches[f].body[e]
                                     ELSE IF e \in removed THEN 0 ELSE cache[e]]
            /\ validator' = IF final THEN fetches[f].etag ELSE validator
            /\ applying' = IF final /\ applying = f THEN 0 ELSE applying
            /\ CASE final /\ applying = f -> Finish(f, "connected")
                 [] final /\ applying # f -> Drop(f)
                 [] OTHER ->
                      /\ fetches' = [fetches EXCEPT ![f].events = events,
                           ![f].pruned = pruned,
                           ![f].body = [e \in Events |-> IF e \in saved THEN 0 ELSE @[e]]]
                      /\ UNCHANGED <<account, refreshing>>
    /\ lateWrote' = (lateWrote \/ fetches[f].late)
    /\ UNCHANGED <<hasCredentials, keyring, secret, served, bounds>>

\* Mutant of Abandoned: finishFetch is left out.
AbandonedHeld(f) ==
    /\ applying' = IF applying = f THEN 0 ELSE applying
    /\ Drop(f)
    /\ UNCHANGED <<hasCredentials, validator, cache, keyring, secret, served,
                   entered, commands, lateWrote>>

\* The calendar was removed, or the transaction failed.
Abandoned(f) ==
    /\ applying' = IF applying = f THEN 0 ELSE applying
    /\ IF applying = f THEN Finish(f, "") ELSE Drop(f)
    /\ UNCHANGED <<hasCredentials, validator, cache, keyring, secret, served,
                   entered, commands, lateWrote>>

CalendarGone(f) ==
    /\ fetches[f].kind = "apply" /\ ~Exists
    /\ Abandoned(f) /\ UNCHANGED faults

ApplyFails(f) ==
    /\ fetches[f].kind = "apply" /\ Exists /\ Fault("cache")
    /\ Abandoned(f)

----------------------------------------------------------------------------
(* Credentials                                                              *)

\* storeSubscriptionCredentials and removeSubscriptionCredentials, which end the
\* operations of before (cancelSecretOperations). A removal that finds nothing is
\* left out.
Storing(kind, k) == [kind |-> "store", of |-> kind, value |-> k, done |-> FALSE]
Removing ==
    LET of == {kind \in Kinds : keyring[kind] # 0}
    IN IF of = {} THEN None ELSE [kind |-> "remove", of |-> of]

\* secret-tool at work: a credential is written, or one of the two is removed.
HelperWorks ==
    /\ \/ /\ secret.kind = "store" /\ ~secret.done
          /\ keyring' = [keyring EXCEPT ![secret.of] = secret.value]
          /\ secret' = [secret EXCEPT !.done = TRUE]
       \/ /\ secret.kind = "remove"
          /\ \E kind \in secret.of :
               /\ keyring' = [keyring EXCEPT ![kind] = 0]
               /\ secret' = IF secret.of = {kind} THEN None
                            ELSE [secret EXCEPT !.of = @ \ {kind}]
    /\ UNCHANGED <<account, hasCredentials, validator, cache, refreshing, applying,
                   fetches, served, bounds, lateWrote>>

UsernameStored ==
    /\ secret.kind = "store" /\ secret.done /\ secret.of = "username"
    /\ secret' = Storing("password", secret.value)
    /\ UNCHANGED <<account, hasCredentials, validator, cache, keyring, refreshing,
                   applying, fetches, served, bounds, lateWrote>>

\* Both are there: the account is connected and, unless it is being refreshed,
\* the feed is requested at once.
PasswordStored ==
    /\ secret.kind = "store" /\ secret.done /\ secret.of = "password"
    /\ refreshing \/ Room
    /\ secret' = None /\ hasCredentials' = TRUE
    /\ account' = WithStatus("connected")
    /\ refreshing' = TRUE
    /\ fetches' = IF refreshing THEN fetches ELSE Started(TRUE)
    /\ UNCHANGED <<validator, cache, keyring, applying, served, bounds, lateWrote>>

\* The helper failed or timed out, before or after it wrote; a user name without
\* its password is removed again. Then markCredentialsUnavailable.
StoreFails ==
    /\ secret.kind = "store" /\ Fault("keyring")
    /\ secret' = IF secret.of = "password" THEN Removing ELSE None
    /\ hasCredentials' = FALSE
    /\ account' = WithStatus("reauthorization_required")
    /\ UNCHANGED <<validator, cache, keyring, refreshing, applying, fetches, served,
                   entered, commands, lateWrote>>

\* A removal that fails is not tried again.
RemovalFails ==
    /\ secret.kind = "remove" /\ Fault("keyring")
    /\ \E kind \in secret.of :
         secret' = IF secret.of = {kind} THEN None ELSE [secret EXCEPT !.of = @ \ {kind}]
    /\ UNCHANGED <<account, hasCredentials, validator, cache, keyring, refreshing,
                   applying, fetches, served, entered, commands, lateWrote>>

----------------------------------------------------------------------------
(* The user                                                                 *)

Entered(with) ==
    /\ with => private /\ entered < MaxEntered
    /\ entered' = IF with THEN entered + 1 ELSE entered

StatusOf(with) == IF with THEN "credential_storage_pending" ELSE "connected"

\* addSubscription, once: another one has another id, and nothing of this one.
AddSubscription(with) ==
    /\ commands = 0 /\ Command /\ Entered(with)
    /\ account' = [enabled |-> TRUE, status |-> StatusOf(with)]
    /\ secret' = IF with THEN Storing("username", entered') ELSE None
    /\ UNCHANGED <<hasCredentials, validator, cache, keyring, refreshing, applying,
                   fetches, served, faults, lateWrote>>

\* m_applies.take, cancel
Cancelled ==
    [f \in Slots |-> IF f = applying THEN None ELSE fetches[f]]

\* Mutant of UpdateCredentials: has_credentials is left as it is.
UpdateCredentialsTrusting(with) ==
    /\ Exists /\ Command /\ Entered(with)
    /\ account' = [enabled |-> TRUE, status |-> StatusOf(with)]
    /\ fetches' = Cancelled /\ applying' = 0 /\ refreshing' = FALSE
    /\ secret' = IF with THEN Storing("username", entered') ELSE Removing
    /\ UNCHANGED <<hasCredentials, validator, cache, keyring, served, faults, lateWrote>>

\* updateCredentials: what is being applied is ended, a request is not.
UpdateCredentials(with) ==
    /\ Exists /\ Command /\ Entered(with)
    /\ account' = [enabled |-> TRUE, status |-> StatusOf(with)]
    /\ hasCredentials' = FALSE
    /\ fetches' = Cancelled /\ applying' = 0 /\ refreshing' = FALSE
    /\ secret' = IF with THEN Storing("username", entered') ELSE Removing
    /\ UNCHANGED <<validator, cache, keyring, served, faults, lateWrote>>

\* Mutant of DisconnectAccount: the user name stays in the keyring.
DisconnectAccountPassword(removeData) ==
    /\ Exists /\ Command
    /\ account' = IF removeData THEN NoAccount
                  ELSE [enabled |-> FALSE, status |-> "disconnected"]
    /\ hasCredentials' = FALSE
    /\ cache' = IF removeData THEN Nothing ELSE cache
    /\ validator' = IF removeData THEN 0 ELSE validator
    /\ fetches' = Cancelled /\ applying' = 0 /\ refreshing' = FALSE
    /\ secret' = IF keyring["password"] = 0 THEN None
                 ELSE [kind |-> "remove", of |-> {"password"}]
    /\ UNCHANGED <<keyring, served, entered, faults, lateWrote>>

\* disconnectAccount
DisconnectAccount(removeData) ==
    /\ Exists /\ Command
    /\ account' = IF removeData THEN NoAccount
                  ELSE [enabled |-> FALSE, status |-> "disconnected"]
    /\ hasCredentials' = FALSE
    /\ cache' = IF removeData THEN Nothing ELSE cache
    /\ validator' = IF removeData THEN 0 ELSE validator
    /\ fetches' = Cancelled /\ applying' = 0 /\ refreshing' = FALSE
    /\ secret' = Removing
    /\ UNCHANGED <<keyring, served, entered, faults, lateWrote>>

----------------------------------------------------------------------------
(* The server and the process                                               *)

FeedChanges ==
    /\ version < MaxVersion
    /\ version' = version + 1
    /\ \E shown \in SUBSET Events \ {{}} :
         feed' = [e \in Events |-> IF e \in shown THEN version' ELSE 0]
    /\ UNCHANGED <<account, hasCredentials, validator, cache, keyring, secret,
                   refreshing, applying, fetches, private, bounds, lateWrote>>

\* The daemon ends and is started again: the database and the keyring stay.
Crash ==
    /\ Fault("crash") /\ Exists
    /\ secret' = None /\ refreshing' = FALSE /\ applying' = 0
    /\ fetches' = [f \in Slots |-> None]
    /\ UNCHANGED <<account, hasCredentials, validator, cache, keyring, served,
                   entered, commands, lateWrote>>

Handle(f) ==
    \/ Lookup(f) \/ Rejected(f) \/ NotModified(f) \/ Modified(f)
    \/ Apply(f) \/ CalendarGone(f)

Next ==
    \/ Refresh
    \/ \E f \in Slots :
         Handle(f) \/ Serve(f) \/ LookupFails(f) \/ RequestFails(f) \/ ApplyFails(f)
    \/ HelperWorks \/ UsernameStored \/ PasswordStored \/ StoreFails \/ RemovalFails
    \/ \E with \in BOOLEAN : AddSubscription(with) \/ UpdateCredentials(with)
    \/ \E removeData \in BOOLEAN : DisconnectAccount(removeData)
    \/ FeedChanges \/ Crash

Spec == Init /\ [][Next]_vars

\* The refresh timer, the event loop, secret-tool and the server, each of which
\* ends or times out.
Fairness ==
    /\ WF_vars(Refresh)
    /\ \A f \in Slots : WF_vars(Handle(f)) /\ WF_vars(Serve(f))
    /\ WF_vars(HelperWorks) /\ WF_vars(UsernameStored) /\ WF_vars(PasswordStored)

FairSpec == Spec /\ Fairness

----------------------------------------------------------------------------
(* Properties                                                               *)

\* A request the server answers with 304 leaves the cache alone: when the saved
\* validator is the feed's, the cache must be the feed, whatever was interrupted
\* between two chunks (ChunkedSyncApply saves the validator with the last one).
\* It does not hold once an answer overtaken by a new request is applied: after
\* an update of the credentials both may be applied side by side.
NotModifiedIsTrue ==
    validator = version /\ validator # 0 /\ applying = 0 /\ ~lateWrote => cache = feed

\* Of a subscription that was removed nothing comes back with an answer that was
\* under way, or being applied, when it was.
RemovedLeavesNothing ==
    ~Exists => cache = Nothing /\ validator = 0 /\ ~hasCredentials

\* A removed or disconnected subscription leaves no credentials in the keyring,
\* unless the helper failed or the daemon died meanwhile.
DisconnectForgets ==
    ~account.enabled ~>
        (account.enabled \/ keyring = [k \in Kinds |-> 0] \/ faults > 0)

\* The user does not stay with "credential_storage_pending".
StoragePendingEnds ==
    account.status = "credential_storage_pending" ~>
        account.status # "credential_storage_pending"

Usable ==
    /\ account.enabled
    /\ private => hasCredentials
    /\ Accepts(keyring["username"], keyring["password"])
    /\ hasCredentials => keyring["username"] # 0 /\ keyring["password"] # 0

\* A feed that can be read is read: the cache becomes what the server shows and
\* the account is shown as connected, whatever failed before.
FeedConverges ==
    <>[]Usable => <>[](lateWrote \/ (account.status = "connected" /\ cache = feed))

=============================================================================
