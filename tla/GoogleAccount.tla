---------------------------- MODULE GoogleAccount ----------------------------
(***************************************************************************)
(* One Google account from its first authorization to its removal: the     *)
(* row of the account, the refresh token in the desktop's keyring, the     *)
(* OAuth session in memory (GoogleAuthManager), the helper processes that  *)
(* reach the keyring (AsyncSecretStore), and the synchronisation job that  *)
(* may have to wait for a new access token (GoogleSync).                   *)
(*                                                                         *)
(* The observers of the session's signals run synchronously, so what they  *)
(* do to the account and to the job is part of the action that emits.      *)
(* What a helper process does and what the daemon learns of it are two     *)
(* things: a helper killed by a timeout, a cancellation or the death of    *)
(* the daemon may or may not have done its work.                           *)
(***************************************************************************)
EXTENDS Naturals

CONSTANTS
    MaxTokens,         \* refresh tokens Google issues
    MaxAccountFaults,  \* faults in a behaviour
    AccountFaults,     \* kinds of faults: "network", "keyring", "revoke", "crash"
    Commands           \* what the user does besides connecting the account

ASSUME AccountAssumption ==
    /\ MaxTokens \in Nat /\ MaxAccountFaults \in Nat
    /\ AccountFaults \subseteq {"network", "keyring", "revoke", "crash"}
    /\ Commands \subseteq {"reauthorize", "cancel", "disconnect"}

VARIABLES
    account,       \* the row of accounts
    keyring,       \* the refresh token in the Secret Service
    issued,        \* refresh tokens issued so far
    revoked,       \* those Google no longer accepts
    provisional,   \* m_provisionalAuthorizationIds
    snapshot,      \* m_reauthorizationSnapshots
    disconnect,    \* m_pendingDisconnects and m_pendingForgets
    clientReady,   \* m_clientReady
    pending,       \* m_pendingAuthorizations
    session,       \* m_sessions
    syncJob,       \* m_jobs
    accountFaults

accountVars ==
    <<account, keyring, issued, revoked, provisional, snapshot, disconnect,
      clientReady, pending, session, syncJob, accountFaults>>

NoRefresh == 0
Tokens == 1..MaxTokens

NoAccount == [enabled |-> FALSE, status |-> "none"]
Statuses == {"authorizing", "connected", "error", "reauthorization_required",
             "disconnecting", "disconnected"}
Accounts == [enabled : BOOLEAN, status : Statuses] \cup {NoAccount}

None == [kind |-> "none"]
Pendings == [kind : {"pending"}, interactive : BOOLEAN, token : Tokens \cup {NoRefresh}]
Disconnects == [kind : {"disconnect"}, snapshot : Accounts, removeData : BOOLEAN]

\* flow: what the OAuth flow waits for. refresh is its refresh token, stored the
\* one known to be in the keyring, storing the one a helper is writing.
Sessions == [kind : {"session"}, flow : {"browser", "refreshing", "idle"},
             access : {"none", "good", "expired"},
             refresh : Tokens \cup {NoRefresh}, stored : Tokens \cup {NoRefresh},
             storing : Tokens \cup {NoRefresh},
             completed : BOOLEAN, failed : BOOLEAN]
\* deserted: the user cancelled the refresh the job waits for (of the properties).
SyncJobs == [kind : {"job"}, waiting : BOOLEAN, refreshed : BOOLEAN, deserted : BOOLEAN]

AccountTypeOK ==
    /\ account \in Accounts
    /\ keyring \in Tokens \cup {NoRefresh}
    /\ issued \in 0..MaxTokens
    /\ revoked \subseteq 1..issued
    /\ provisional \in BOOLEAN /\ clientReady \in BOOLEAN
    /\ snapshot \in Accounts
    /\ disconnect \in Disconnects \cup {None}
    /\ pending \in Pendings \cup {None}
    /\ session \in Sessions \cup {None}
    /\ syncJob \in SyncJobs \cup {None}
    /\ accountFaults \in 0..MaxAccountFaults
    \* Only a disconnection disables an account, and only a reauthorization
    \* keeps a copy of it.
    /\ ~account.enabled => account.status \in {"none", "disconnecting", "disconnected"}
    /\ snapshot # NoAccount => account.status = "authorizing"

AccountInit ==
    /\ account = NoAccount /\ keyring = NoRefresh
    /\ issued = 0 /\ revoked = {}
    /\ provisional = FALSE /\ snapshot = NoAccount /\ disconnect = None
    /\ clientReady = FALSE
    /\ pending = None /\ session = None /\ syncJob = None
    /\ accountFaults = 0

AccountFault(kind) ==
    /\ kind \in AccountFaults /\ accountFaults < MaxAccountFaults
    /\ accountFaults' = accountFaults + 1

Exists == account # NoAccount

\* Mutant of WithStatus: the row is written although it is gone.
WithStatusAnyway(status) == [account EXCEPT !.status = status]

\* The account after setAccountAuthStatus, which ignores a missing one.
WithStatus(status) ==
    IF Exists THEN [account EXCEPT !.status = status] ELSE account

NewJob == [kind |-> "job", waiting |-> FALSE, refreshed |-> FALSE, deserted |-> FALSE]

\* syncAccount does not turn this account away.
MaySync(a) ==
    /\ a.enabled
    /\ a.status \notin {"reauthorization_required", "authorizing", "disconnecting"}

----------------------------------------------------------------------------
(* Sessions and the helper processes                                        *)

\* What the keyring may hold once a helper that was writing is killed.
KeyringAfterKill ==
    IF session # None /\ session.storing # NoRefresh
    THEN {keyring, session.storing} ELSE {keyring}

NewSession(flow, token) ==
    [kind |-> "session", flow |-> flow, access |-> "none", refresh |-> token,
     stored |-> token, storing |-> NoRefresh,
     completed |-> FALSE, failed |-> FALSE]

\* Mutant of CancelAuth: the session goes on after its lookup was cancelled.
CancelAuthPendingOnly ==
    pending' = None /\ UNCHANGED <<session, keyring>>

\* cancel: both generations end, and with them their helpers.
CancelAuth ==
    /\ pending' = None /\ session' = None
    /\ keyring' \in KeyringAfterKill

\* queueAuthorization, continued at once if the OAuth client is known.
QueueAuthorization(interactive) ==
    /\ keyring' \in KeyringAfterKill
    /\ IF interactive /\ clientReady
       THEN pending' = None /\ session' = NewSession("browser", NoRefresh)
       ELSE /\ pending' = [kind |-> "pending", interactive |-> interactive,
                           token |-> NoRefresh]
            /\ session' = None

\* restoreAuthorization: a lookup already under way is left alone.
RestoreAuthorization ==
    IF pending # None /\ ~pending.interactive
    THEN UNCHANGED <<pending, session, keyring>>
    ELSE QueueAuthorization(FALSE)

\* refresh can start: a session needs a refresh token, without a session the
\* token is looked up in the keyring first.
CanRefresh == IF session # None THEN session.refresh # NoRefresh ELSE disconnect = None

Refresh ==
    IF session # None
    THEN /\ session' = [session EXCEPT !.flow = "refreshing"]
         /\ UNCHANGED <<pending, keyring>>
    ELSE RestoreAuthorization

\* The observers of tokenChanged and, the first time, of authorized: the
\* waiting job goes on, or a job starts.
Notify(s) ==
    LET first == ~s.completed
        resumes == syncJob # None /\ syncJob.waiting
        after == IF first \/ resumes THEN WithStatus("connected") ELSE account
    IN  /\ session' = [s EXCEPT !.completed = TRUE]
        /\ account' = after
        /\ provisional' = IF first THEN FALSE ELSE provisional
        /\ snapshot' = IF first THEN NoAccount ELSE snapshot
        /\ syncJob' = CASE resumes -> [syncJob EXCEPT !.waiting = FALSE, !.deserted = FALSE]
                        [] syncJob = None /\ MaySync(after) -> NewJob
                        [] OTHER -> syncJob

\* Mutant of Failed: a job that waits for the token is not told.
FailedWithoutJob(required) ==
    /\ account' = WithStatus(IF required THEN "reauthorization_required" ELSE "error")
    /\ pending' = None /\ session' = None
    /\ keyring' \in KeyringAfterKill
    /\ snapshot' = NoAccount
    /\ syncJob' = syncJob

\* The observer of authorizationFailed, in its three cases.
Failed(required) ==
    IF syncJob # None \/ snapshot # NoAccount
    THEN /\ account' = WithStatus("reauthorization_required")
         /\ syncJob' = None /\ snapshot' = NoAccount
         /\ CancelAuth
    ELSE /\ account' = WithStatus(IF required THEN "reauthorization_required"
                                              ELSE "error")
         /\ UNCHANGED <<syncJob, snapshot, keyring>>

\* fail: a session reports a failure once in its life.
Fail(s) ==
    IF s.failed
    THEN session' = s /\ UNCHANGED <<account, syncJob, snapshot, pending, keyring>>
    ELSE /\ Failed(FALSE)
         /\ (syncJob = None /\ snapshot = NoAccount)
                => session' = [s EXCEPT !.failed = TRUE] /\ UNCHANGED pending

\* Mutant of PersistRefreshToken: the token is announced while it is stored.
PersistRefreshTokenLate(s) ==
    /\ Notify([s EXCEPT !.storing = IF s.refresh # s.stored THEN s.refresh ELSE NoRefresh])
    /\ UNCHANGED keyring

\* persistRefreshToken and completePendingTokenNotifications after the flow
\* reported a token: a refresh token that is new is stored before anyone hears.
PersistRefreshToken(s) ==
    IF s.refresh # s.stored
    THEN /\ session' = [s EXCEPT !.storing = s.refresh]
         /\ keyring' \in IF s.storing = s.refresh THEN {keyring} ELSE KeyringAfterKill
         /\ UNCHANGED <<account, provisional, snapshot, syncJob>>
    ELSE Notify(s) /\ UNCHANGED keyring

----------------------------------------------------------------------------
(* The user                                                                 *)

\* A new account has a new id, so nothing of a removed one belongs to it.
BeginAuthorization ==
    /\ ~Exists /\ keyring = NoRefresh /\ syncJob = None /\ issued < MaxTokens
    /\ account' = [enabled |-> TRUE, status |-> "authorizing"]
    /\ provisional' = TRUE
    /\ QueueAuthorization(TRUE)
    /\ UNCHANGED <<issued, revoked, snapshot, disconnect, clientReady, syncJob,
                   accountFaults>>

ReauthorizeAccount ==
    /\ "reauthorize" \in Commands
    /\ Exists /\ snapshot = NoAccount /\ disconnect = None
    /\ issued < MaxTokens
    /\ syncJob' = None
    /\ snapshot' = account
    /\ account' = [enabled |-> TRUE, status |-> "authorizing"]
    /\ QueueAuthorization(TRUE)
    /\ UNCHANGED <<issued, revoked, provisional, disconnect, clientReady, accountFaults>>

\* google.oauthCancel names any account, so the refresh of a connected one may be
\* what ends. The job that waits for it stays in m_jobs: nobody resumes it.
CancelAuthorization ==
    /\ "cancel" \in Commands
    /\ snapshot' = NoAccount /\ provisional' = FALSE
    /\ IF ~provisional /\ snapshot # NoAccount
            /\ snapshot.enabled /\ snapshot.status = "connected"
       THEN account' = snapshot /\ QueueAuthorization(FALSE) /\ syncJob' = syncJob
       ELSE /\ account' = CASE provisional -> NoAccount
                            [] ~provisional /\ snapshot # NoAccount -> snapshot
                            [] OTHER -> account
            /\ CancelAuth
            /\ syncJob' = IF syncJob # None /\ syncJob.waiting
                          THEN [syncJob EXCEPT !.deserted = TRUE] ELSE syncJob
    /\ UNCHANGED <<issued, revoked, disconnect, clientReady, accountFaults>>

\* Mutant of DisconnectAccount: the job goes on.
DisconnectAccountKeepingJob(removeData) ==
    /\ "disconnect" \in Commands
    /\ Exists /\ disconnect = None
    /\ provisional' = FALSE /\ snapshot' = NoAccount /\ syncJob' = syncJob
    /\ disconnect' = [kind |-> "disconnect", snapshot |-> account,
                      removeData |-> removeData]
    /\ account' = [enabled |-> FALSE, status |-> "disconnecting"]
    /\ CancelAuth
    /\ UNCHANGED <<issued, revoked, clientReady, accountFaults>>

DisconnectAccount(removeData) ==
    /\ "disconnect" \in Commands
    /\ Exists /\ disconnect = None
    /\ provisional' = FALSE /\ snapshot' = NoAccount /\ syncJob' = None
    /\ disconnect' = [kind |-> "disconnect", snapshot |-> account,
                      removeData |-> removeData]
    /\ account' = [enabled |-> FALSE, status |-> "disconnecting"]
    /\ CancelAuth
    /\ UNCHANGED <<issued, revoked, clientReady, accountFaults>>

\* The browser returns with the consent: a first refresh token, an access token.
UserConsents ==
    /\ session # None /\ session.flow = "browser" /\ issued < MaxTokens
    /\ issued' = issued + 1
    /\ PersistRefreshToken([session EXCEPT !.flow = "idle", !.access = "good",
                                           !.refresh = issued + 1])
    /\ UNCHANGED <<revoked, disconnect, clientReady, pending, accountFaults>>

UserDenies ==
    /\ session # None /\ session.flow = "browser"
    /\ Fail([session EXCEPT !.flow = "idle"])
    /\ UNCHANGED <<issued, revoked, provisional, disconnect, clientReady, accountFaults>>

----------------------------------------------------------------------------
(* Google                                                                   *)

\* A refresh token may be replaced by a new one.
RefreshAccepted ==
    /\ session # None /\ session.flow = "refreshing"
    /\ session.refresh \notin revoked
    /\ \/ issued' = issued
          /\ PersistRefreshToken([session EXCEPT !.flow = "idle", !.access = "good"])
       \/ issued < MaxTokens
          /\ issued' = issued + 1
          /\ PersistRefreshToken([session EXCEPT !.flow = "idle", !.access = "good",
                                                 !.refresh = issued + 1])
    /\ UNCHANGED <<revoked, disconnect, clientReady, pending, accountFaults>>

RefreshFails ==
    /\ session # None /\ session.flow = "refreshing"
    /\ \/ session.refresh \in revoked /\ accountFaults' = accountFaults
       \/ AccountFault("network")
    /\ Fail([session EXCEPT !.flow = "idle"])
    /\ UNCHANGED <<issued, revoked, provisional, disconnect, clientReady>>

AccessExpires ==
    /\ session # None /\ session.access = "good"
    /\ session' = [session EXCEPT !.access = "expired"]
    /\ UNCHANGED <<account, keyring, issued, revoked, provisional, snapshot,
                   disconnect, clientReady, pending, syncJob, accountFaults>>

\* setAutoRefresh: the flow refreshes by itself before its token expires.
AutoRefresh ==
    /\ session # None /\ session.flow = "idle" /\ session.access = "good"
    /\ session.refresh # NoRefresh
    /\ session' = [session EXCEPT !.flow = "refreshing"]
    /\ UNCHANGED <<account, keyring, issued, revoked, provisional, snapshot,
                   disconnect, clientReady, pending, syncJob, accountFaults>>

Revoke ==
    /\ AccountFault("revoke")
    /\ \E t \in 1..issued \ revoked : revoked' = revoked \cup {t}
    /\ UNCHANGED <<account, keyring, issued, provisional, snapshot, disconnect,
                   clientReady, pending, session, syncJob>>

----------------------------------------------------------------------------
(* The helpers' results                                                     *)

\* Mutant of ClientReady: the waiting authorizations are not continued.
ClientReadyOnly ==
    /\ ~clientReady /\ clientReady' = TRUE
    /\ UNCHANGED <<account, keyring, issued, revoked, provisional, snapshot,
                   disconnect, pending, session, syncJob, accountFaults>>

\* The secret of the OAuth client was looked up, or the user supplied it.
ClientReady ==
    /\ ~clientReady /\ clientReady' = TRUE
    /\ IF pending # None /\ (pending.interactive \/ pending.token # NoRefresh)
       THEN /\ pending' = None
            /\ session' = IF pending.interactive THEN NewSession("browser", NoRefresh)
                          ELSE NewSession("refreshing", pending.token)
       ELSE UNCHANGED <<pending, session>>
    /\ UNCHANGED <<account, keyring, issued, revoked, provisional, snapshot,
                   disconnect, syncJob, accountFaults>>

LookingUp == pending # None /\ ~pending.interactive /\ pending.token = NoRefresh

LookupFound ==
    /\ LookingUp /\ keyring # NoRefresh
    /\ IF clientReady
       THEN pending' = None /\ session' = NewSession("refreshing", keyring)
       ELSE pending' = [pending EXCEPT !.token = keyring] /\ UNCHANGED session
    /\ UNCHANGED <<account, keyring, issued, revoked, provisional, snapshot,
                   disconnect, clientReady, syncJob, accountFaults>>

LookupFails ==
    /\ LookingUp
    /\ \/ keyring = NoRefresh /\ accountFaults' = accountFaults
       \/ AccountFault("keyring")
    /\ Failed(TRUE)
    /\ pending' = None
    /\ (syncJob = None /\ snapshot = NoAccount) => UNCHANGED session
    /\ UNCHANGED <<issued, revoked, provisional, disconnect, clientReady>>

Storing == session # None /\ session.storing # NoRefresh

StoreDone ==
    /\ Storing
    /\ keyring' = session.storing
    /\ Notify([session EXCEPT !.stored = session.storing, !.storing = NoRefresh])
    /\ UNCHANGED <<issued, revoked, disconnect, clientReady, pending, accountFaults>>

\* A store that reports an error, or is killed when its time is up.
StoreFails ==
    /\ Storing /\ AccountFault("keyring")
    /\ LET s == [session EXCEPT !.storing = NoRefresh]
       IN  IF s.failed \/ (syncJob = None /\ snapshot = NoAccount)
           THEN /\ keyring' \in KeyringAfterKill
                /\ session' = [s EXCEPT !.failed = TRUE]
                /\ account' = IF s.failed THEN account ELSE WithStatus("error")
                /\ UNCHANGED <<syncJob, snapshot, pending>>
           ELSE Failed(FALSE)
    /\ UNCHANGED <<issued, revoked, provisional, disconnect, clientReady>>

\* forgetFinished and finishDisconnect. An item that is not there counts as removed.
ForgetDone ==
    /\ disconnect # None
    /\ keyring' = NoRefresh /\ disconnect' = None
    /\ account' = IF disconnect.removeData THEN NoAccount
                  ELSE [enabled |-> FALSE, status |-> "disconnected"]
    /\ UNCHANGED <<issued, revoked, provisional, snapshot, clientReady, pending,
                   session, syncJob, accountFaults>>

\* The helper failed: the account is put back as it was.
ForgetFails ==
    /\ disconnect # None /\ AccountFault("keyring")
    /\ disconnect' = None
    /\ account' = disconnect.snapshot
    /\ keyring' \in {keyring, NoRefresh}
    /\ IF account'.enabled /\ account'.status = "connected"
       THEN /\ pending' = [kind |-> "pending", interactive |-> FALSE, token |-> NoRefresh]
            /\ session' = None
       ELSE UNCHANGED <<pending, session>>
    /\ UNCHANGED <<issued, revoked, provisional, snapshot, clientReady, syncJob>>

----------------------------------------------------------------------------
(* The job                                                                  *)

\* The poll timer, the coordinator, a hydration: all call syncAccount.
SyncAccount ==
    /\ syncJob = None /\ Exists /\ MaySync(account)
    /\ IF session # None /\ session.access # "none"
       THEN syncJob' = NewJob /\ UNCHANGED <<account, pending, session, keyring>>
       ELSE IF CanRefresh
            THEN Refresh /\ UNCHANGED <<account, syncJob>>
            ELSE /\ account' = WithStatus("reauthorization_required")
                 /\ UNCHANGED <<pending, session, keyring, syncJob>>
    /\ UNCHANGED <<issued, revoked, provisional, snapshot, disconnect, clientReady,
                   accountFaults>>

HasAccess == session # None /\ session.access = "good"

JobEnds ==
    /\ syncJob # None /\ ~syncJob.waiting
    /\ syncJob' = None
    /\ UNCHANGED <<account, keyring, issued, revoked, provisional, snapshot,
                   disconnect, clientReady, pending, session, accountFaults>>

\* A request is answered with 401: one refresh per job (refreshAndResume).
JobUnauthorized ==
    /\ syncJob # None /\ ~syncJob.waiting
    /\ ~HasAccess
    /\ IF ~syncJob.refreshed /\ CanRefresh
       THEN /\ syncJob' = [syncJob EXCEPT !.refreshed = TRUE, !.waiting = TRUE]
            /\ Refresh
            /\ UNCHANGED account
       ELSE /\ account' = WithStatus("reauthorization_required")
            /\ syncJob' = None
            /\ CancelAuth
    /\ UNCHANGED <<issued, revoked, provisional, snapshot, disconnect, clientReady,
                   accountFaults>>

----------------------------------------------------------------------------
\* The daemon dies and starts again: memory is gone, a helper goes on alone,
\* restoreAccounts looks up the tokens of the enabled accounts.
AccountCrash ==
    /\ AccountFault("crash")
    /\ keyring' \in IF disconnect # None THEN {keyring, NoRefresh} ELSE KeyringAfterKill
    /\ provisional' = FALSE /\ snapshot' = NoAccount /\ disconnect' = None
    /\ clientReady' = FALSE /\ session' = None /\ syncJob' = None
    /\ pending' = IF account.enabled
                  THEN [kind |-> "pending", interactive |-> FALSE, token |-> NoRefresh]
                  ELSE None
    /\ UNCHANGED <<account, issued, revoked>>

AccountNext ==
    \/ BeginAuthorization \/ ReauthorizeAccount \/ CancelAuthorization
    \/ \E removeData \in BOOLEAN : DisconnectAccount(removeData)
    \/ UserConsents \/ UserDenies
    \/ RefreshAccepted \/ RefreshFails \/ AccessExpires \/ AutoRefresh \/ Revoke
    \/ ClientReady \/ LookupFound \/ LookupFails \/ StoreDone \/ StoreFails
    \/ ForgetDone \/ ForgetFails
    \/ SyncAccount \/ JobEnds \/ JobUnauthorized
    \/ AccountCrash

AccountSpec == AccountInit /\ [][AccountNext]_accountVars

\* Helpers answer or are killed, Google answers, the poll timer fires, a job
\* goes on. Nothing is assumed about the user, expiry and the faults.
Fairness ==
    /\ WF_accountVars(ClientReady) /\ WF_accountVars(LookupFound \/ LookupFails)
    /\ WF_accountVars(StoreDone \/ StoreFails) /\ WF_accountVars(ForgetDone \/ ForgetFails)
    /\ WF_accountVars(RefreshAccepted \/ RefreshFails)
    /\ WF_accountVars(SyncAccount) /\ WF_accountVars(JobEnds)
    /\ WF_accountVars(JobUnauthorized)

FairAccountSpec == AccountSpec /\ Fairness

----------------------------------------------------------------------------
(* Properties                                                               *)

\* An account that says it is connected and has a session can be restored
\* after a restart: the refresh token is saved before anyone hears of it.
TokenSavedBeforeConnected ==
    account.status = "connected" /\ session # None => keyring # NoRefresh

\* A job never runs for an account that is being authorized or disconnected or
\* waits for the user: whatever happens to the account takes its job with it.
\* (Cancelling a first authorization removes the account and leaves a job that
\* started although the token could not be saved; it fails on the missing row.)
JobOnlyWhenAccepted ==
    syncJob # None /\ Exists => account.enabled /\ account.status \in {"connected", "error"}

\* Once an account is disconnected no late reply of a helper or of Google
\* brings a token back; only the user, authorizing it again, does. (If that
\* authorization is cancelled while the helper writes, a token stays behind.)
DisconnectedStaysForgotten ==
    [][account.status = "disconnected" /\ account' = account
           => keyring' = keyring /\ session' = None]_accountVars

FailedBefore == session # None /\ session.failed

Deserted == syncJob # None /\ syncJob.deserted

\* A job that waits for a new access token has someone to wake it up, unless
\* its session has reported a failure before (it never reports a second one) or
\* the user cancelled that session (cancelAuthorization leaves the job behind).
WaitingJobIsWoken ==
    syncJob # None /\ syncJob.waiting /\ Exists /\ ~FailedBefore /\ ~Deserted =>
        \/ LookingUp
        \/ pending # None /\ ~clientReady
        \/ session # None /\ (session.flow = "refreshing" \/ Storing)

\* A user who cancels again and again keeps the token from being looked up.
CancelledForever == []<><<CancelAuthorization>>_accountVars

\* A connected account goes on synchronising, or the user is shown why not;
\* again unless its session has reported a failure before or was cancelled
\* while a job waited for it.
ConnectedAccountSyncs ==
    \/ account.status = "connected" ~>
           \/ syncJob # None /\ ~syncJob.waiting
           \/ account.status # "connected" \/ FailedBefore \/ Deserted
    \/ CancelledForever

\* The same of every session, as the README of the program says: queued
\* changes sync on reconnect.
ReconnectedAccountSyncs ==
    \/ account.status = "connected" ~>
           (syncJob # None /\ ~syncJob.waiting) \/ account.status # "connected"
    \/ CancelledForever

==============================================================================
