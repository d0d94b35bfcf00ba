---------------------------- MODULE CalDavAccount ----------------------------
(***************************************************************************)
(* One CalDAV account: its row, its password in the desktop's keyring, the *)
(* copy of the password the client sends, the one helper process that is   *)
(* at the keyring for it (AsyncSecretStore), and its synchronisation job.  *)
(* What the job pulls and sends is CalDavPull's and CalDavDrain's; here it *)
(* is accepted, refused, fails or was cancelled.                           *)
(*                                                                         *)
(* A helper does its work and is heard of in two steps, so that it may be  *)
(* killed, or time out, before or after it.                                *)
(***************************************************************************)
EXTENDS Naturals

CONSTANTS
    MaxPasswords,   \* passwords the user enters
    AccountFaults,  \* "network", "keyring", "revoke", "cache", "crash"
    MaxAccountFaults

ASSUME AccountAssumption ==
    /\ MaxPasswords \in Nat \ {0} /\ MaxAccountFaults \in Nat
    /\ AccountFaults \subseteq {"network", "keyring", "revoke", "cache", "crash"}

VARIABLES
    account,       \* the row of accounts
    keyring,       \* the password in the Secret Service
    helper,        \* m_secretOperations: the operation that is not outdated
    client,        \* the password CalDavClient sends
    loaded,        \* m_loadedCredentials
    loading,       \* m_loadingCredentials
    syncJob,       \* m_jobs
    syncAfter,     \* m_syncAfterCurrentJob
    entered,       \* passwords entered so far
    revoked,       \* passwords the server no longer accepts
    accountFaults

accountVars ==
    <<account, keyring, helper, client, loaded, loading, syncJob, syncAfter,
      entered, revoked, accountFaults>>

NoPassword == 0
Passwords == 1..MaxPasswords

NoAccount == [enabled |-> FALSE, status |-> "none"]
Statuses == {"credential_storage_pending", "connecting", "connected",
             "reauthorization_required", "disconnected"}
Accounts == {NoAccount} \cup [enabled : BOOLEAN, status : Statuses]

None == [kind |-> "none"]

\* value is the password to store, or the one that was found.
Helpers ==
    {None} \cup [kind : {"store", "lookup", "remove"}, done : BOOLEAN,
                 value : {NoPassword} \cup Passwords]

\* discovered: the server has accepted the password and told its collections.
SyncJobs ==
    {None} \cup [kind : {"job"}, probing : BOOLEAN, discovered : BOOLEAN,
                 cancelled : BOOLEAN]

AccountTypeOK ==
    /\ account \in Accounts
    /\ keyring \in {NoPassword} \cup Passwords
    /\ helper \in Helpers
    /\ client \in {NoPassword} \cup Passwords
    /\ loaded \in BOOLEAN /\ loading \in BOOLEAN /\ syncAfter \in BOOLEAN
    /\ syncJob \in SyncJobs
    /\ entered \in 0..MaxPasswords /\ revoked \subseteq 1..entered
    /\ accountFaults \in 0..MaxAccountFaults
    \* A disconnected account is one that is not enabled, and only for such a
    \* one is the password taken out of the keyring.
    /\ account # NoAccount => (account.enabled <=> account.status # "disconnected")
    /\ helper.kind = "remove" => ~account.enabled

AccountInit ==
    /\ account = NoAccount /\ keyring = NoPassword /\ helper = None
    /\ client = NoPassword /\ loaded = FALSE /\ loading = FALSE
    /\ syncJob = None /\ syncAfter = FALSE
    /\ entered = 0 /\ revoked = {} /\ accountFaults = 0

AccountFault(kind) ==
    /\ kind \in AccountFaults /\ accountFaults < MaxAccountFaults
    /\ accountFaults' = accountFaults + 1

Exists == account # NoAccount
NewHelper(kind, value) == [kind |-> kind, done |-> FALSE, value |-> value]
NewJob ==
    [kind |-> "job", probing |-> FALSE, discovered |-> FALSE, cancelled |-> FALSE]

Probing == syncJob # None /\ syncJob.probing
Cancelled(j) == IF j = None THEN None ELSE [j EXCEPT !.cancelled = TRUE]

\* setAccountAuthStatus
WithStatus(status) == IF Exists THEN [account EXCEPT !.status = status] ELSE account

----------------------------------------------------------------------------
(* The user                                                                 *)

\* createAccount: a new account has a new id, so that nothing of one removed
\* before belongs to it. The password is one the server accepts.
CreateAccount ==
    /\ ~Exists /\ entered < MaxPasswords
    /\ keyring = NoPassword /\ helper = None /\ syncJob = None
    /\ entered' = entered + 1
    /\ account' = [enabled |-> TRUE, status |-> "credential_storage_pending"]
    /\ helper' = NewHelper("store", entered')
    /\ UNCHANGED <<keyring, client, loaded, loading, syncJob, syncAfter, revoked, accountFaults>>

\* Mutant of UpdateCredentials: the job goes on without credentials.
UpdateCredentialsDuringJob ==
    /\ Exists /\ ~Probing /\ entered < MaxPasswords
    /\ entered' = entered + 1
    /\ syncJob' = syncJob
    /\ client' = NoPassword /\ loaded' = FALSE
    /\ account' = [enabled |-> TRUE, status |-> "credential_storage_pending"]
    /\ helper' = NewHelper("store", entered')
    /\ UNCHANGED <<keyring, loading, syncAfter, revoked, accountFaults>>

\* updateCredentials: the helper of before is killed.
UpdateCredentials ==
    /\ Exists /\ ~Probing /\ entered < MaxPasswords
    /\ entered' = entered + 1
    /\ syncJob' = Cancelled(syncJob)
    /\ client' = NoPassword /\ loaded' = FALSE
    /\ account' = [enabled |-> TRUE, status |-> "credential_storage_pending"]
    /\ helper' = NewHelper("store", entered')
    /\ UNCHANGED <<keyring, loading, syncAfter, revoked, accountFaults>>

\* Mutant of DisconnectAccount: only the status is saved.
DisconnectAccountEnabled(removeData, applying) ==
    /\ Exists /\ ~Probing
    /\ syncJob' = IF applying THEN None ELSE Cancelled(syncJob)
    /\ client' = NoPassword /\ loaded' = FALSE /\ loading' = FALSE
    /\ syncAfter' = FALSE
    /\ helper' = NewHelper("remove", NoPassword)
    /\ account' = IF removeData THEN NoAccount
                  ELSE [account EXCEPT !.status = "disconnected"]
    /\ UNCHANGED <<keyring, entered, revoked, accountFaults>>

\* Mutant of DisconnectAccount: a helper that is storing is left to it.
DisconnectAccountStoring(removeData, applying) ==
    /\ Exists /\ ~Probing
    /\ syncJob' = IF applying THEN None ELSE Cancelled(syncJob)
    /\ client' = NoPassword /\ loaded' = FALSE /\ loading' = FALSE
    /\ syncAfter' = FALSE
    /\ helper' = IF helper.kind = "store" THEN helper ELSE NewHelper("remove", NoPassword)
    /\ account' = IF removeData THEN NoAccount
                  ELSE [enabled |-> FALSE, status |-> "disconnected"]
    /\ UNCHANGED <<keyring, entered, revoked, accountFaults>>

\* disconnectAccount. A job that applies what it has is ended at once, others
\* when their request is answered.
DisconnectAccount(removeData, applying) ==
    /\ Exists /\ ~Probing
    /\ syncJob' = IF applying THEN None ELSE Cancelled(syncJob)
    /\ client' = NoPassword /\ loaded' = FALSE /\ loading' = FALSE
    /\ syncAfter' = FALSE
    /\ helper' = NewHelper("remove", NoPassword)
    /\ account' = IF removeData THEN NoAccount
                  ELSE [enabled |-> FALSE, status |-> "disconnected"]
    /\ UNCHANGED <<keyring, entered, revoked, accountFaults>>

\* probeThisAndFuture
Probe ==
    /\ account.enabled /\ syncJob = None /\ loaded
    /\ syncJob' = [NewJob EXCEPT !.probing = TRUE]
    /\ UNCHANGED <<account, keyring, helper, client, loaded, loading, syncAfter,
                   entered, revoked, accountFaults>>

----------------------------------------------------------------------------
(* Synchronisation                                                          *)

\* loadCredentialsAsync: a helper that is still storing is killed, too.
LoadCredentials ==
    IF loading THEN UNCHANGED <<helper, loading>>
    ELSE helper' = NewHelper("lookup", NoPassword) /\ loading' = TRUE

\* syncAccount, by the timer, at start, at the end of a job or on request
SyncAccount ==
    /\ syncJob = None /\ account.enabled
    /\ IF loaded THEN syncJob' = NewJob /\ UNCHANGED <<helper, loading>>
       ELSE LoadCredentials /\ syncJob' = syncJob
    /\ UNCHANGED <<account, keyring, client, loaded, syncAfter, entered, revoked, accountFaults>>

\* refreshCachedTimeKinds cannot read what was kept of an event.
CacheUnreadable ==
    /\ syncJob = None /\ account.enabled /\ AccountFault("cache")
    /\ UNCHANGED <<account, keyring, helper, client, loaded, loading, syncJob, syncAfter,
                   entered, revoked>>

\* Mutant of CollectionsDiscovered: whatever became of the job.
DiscoveredAnyway ==
    /\ syncJob # None /\ ~syncJob.probing /\ ~syncJob.discovered
    /\ client \in Passwords \ revoked \/ syncJob.cancelled
    /\ account' = WithStatus("connected")
    /\ syncJob' = [syncJob EXCEPT !.discovered = TRUE]
    /\ UNCHANGED <<keyring, helper, client, loaded, loading, syncAfter, entered,
                   revoked, accountFaults>>

\* discoverCollections, of a job whose password the server accepts
CollectionsDiscovered ==
    /\ syncJob # None /\ ~syncJob.cancelled /\ ~syncJob.probing /\ ~syncJob.discovered
    /\ client \in Passwords \ revoked
    /\ account' = WithStatus("connected")
    /\ syncJob' = [syncJob EXCEPT !.discovered = TRUE]
    /\ UNCHANGED <<keyring, helper, client, loaded, loading, syncAfter, entered,
                   revoked, accountFaults>>

\* finish: a cancelled job leaves no status, a job that is refused does. What
\* m_syncAfterCurrentJob asks for, SyncAccount may always do.
EndJob(refused) ==
    /\ syncJob # None /\ syncJob' = None /\ syncAfter' = FALSE
    /\ account' = IF refused /\ ~syncJob.cancelled THEN WithStatus("reauthorization_required")
                  ELSE account
    /\ UNCHANGED <<keyring, helper, client, loaded, loading, entered, revoked>>

JobEnds ==
    /\ syncJob # None
    /\ LET refused == client \notin Passwords \ revoked
       IN  /\ refused \/ syncJob.cancelled \/ syncJob.probing \/ syncJob.discovered
           /\ EndJob(refused)
    /\ accountFaults' = accountFaults

JobFails == syncJob # None /\ ~syncJob.cancelled /\ AccountFault("network") /\ EndJob(FALSE)

----------------------------------------------------------------------------
(* The keyring                                                              *)

HelperWorks ==
    /\ helper # None /\ ~helper.done
    /\ keyring' = CASE helper.kind = "store" -> helper.value
                    [] helper.kind = "remove" -> NoPassword
                    [] OTHER -> keyring
    /\ helper' = [helper EXCEPT !.done = TRUE,
                    !.value = IF helper.kind = "lookup" THEN keyring ELSE @]
    /\ UNCHANGED <<account, client, loaded, loading, syncJob, syncAfter, entered, revoked,
                   accountFaults>>

\* handleCredentialFailure
CredentialFailure ==
    /\ loading' = FALSE /\ loaded' = FALSE /\ client' = NoPassword
    /\ account' = WithStatus("reauthorization_required")
    /\ helper' = None

\* Mutant of Stored: what was entered is used before it is stored.
StoredEarly ==
    /\ helper.kind = "store"
    /\ client' = helper.value /\ loaded' = TRUE
    /\ account' = WithStatus("connecting")
    /\ helper' = None
    /\ IF syncJob # None THEN syncAfter' = TRUE /\ syncJob' = syncJob
       ELSE syncJob' = NewJob /\ syncAfter' = syncAfter
    /\ UNCHANGED <<keyring, loading, entered, revoked, accountFaults>>

\* storeCredentialsAsync, the callback
Stored ==
    /\ helper.kind = "store" /\ helper.done
    /\ client' = helper.value /\ loaded' = TRUE
    /\ account' = WithStatus("connecting")
    /\ helper' = None
    /\ IF syncJob # None THEN syncAfter' = TRUE /\ syncJob' = syncJob
       ELSE syncJob' = NewJob /\ syncAfter' = syncAfter
    /\ UNCHANGED <<keyring, loading, entered, revoked, accountFaults>>

\* loadCredentialsAsync, the callback
Found ==
    /\ helper.kind = "lookup" /\ helper.done /\ helper.value # NoPassword
    /\ client' = helper.value /\ loaded' = TRUE /\ loading' = FALSE
    /\ helper' = None
    /\ syncJob' = IF syncJob = None THEN NewJob ELSE syncJob
    /\ UNCHANGED <<account, keyring, syncAfter, entered, revoked, accountFaults>>

\* Mutant of NotFound: the failure is not told.
NotFoundSilently ==
    /\ helper.kind = "lookup" /\ helper.done /\ helper.value = NoPassword
    /\ helper' = None
    /\ UNCHANGED <<account, keyring, client, loaded, loading, syncJob, syncAfter, entered,
                   revoked, accountFaults>>

NotFound ==
    /\ helper.kind = "lookup" /\ helper.done /\ helper.value = NoPassword
    /\ CredentialFailure
    /\ UNCHANGED <<keyring, syncJob, syncAfter, entered, revoked, accountFaults>>

\* The helper fails or times out, and may have done its work.
HelperFails ==
    /\ helper.kind \in {"store", "lookup"} /\ AccountFault("keyring")
    /\ CredentialFailure
    /\ UNCHANGED <<keyring, syncJob, syncAfter, entered, revoked>>

\* The end of a removal is not looked at.
RemovalEnds ==
    /\ helper.kind = "remove"
    /\ IF helper.done THEN accountFaults' = accountFaults ELSE AccountFault("keyring")
    /\ helper' = None
    /\ UNCHANGED <<account, keyring, client, loaded, loading, syncJob, syncAfter, entered,
                   revoked>>

----------------------------------------------------------------------------
\* The server does not accept a password any more.
Revoke(p) ==
    /\ AccountFault("revoke") /\ p \in 1..entered /\ p \notin revoked
    /\ revoked' = revoked \cup {p}
    /\ UNCHANGED <<account, keyring, helper, client, loaded, loading, syncJob, syncAfter,
                   entered>>

\* The daemon dies, and its helper with it; restoreAccounts begins anew.
DaemonDies ==
    /\ AccountFault("crash")
    /\ helper' = None /\ client' = NoPassword
    /\ loaded' = FALSE /\ loading' = FALSE /\ syncJob' = None /\ syncAfter' = FALSE
    /\ UNCHANGED <<account, keyring, entered, revoked>>

AccountNext ==
    \/ CreateAccount \/ UpdateCredentials \/ Probe
    \/ \E removeData, applying \in BOOLEAN : DisconnectAccount(removeData, applying)
    \/ SyncAccount \/ CacheUnreadable \/ CollectionsDiscovered \/ JobEnds \/ JobFails
    \/ HelperWorks \/ Stored \/ Found \/ NotFound \/ HelperFails \/ RemovalEnds
    \/ \E p \in Passwords : Revoke(p)
    \/ DaemonDies

AccountSpec == AccountInit /\ [][AccountNext]_accountVars

\* Helpers work and report, requests are answered, and the timer fires, also
\* if the user checks for support again and again.
FairAccountSpec ==
    /\ AccountSpec
    /\ SF_accountVars(SyncAccount)
    /\ WF_accountVars(CollectionsDiscovered) /\ WF_accountVars(JobEnds)
    /\ WF_accountVars(HelperWorks) /\ WF_accountVars(RemovalEnds)
    /\ WF_accountVars(Stored) /\ WF_accountVars(Found) /\ WF_accountVars(NotFound)

----------------------------------------------------------------------------
(* Properties                                                               *)

\* The password in use is the one that a restart will find in the keyring
\* (storeCredentialsAsync, loadCredentialsAsync, handleCredentialFailure).
UsedIsStored == loaded => client = keyring /\ client # NoPassword

\* A job that goes on has a password: no helper can report on an account for
\* which one is under way, unless it was cancelled (syncAccount,
\* updateCredentials).
JobHasPassword == syncJob # None /\ ~syncJob.cancelled => loaded /\ helper = None

\* No answer that comes late changes an account that was disconnected: only
\* new credentials, and its removal, do (m_credentialGeneration, cancelled).
DisconnectedStays ==
    [][Exists /\ ~account.enabled /\ account' # account =>
           UpdateCredentials \/ \E applying \in BOOLEAN : DisconnectAccount(TRUE, applying)
      ]_accountVars

\* A disconnected account's password leaves the keyring, unless the helper
\* failed or the daemon died meanwhile: the removal is not tried again.
DisconnectForgets ==
    ~account.enabled ~> (account.enabled \/ keyring = NoPassword \/ accountFaults > 0)

\* The account does not stay in the state it has while its password is being
\* stored: it is connected, or the user is told (restoreAccounts, syncAccount).
StoragePendingEnds ==
    account.status = "credential_storage_pending" ~>
        account.status # "credential_storage_pending"

\* The password the user entered last is the one that ends up in use, or the
\* user is told that it is not. Violated: a synchronisation that starts while
\* the password is being stored looks up the old one, and kills the helper.
LastPasswordUsed ==
    \A p \in Passwords :
        (entered = p /\ account.enabled) ~>
            \/ client = p \/ entered # p \/ ~account.enabled
            \/ account.status = "reauthorization_required"
==============================================================================
