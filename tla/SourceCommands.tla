--------------------------- MODULE SourceCommands ---------------------------
(***************************************************************************)
(* The row of one ingestion source, and the requests that work on it: its  *)
(* creation, the two OAuth flows (a browser callback, a polled device      *)
(* code), the refresh of tokens, edits of the connection, pausing,         *)
(* deleting, and IngestionService.update, through which they all set the   *)
(* status and which starts the first import.  A request is a handler of    *)
(* the API or of a worker: each of its database statements and calls of    *)
(* the provider is a step, and others work on the row in between.          *)
(***************************************************************************)
EXTENDS Naturals

CONSTANTS
    Requests,       \* requests that may be under way side by side
    Connections,    \* who and where to authenticate: the CONNECTION_FIELDS and the secret
    Providers,      \* the providers to look at; "oauth_mailbox" is authorised by a sign-in
    None,
    MaxAttempts,    \* bound: authorisations started
    Budget,         \* bound: edits, failures and deaths of requests
    CommandEnv      \* which of these may happen

VARIABLES
    row,        \* the source's row; credentials are one encrypted column
    req,        \* the requests, with what each read from the row
    attempts,   \* at the identity provider: the authorisations it has been asked for
    import,     \* the initial-import job and the cycles it or the scheduler started
    stranded,   \* history: a request died after its UPDATE, or wrote a status it had read stale
    faults

vars == << row, req, attempts, import, stranded, faults >>

Statuses == { "pending_auth", "auth_success", "importing", "syncing", "active", "error", "paused" }
Attempts == 1 .. MaxAttempts
Flows == { "auth_code", "device_code" }

CommandAssumption ==
    /\ MaxAttempts \in Nat /\ Budget \in Nat
    /\ CommandEnv \subseteq { "edit", "command", "network", "refused", "death", "delete" }
    /\ None \notin Connections \cup Statuses /\ None \notin Attempts

\* The credentials object: its connection, the connection its tokens were
\* granted for, the attempt that waits for its sign-in.
Credentials ==
    [ conn : Connections, tokens : Connections \cup {None}, pending : Attempts \cup {None} ]

Rows == [ here : BOOLEAN, provider : Providers, status : Statuses, cred : Credentials ]

Steps == { "idle", "test", "ask", "begin", "exchange", "drop", "store", "refresh", "keep", "read", "write",
           "trigger" }

RequestStates ==
    [ at : Steps, attempt : Attempts \cup {None}, cred : Credentials \cup {None},
      was : Statuses \cup {None}, set : Statuses \cup {None}, edits : Credentials \cup {None}, tells : BOOLEAN ]

AttemptStates ==
    [ flow : Flows, conn : Connections, state : { "unasked", "open", "approved", "denied", "expired", "used" } ]

TypeOK ==
    /\ row \in Rows
    /\ req \in [ Requests -> RequestStates ]
    /\ attempts \in [ Attempts -> AttemptStates ]
    /\ import \in [ job : BOOLEAN, listing : BOOLEAN, cycles : { 0, 1, 2 } ]
    /\ stranded \in BOOLEAN
    /\ faults \in 0 .. Budget

Idle ==
    [ at |-> "idle", attempt |-> None, cred |-> None, was |-> None, set |-> None, edits |-> None,
      tells |-> FALSE ]

\* A source that nobody has created yet.
Init ==
    /\ row \in [ here : {FALSE}, provider : Providers, status : {"pending_auth"},
                 cred : [ conn : Connections, tokens : {None}, pending : {None} ] ]
    /\ req = [ r \in Requests |-> Idle ]
    /\ attempts = [ n \in Attempts |-> [ flow |-> "auth_code", conn |-> row.cred.conn, state |-> "unasked" ] ]
    /\ import = [ job |-> FALSE, listing |-> FALSE, cycles |-> 0 ]
    /\ stranded = FALSE
    /\ faults = 0

Strikes(kind) == kind \in CommandEnv /\ faults < Budget /\ faults' = faults + 1

At(r, step) == req[r].at = step
Ends(r) == req' = [ req EXCEPT ![r] = Idle ]
GoesTo(r, step) == req' = [ req EXCEPT ![r].at = step ]

\* update(status): from here on the request runs IngestionService.update.
Updates(r, status) == req' = [ req EXCEPT ![r] = [ Idle EXCEPT !.at = "read", !.set = status ] ]

\* A fault: only the tokens are written, onto whatever the row holds by then.
PersistTokens_Fault(cred) ==
    row' = IF row.here
           THEN [ row EXCEPT !.cred.tokens = cred.tokens, !.cred.pending = cred.pending ]
           ELSE row

\* persistTokens: the whole object that the request holds, no other column.
PersistTokens(cred) == row' = IF row.here THEN [ row EXCEPT !.cred = cred ] ELSE row

-----------------------------------------------------------------------------
(* Creation. *)

\* create: a password can be tried at once, a mailbox to be authorised only waits.
Create(r) ==
    /\ At(r, "idle") /\ ~ row.here
    /\ attempts[1].state = "unasked" /\ import.cycles = 0 /\ ~ import.job /\ faults = 0
    /\ \A q \in Requests : At(q, "idle")
    /\ row' = [ row EXCEPT !.here = TRUE, !.status = "pending_auth" ]
    /\ req' = [ req EXCEPT ![r] =
                 IF row.provider = "oauth_mailbox" THEN [ Idle EXCEPT !.at = "read" ] ELSE [ Idle EXCEPT !.at = "test" ] ]
    /\ UNCHANGED << attempts, import, stranded, faults >>

TestPasses(r) ==
    /\ At(r, "test")
    /\ Updates(r, "auth_success")
    /\ UNCHANGED << row, attempts, import, stranded, faults >>

\* A new source that does not connect is deleted again.
TestFails(r) ==
    /\ At(r, "test")
    /\ Strikes("refused")
    /\ row' = [ row EXCEPT !.here = FALSE ]
    /\ Ends(r)
    /\ UNCHANGED << attempts, import, stranded >>

-----------------------------------------------------------------------------
(* Authorisation. *)

\* loadCredentials, at the start of a handler.
Loads(r, step) ==
    /\ At(r, "idle")
    /\ row.here /\ row.provider = "oauth_mailbox"
    /\ req' = [ req EXCEPT ![r] = [ Idle EXCEPT !.at = step, !.cred = row.cred ] ]

\* startAuthCodeFlow reads, then stores a fresh nonce.
StartAuthCode(r) ==
    /\ Loads(r, "begin")
    /\ UNCHANGED << row, attempts, import, stranded, faults >>

\* startDeviceFlow reads, asks the provider for a code, then stores it.
StartDevice(r) ==
    /\ Loads(r, "ask")
    /\ UNCHANGED << row, attempts, import, stranded, faults >>

Fresh(n) == attempts[n].state = "unasked" /\ \A m \in 1 .. n - 1 : attempts[m].state # "unasked"

DeviceCode(r, n) ==
    /\ At(r, "ask") /\ Fresh(n)
    /\ attempts' = [ attempts EXCEPT ![n] = [ flow |-> "device_code", conn |-> req[r].cred.conn, state |-> "open" ] ]
    /\ req' = [ req EXCEPT ![r].at = "begin", ![r].attempt = n ]
    /\ UNCHANGED << row, import, stranded, faults >>

DeviceRefused(r) ==
    /\ At(r, "ask")
    /\ Strikes("network")
    /\ Ends(r)
    /\ UNCHANGED << row, attempts, import, stranded >>

\* The attempt is stored as pendingAuth beside the credentials read before.
Begin(r, n) ==
    /\ At(r, "begin")
    /\ IF req[r].attempt = None
       THEN /\ Fresh(n)
            /\ attempts' = [ attempts EXCEPT ![n] =
                             [ flow |-> "auth_code", conn |-> req[r].cred.conn, state |-> "open" ] ]
       ELSE n = req[r].attempt /\ UNCHANGED attempts
    /\ PersistTokens([ req[r].cred EXCEPT !.pending = n ])
    /\ Ends(r)
    /\ UNCHANGED << import, stranded, faults >>

\* At the provider: the user signs in or declines, or the attempt's time is up.
SignIn(n) ==
    /\ attempts[n].state = "open"
    /\ \E outcome \in { "approved", "denied" } : attempts' = [ attempts EXCEPT ![n].state = outcome ]
    /\ UNCHANGED << row, req, import, stranded, faults >>

Expire(n) ==
    /\ attempts[n].state \in { "open", "approved" }
    /\ attempts' = [ attempts EXCEPT ![n].state = "expired" ]
    /\ UNCHANGED << row, req, import, stranded, faults >>

\* handleCallback: the state must be that of the pending attempt, in time.
\* The browser may come back more than once.
Callback(r, n) ==
    /\ Loads(r, "exchange")
    /\ row.cred.pending = n /\ attempts[n].flow = "auth_code"
    /\ attempts[n].state \in { "approved", "used" }
    /\ UNCHANGED << row, attempts, import, stranded, faults >>

\* The user declined: the attempt is dropped, then the row told so.
CallbackDenied(r, n) ==
    /\ At(r, "idle") /\ row.here
    /\ row.cred.pending = n /\ attempts[n].flow = "auth_code" /\ attempts[n].state = "denied"
    /\ req' = [ req EXCEPT ![r] = [ Idle EXCEPT !.at = "drop", !.cred = row.cred, !.tells = TRUE ] ]
    /\ UNCHANGED << row, attempts, import, stranded, faults >>

\* pollDeviceFlow: without a pending device code, nothing; past its time, it is dropped.
Poll(r, n) ==
    /\ Loads(r, "exchange")
    /\ row.cred.pending = n /\ attempts[n].flow = "device_code" /\ attempts[n].state # "expired"
    /\ UNCHANGED << row, attempts, import, stranded, faults >>

PollExpired(r, n) ==
    /\ Loads(r, "drop")
    /\ row.cred.pending = n /\ attempts[n].flow = "device_code" /\ attempts[n].state = "expired"
    /\ UNCHANGED << row, attempts, import, stranded, faults >>

\* pendingAuth dropped from the object read before.
Drop(r) ==
    /\ At(r, "drop")
    /\ PersistTokens([ req[r].cred EXCEPT !.pending = None ])
    /\ IF req[r].tells THEN Updates(r, None) ELSE Ends(r)
    /\ UNCHANGED << attempts, import, stranded, faults >>

Attempt(r) == req[r].cred.pending

\* The token endpoint grants an approved attempt once, to the connection that asked for it.
Granted(r) ==
    /\ At(r, "exchange")
    /\ attempts[Attempt(r)].state = "approved"
    /\ attempts[Attempt(r)].conn = req[r].cred.conn
    /\ attempts' = [ attempts EXCEPT ![Attempt(r)].state = "used" ]
    /\ GoesTo(r, "store")
    /\ UNCHANGED << row, import, stranded, faults >>

\* No grant: a callback tells the row, a poll goes on or drops what the
\* provider calls expired or denied.
NotGranted(r) ==
    /\ At(r, "exchange")
    /\ attempts[Attempt(r)].state # "approved"
    /\ IF attempts[Attempt(r)].flow = "auth_code" THEN Updates(r, None)
       ELSE IF attempts[Attempt(r)].state \in { "expired", "denied" }
            THEN req' = [ req EXCEPT ![r].at = "drop", ![r].tells = TRUE ]
            ELSE Ends(r)
    /\ UNCHANGED << row, attempts, import, stranded, faults >>

ExchangeFails(r) ==
    /\ At(r, "exchange")
    /\ Strikes("network")
    /\ IF attempts[Attempt(r)].flow = "auth_code" THEN Updates(r, None) ELSE Ends(r)
    /\ UNCHANGED << row, attempts, import, stranded >>

\* completeAuthorization: the tokens are stored, whatever the connection test
\* then says the source is authorised.
Store(r) ==
    /\ At(r, "store")
    /\ PersistTokens([ req[r].cred EXCEPT !.pending = None, !.tokens = req[r].cred.conn ])
    /\ Updates(r, "auth_success")
    /\ UNCHANGED << attempts, import, stranded, faults >>

\* getValidAccessToken, of a worker or of a connection test: an expired token
\* is refreshed with the refresh token read before.
Refresh(r) ==
    /\ Loads(r, "refresh")
    /\ row.cred.tokens # None
    /\ UNCHANGED << row, attempts, import, stranded, faults >>

Refreshed(r) ==
    /\ At(r, "refresh")
    /\ GoesTo(r, "keep")
    /\ UNCHANGED << row, attempts, import, stranded, faults >>

RefreshFails(r) ==
    /\ At(r, "refresh")
    /\ Strikes("network")
    /\ Ends(r)
    /\ UNCHANGED << row, attempts, import, stranded >>

\* refreshTokens stores the answer before anyone uses it.
Keep(r) ==
    /\ At(r, "keep")
    /\ PersistTokens(req[r].cred)
    /\ Ends(r)
    /\ UNCHANGED << attempts, import, stranded, faults >>

-----------------------------------------------------------------------------
(* IngestionService.update: read the row, write what changes, compare. *)

\* mergeOAuthCredentials: tokens survive an edit unless it changes the connection.
Merged(cred, conn) ==
    IF conn = cred.conn THEN cred ELSE [ conn |-> conn, tokens |-> None, pending |-> None ]

Edit(r, conn) ==
    /\ At(r, "idle") /\ row.here
    /\ Strikes("edit")
    /\ req' = [ req EXCEPT ![r] =
                 [ Idle EXCEPT !.at = "write", !.was = row.status, !.edits = Merged(row.cred, conn),
                               !.set = IF row.provider = "oauth_mailbox" /\ conn # row.cred.conn
                                       THEN "pending_auth" ELSE None ] ]
    /\ UNCHANGED << row, attempts, import, stranded >>

\* Pausing, resuming, and the reset of a force sync.
Command(r, status) ==
    /\ At(r, "idle") /\ row.here
    /\ Strikes("command")
    /\ Updates(r, status)
    /\ UNCHANGED << row, attempts, import, stranded >>

UpdateReads(r) ==
    /\ At(r, "read")
    /\ IF row.here THEN req' = [ req EXCEPT ![r].at = "write", ![r].was = row.status ] ELSE Ends(r)
    /\ UNCHANGED << row, attempts, import, stranded, faults >>

\* A fault: only the first authorisation of a source starts an import.
Authorizes_Fault(was, status) == was = "pending_auth" /\ status = "auth_success"

\* The status after the write decides, against the one read before it.
Authorizes(was, status) == was # "auth_success" /\ status = "auth_success"

UpdateWrites(r) ==
    /\ At(r, "write")
    /\ LET q == req[r]
           status == IF q.set = None THEN row.status ELSE q.set
       IN IF ~ row.here THEN Ends(r) /\ UNCHANGED << row, stranded >>
          ELSE /\ row' = [ row EXCEPT !.status = status, !.cred = IF q.edits = None THEN @ ELSE q.edits ]
               /\ IF Authorizes(q.was, status) THEN GoesTo(r, "trigger") ELSE Ends(r)
               /\ stranded' = (stranded \/ ( /\ q.set = "auth_success" /\ q.was = "auth_success"
                                             /\ row.status # "auth_success" ))
    /\ UNCHANGED << attempts, import, faults >>

\* triggerInitialImport: a job of that id that is still queued or running is enough.
Trigger(r) ==
    /\ At(r, "trigger")
    /\ import' = IF row.here /\ ~ import.listing THEN [ import EXCEPT !.job = TRUE ] ELSE import
    /\ Ends(r)
    /\ UNCHANGED << row, attempts, stranded, faults >>

-----------------------------------------------------------------------------
(* The imports and cycles of the source, the operator, the end of a process. *)

\* claimForImport.
Claim ==
    /\ import.job
    /\ IF row.here /\ row.status \notin { "importing", "syncing" }
       THEN /\ import.cycles < 2
            /\ row' = [ row EXCEPT !.status = "importing" ]
            /\ import' = [ job |-> FALSE, listing |-> TRUE, cycles |-> import.cycles + 1 ]
       ELSE row' = row /\ import' = [ import EXCEPT !.job = FALSE ]
    /\ UNCHANGED << req, attempts, stranded, faults >>

\* The master has handed out its mailboxes.
Listed ==
    /\ import.listing
    /\ import' = [ import EXCEPT !.listing = FALSE ]
    /\ UNCHANGED << row, req, attempts, stranded, faults >>

\* claimForSync, from the scheduler.
Sync ==
    /\ row.here /\ row.status \in { "active", "error" }
    /\ import.cycles < 2
    /\ row' = [ row EXCEPT !.status = "syncing" ]
    /\ import' = [ import EXCEPT !.cycles = @ + 1 ]
    /\ UNCHANGED << req, attempts, stranded, faults >>

\* The finalizer of a cycle, or the error of its master: a pause is respected.
CycleEnds ==
    /\ import.cycles > 0
    /\ import.listing => import.cycles > 1
    /\ import' = [ import EXCEPT !.cycles = @ - 1 ]
    /\ IF row.here /\ row.status # "paused"
       THEN \E status \in { "active", "error" } : row' = [ row EXCEPT !.status = status ]
       ELSE row' = row
    /\ UNCHANGED << req, attempts, stranded, faults >>

Delete(r) ==
    /\ At(r, "idle") /\ row.here
    /\ Strikes("delete")
    /\ row' = [ row EXCEPT !.here = FALSE ]
    /\ UNCHANGED << req, attempts, import, stranded >>

\* The process of a request dies.
Dies(r) ==
    /\ ~ At(r, "idle")
    /\ Strikes("death")
    /\ Ends(r)
    /\ stranded' = (stranded \/ At(r, "trigger"))
    /\ UNCHANGED << row, attempts, import >>

Creating(r) == Create(r) \/ TestPasses(r) \/ TestFails(r)

Authorizing(r) ==
    \/ StartAuthCode(r) \/ StartDevice(r) \/ DeviceRefused(r)
    \/ \E n \in Attempts :
        DeviceCode(r, n) \/ Begin(r, n) \/ Callback(r, n) \/ CallbackDenied(r, n) \/ Poll(r, n) \/ PollExpired(r, n)
    \/ Drop(r) \/ Granted(r) \/ NotGranted(r) \/ ExchangeFails(r) \/ Store(r)

Refreshing(r) == Refresh(r) \/ Refreshed(r) \/ RefreshFails(r) \/ Keep(r)

Updating(r) ==
    \/ \E conn \in Connections : Edit(r, conn)
    \/ \E status \in { "paused", "active" } : Command(r, status)
    \/ UpdateReads(r) \/ UpdateWrites(r) \/ Trigger(r)

Next ==
    \/ \E r \in Requests : Creating(r) \/ Authorizing(r) \/ Refreshing(r) \/ Updating(r) \/ Delete(r) \/ Dies(r)
    \/ \E n \in Attempts : SignIn(n) \/ Expire(n)
    \/ Claim \/ Listed \/ Sync \/ CycleEnds

Spec == Init /\ [][Next]_vars

-----------------------------------------------------------------------------
\* Whoever writes the credentials writes one whole object: the tokens in it were
\* granted, and its pending attempt was started, for the connection beside them.
TokensFit ==
    /\ row.cred.tokens # None => row.cred.tokens = row.cred.conn
    /\ row.cred.pending # None => attempts[row.cred.pending].conn = row.cred.conn

\* auth_success is a status the scheduler never looks at: whoever sets it
\* starts the import that leads out of it, unless he dies in between or two
\* authorisations cross.
AuthorizedHasImport ==
    row.here /\ row.status = "auth_success" /\ ~ stranded =>
        \/ import.job \/ import.cycles > 0
        \/ \E r \in Requests : At(r, "trigger")
=============================================================================
