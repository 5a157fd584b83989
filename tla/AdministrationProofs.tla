----------------------- MODULE AdministrationProofs -----------------------
(***************************************************************************)
(* Proofs about Administration: the commands on one source, and the audit  *)
(* log.  The commands keep CommandInv, which says beside the types what    *)
(* each request under way has read: credentials that fit, an attempt that  *)
(* the provider knows.  A source that its form edits keeps FormInv.  The   *)
(* audit log keeps WInv, and with it one chain and a true verdict.         *)
(* Signing in keeps FactorInv: what each request under way may still do to *)
(* the row.  A role keeps PolicyInv: what the visual editor wrote.         *)
(***************************************************************************)
EXTENDS Administration, FiniteSetTheorems, SequenceTheorems, TLAPS

\* What a credentials object says of its connection.
Fits(cred) ==
    /\ cred.tokens # None => cred.tokens = cred.conn
    /\ cred.pending # None => /\ attempts[cred.pending].conn = cred.conn
                              /\ attempts[cred.pending].state # "unasked"

Holding == { "ask", "begin", "exchange", "drop", "store", "refresh", "keep" }

\* What a request has read of the row.
FitsRequest(q) ==
    /\ q.at \in Holding => q.cred \in Commands!Credentials /\ Fits(q.cred)
    /\ q.at = "ask" => q.attempt = None
    /\ q.at = "begin" /\ q.attempt # None =>
          /\ attempts[q.attempt].conn = q.cred.conn
          /\ attempts[q.attempt].state # "unasked"
    /\ q.at = "exchange" => q.cred.pending # None
    /\ q.edits # None => q.edits \in Commands!Credentials /\ Fits(q.edits)

Imports == [ job : BOOLEAN, listing : BOOLEAN, cycles : { 0, 1, 2 } ]

CommandInv ==
    /\ Commands!TypeOK
    /\ Fits(row.cred)
    /\ \A r \in Requests : FitsRequest(req[r])
    /\ import.listing => import.cycles > 0
    /\ Commands!AuthorizedHasImport

\* No attempt that has been asked for changes its connection.
AttemptsKept ==
    /\ attempts' \in [ Commands!Attempts -> Commands!AttemptStates ]
    /\ \A n \in Commands!Attempts : attempts[n].state # "unasked" =>
          attempts'[n].state # "unasked" /\ attempts'[n].conn = attempts[n].conn

LEMMA FitsStays ==
  ASSUME AttemptsKept, NEW cred \in Commands!Credentials, Fits(cred)
  PROVE  Fits(cred)'
<1>1. cred.pending \in Commands!Attempts \cup {None}
  BY DEF Commands!Credentials
<1> QED
  BY <1>1 DEF Fits, AttemptsKept

LEMMA FitsRequestStays ==
  ASSUME AttemptsKept, NEW q \in Commands!RequestStates, FitsRequest(q)
  PROVE  FitsRequest(q)'
<1>1. q.attempt \in Commands!Attempts \cup {None}
  BY DEF Commands!RequestStates
<1>2. q.at \in Holding => q.cred \in Commands!Credentials /\ Fits(q.cred)'
  BY FitsStays DEF FitsRequest
<1>3. q.edits # None => q.edits \in Commands!Credentials /\ Fits(q.edits)'
  BY FitsStays DEF FitsRequest
<1>4. q.at = "begin" /\ q.attempt # None => attempts'[q.attempt].conn = q.cred.conn
      /\ attempts'[q.attempt].state # "unasked"
  BY <1>1 DEF FitsRequest, AttemptsKept
<1> QED
  BY <1>2, <1>3, <1>4 DEF FitsRequest

\* One request goes on.
LEMMA RequestGoesOn ==
  ASSUME CommandInv, NEW r \in Requests, NEW q \in Commands!RequestStates, req' = [ req EXCEPT ![r] = q ],
         AttemptsKept, FitsRequest(q)'
  PROVE  /\ req' \in [ Requests -> Commands!RequestStates ]
         /\ \A p \in Requests : FitsRequest(req[p])'
         /\ req'[r] = q /\ \A p \in Requests : p # r => req'[p] = req[p]
<1>1. req \in [ Requests -> Commands!RequestStates ]
  BY DEF CommandInv, Commands!TypeOK
<1>2. req' \in [ Requests -> Commands!RequestStates ]
  BY <1>1
<1>3. req'[r] = q /\ \A p \in Requests : p # r => req'[p] = req[p]
  BY <1>1
<1>4. \A p \in Requests : FitsRequest(req[p])'
  <2> SUFFICES ASSUME NEW p \in Requests, p # r PROVE FitsRequest(req[p])'
    BY <1>3
  <2> DEFINE c == req[p]
  <2>1. req'[p] = c /\ c \in Commands!RequestStates /\ FitsRequest(c)
    BY <1>1, <1>3 DEF CommandInv
  <2> QED
    BY <2>1, FitsRequestStays
<1> QED
  BY <1>2, <1>3, <1>4
\* What a step leaves of the invariant to show.
Rest ==
    /\ row' \in Commands!Rows /\ Fits(row.cred)'
    /\ import' \in Imports /\ stranded' \in BOOLEAN /\ faults' \in 0 .. Budget
    /\ import'.listing => import'.cycles > 0
    /\ Commands!AuthorizedHasImport'

LEMMA RequestKeepsInv ==
  ASSUME CommandInv, NEW r \in Requests, NEW q \in Commands!RequestStates, req' = [ req EXCEPT ![r] = q ],
         AttemptsKept, FitsRequest(q)', Rest
  PROVE  CommandInv'
<1>1. /\ req' \in [ Requests -> Commands!RequestStates ]
      /\ \A p \in Requests : FitsRequest(req[p])'
  BY RequestGoesOn
<1>2. Commands!TypeOK'
  BY <1>1 DEF Commands!TypeOK, Rest, Imports, AttemptsKept
<1> QED
  BY <1>1, <1>2 DEF CommandInv, Rest

LEMMA Struck == CommandInv => \A kind : Commands!Strikes(kind) => faults' \in 0 .. Budget
  BY AdministrationAssumption DEF CommandInv, Commands!TypeOK, Commands!Strikes, Commands!CommandAssumption

LEMMA AttemptsStay == CommandInv /\ UNCHANGED attempts => AttemptsKept
  BY DEF CommandInv, Commands!TypeOK, AttemptsKept

\* A request that is not about to start an import goes on, and the source's
\* status and import stay as they are.
LEMMA ImportStays ==
  ASSUME CommandInv, NEW r \in Requests, ~ Commands!At(r, "trigger"), NEW q \in Commands!RequestStates,
         req' = [ req EXCEPT ![r] = q ],
         import' = import, stranded' = stranded,
         (row'.here /\ row'.status = "auth_success") => (row.here /\ row.status = "auth_success")
  PROVE  Commands!AuthorizedHasImport'
<1>1. req \in [ Requests -> Commands!RequestStates ]
  BY DEF CommandInv, Commands!TypeOK
<1>2. \A p \in Requests : Commands!At(p, "trigger") => Commands!At(p, "trigger")'
  BY <1>1 DEF Commands!At
<1> QED
  BY <1>2 DEF CommandInv, Commands!AuthorizedHasImport

\* Steps of a request that only it sees.
LEMMA OnlyRequest ==
  ASSUME CommandInv, NEW r \in Requests, ~ Commands!At(r, "trigger"), NEW q \in Commands!RequestStates,
         req' = [ req EXCEPT ![r] = q ],
         FitsRequest(q), UNCHANGED << row, attempts, import, stranded >>, faults' \in 0 .. Budget
  PROVE  CommandInv'
<1>1. AttemptsKept
  BY AttemptsStay
<1>2. FitsRequest(q)'
  BY <1>1, FitsRequestStays
<1>3. Rest
  <2>1. Commands!AuthorizedHasImport'
    BY ImportStays
  <2>2. row \in Commands!Rows /\ row.cred \in Commands!Credentials /\ import \in Imports /\ stranded \in BOOLEAN
    BY DEF CommandInv, Commands!TypeOK, Commands!Rows, Imports
  <2> DEFINE c == row.cred
  <2>3. Fits(c)'
    BY <1>1, <2>2, FitsStays DEF CommandInv
  <2> QED
    BY <2>1, <2>2, <2>3 DEF Rest, CommandInv
<1> QED
  BY <1>1, <1>2, <1>3, RequestKeepsInv

\* The requests as the steps leave them.
LEMMA IdleIsRequest ==
  /\ Commands!Idle \in Commands!RequestStates
  /\ \A step \in Commands!Steps : \A cred \in Commands!Credentials :
        [ Commands!Idle EXCEPT !.at = step, !.cred = cred ] \in Commands!RequestStates
  /\ \A cred \in Commands!Credentials : [ Commands!Idle EXCEPT !.at = "drop", !.cred = cred,
     !.tells = TRUE ] \in Commands!RequestStates
  /\ \A step \in Commands!Steps : [ Commands!Idle EXCEPT !.at = step ] \in Commands!RequestStates
  /\ \A status \in Commands!Statuses \cup {None} : [ Commands!Idle EXCEPT !.at = "read",
     !.set = status ] \in Commands!RequestStates
  /\ \A was \in Commands!Statuses, cred \in Commands!Credentials, status \in Commands!Statuses \cup {None} :
        [ Commands!Idle EXCEPT !.at = "write", !.was = was, !.edits = cred, !.set = status ] \in Commands!RequestStates
<1>1. { "drop", "read", "write", "idle" } \subseteq Commands!Steps /\ None \in Commands!Attempts \cup {None}
      /\ None \in Commands!Credentials \cup {None}
      /\ None \in Commands!Statuses \cup {None}
  BY DEF Commands!Steps
<1> QED
  BY <1>1, Zenon DEF Commands!Idle, Commands!RequestStates

LEMMA IdleFits == FitsRequest(Commands!Idle)
  BY DEF FitsRequest, Commands!Idle, Holding
\* A request stays one when it goes to another step.
LEMMA StepIsRequest ==
  ASSUME NEW q \in Commands!RequestStates, NEW step \in Commands!Steps
  PROVE  /\ [ q EXCEPT !.at = step ] \in Commands!RequestStates
         /\ \A n \in Commands!Attempts : [ q EXCEPT !.at = step, !.attempt = n ] \in Commands!RequestStates
         /\ \A status \in Commands!Statuses : [ q EXCEPT !.at = step, !.was = status ] \in Commands!RequestStates
         /\ [ q EXCEPT !.at = step, !.tells = TRUE ] \in Commands!RequestStates
<1>1. /\ \A n \in Commands!Attempts : n \in Commands!Attempts \cup {None}
      /\ \A status \in Commands!Statuses : status \in Commands!Statuses \cup {None}
  OBVIOUS
<1> QED
  BY <1>1, Zenon DEF Commands!RequestStates

LEMMA LoadsKeeps ==
  ASSUME CommandInv, NEW r \in Requests, NEW step \in Holding, Commands!Loads(r, step),
         step = "exchange" => row.cred.pending # None,
         UNCHANGED << row, attempts, import, stranded, faults >>
  PROVE  CommandInv'
<1> DEFINE q == [ Commands!Idle EXCEPT !.at = step, !.cred = row.cred ]
<1>1. row.cred \in Commands!Credentials /\ Fits(row.cred) /\ faults \in 0 .. Budget
  BY DEF CommandInv, Commands!TypeOK, Commands!Rows
<1>2. q \in Commands!RequestStates
  BY <1>1, IdleIsRequest DEF Holding, Commands!Steps
<1>3. FitsRequest(q)
  BY <1>1 DEF FitsRequest, Commands!Idle, Holding
<1>4. req' = [ req EXCEPT ![r] = q ] /\ ~ Commands!At(r, "trigger")
  BY DEF Commands!Loads, Commands!At
<1> HIDE DEF q
<1> QED
  BY <1>1, <1>2, <1>3, <1>4, OnlyRequest

LEMMA UpdatesKeeps ==
  ASSUME CommandInv, NEW r \in Requests, ~ Commands!At(r, "trigger"),
         NEW status \in Commands!Statuses \cup {None}, Commands!Updates(r, status),
         UNCHANGED << row, attempts, import, stranded >>, faults' \in 0 .. Budget
  PROVE  CommandInv'
<1> DEFINE q == [ Commands!Idle EXCEPT !.at = "read", !.set = status ]
<1>1. q \in Commands!RequestStates
  BY IdleIsRequest
<1>2. FitsRequest(q)
  BY DEF FitsRequest, Commands!Idle, Holding
<1>3. req' = [ req EXCEPT ![r] = q ]
  BY DEF Commands!Updates
<1> HIDE DEF q
<1> QED
  BY <1>1, <1>2, <1>3, OnlyRequest

LEMMA EndsKeeps ==
  ASSUME CommandInv, NEW r \in Requests, ~ Commands!At(r, "trigger"), Commands!Ends(r),
         UNCHANGED << row, attempts, import, stranded >>, faults' \in 0 .. Budget
  PROVE  CommandInv'
  BY IdleIsRequest, IdleFits, OnlyRequest DEF Commands!Ends

\* Steps that read the row, ask the provider, or wait.
LEMMA AsksKeep ==
  ASSUME CommandInv, NEW r \in Requests,
         \/ Commands!TestPasses(r) \/ Commands!StartAuthCode(r) \/ Commands!StartDevice(r) \/ Commands!DeviceRefused(r)
         \/ \E n \in Commands!Attempts : Commands!Callback(r, n) \/ Commands!CallbackDenied(r, n)
            \/ Commands!Poll(r, n) \/ Commands!PollExpired(r, n)
         \/ Commands!NotGranted(r) \/ Commands!ExchangeFails(r) \/ Commands!Refresh(r) \/ Commands!Refreshed(r)
            \/ Commands!RefreshFails(r)
  PROVE  CommandInv'
<1>0. /\ faults \in 0 .. Budget /\ req[r] \in Commands!RequestStates /\ FitsRequest(req[r])
      /\ row.cred \in Commands!Credentials /\ Fits(row.cred) /\ None \notin Commands!Attempts
  BY AdministrationAssumption DEF CommandInv, Commands!TypeOK, Commands!CommandAssumption, Commands!Rows
<1>1. CASE Commands!TestPasses(r)
  BY <1>0, <1>1, UpdatesKeeps DEF Commands!TestPasses, Commands!At, Commands!Statuses
<1>2. CASE Commands!StartAuthCode(r) \/ Commands!StartDevice(r) \/ Commands!Refresh(r)
  <2>1. { "begin", "ask", "refresh" } \subseteq Holding
    BY DEF Holding
  <2> QED
    BY <1>2, <2>1, LoadsKeeps DEF Commands!StartAuthCode, Commands!StartDevice, Commands!Refresh
<1>3. ASSUME NEW n \in Commands!Attempts, Commands!Callback(r, n) \/ Commands!Poll(r, n)
      \/ Commands!PollExpired(r, n) PROVE CommandInv'
  <2>1. "exchange" \in Holding /\ "drop" \in Holding
    BY DEF Holding
  <2> QED
    BY <1>0, <1>3, <2>1, LoadsKeeps DEF Commands!Callback, Commands!Poll, Commands!PollExpired
<1>4. ASSUME NEW n \in Commands!Attempts, Commands!CallbackDenied(r, n) PROVE CommandInv'
  <2> DEFINE q == [ Commands!Idle EXCEPT !.at = "drop", !.cred = row.cred, !.tells = TRUE ]
  <2>1. q \in Commands!RequestStates
    BY <1>0, IdleIsRequest
  <2>2. FitsRequest(q)
    BY <1>0 DEF FitsRequest, Commands!Idle, Holding
  <2>3. req' = [ req EXCEPT ![r] = q ] /\ ~ Commands!At(r, "trigger")
    BY <1>4 DEF Commands!CallbackDenied, Commands!At
  <2> HIDE DEF q
  <2> QED
    BY <1>0, <1>4, <2>1, <2>2, <2>3, OnlyRequest DEF Commands!CallbackDenied
<1>5. CASE Commands!DeviceRefused(r) \/ Commands!RefreshFails(r)
  BY <1>5, EndsKeeps, Struck DEF Commands!DeviceRefused, Commands!RefreshFails, Commands!At
<1>6. CASE Commands!NotGranted(r)
  <2>1. CASE Commands!Updates(r, None)
    BY <1>0, <1>6, <2>1, UpdatesKeeps DEF Commands!NotGranted, Commands!At
  <2>2. CASE Commands!Ends(r)
    BY <1>0, <1>6, <2>2, EndsKeeps DEF Commands!NotGranted, Commands!At
  <2>3. CASE req' = [ req EXCEPT ![r].at = "drop", ![r].tells = TRUE ]
    <3> DEFINE q == [ req[r] EXCEPT !.at = "drop", !.tells = TRUE ]
    <3>1. q \in Commands!RequestStates
      BY <1>0, StepIsRequest DEF Commands!Steps
    <3>2. q.at = "drop" /\ q.cred = req[r].cred /\ q.edits = req[r].edits
      BY <1>0 DEF Commands!RequestStates
    <3>3. req[r].at = "exchange"
      BY <1>6 DEF Commands!NotGranted, Commands!At
    <3>4. FitsRequest(q)
      BY <1>0, <3>2, <3>3 DEF FitsRequest, Holding
    <3>5. req' = [ req EXCEPT ![r] = q ]
      BY <2>3 DEF CommandInv, Commands!TypeOK
    <3> HIDE DEF q
    <3> QED
      BY <1>0, <1>6, <3>1, <3>3, <3>4, <3>5, OnlyRequest DEF Commands!NotGranted, Commands!At
  <2> QED
    BY <1>6, <2>1, <2>2, <2>3 DEF Commands!NotGranted
<1>7. CASE Commands!ExchangeFails(r)
  BY <1>0, <1>7, UpdatesKeeps, EndsKeeps, Struck DEF Commands!ExchangeFails, Commands!At
<1>8. CASE Commands!Refreshed(r)
  <2> DEFINE q == [ req[r] EXCEPT !.at = "keep" ]
  <2>1. q \in Commands!RequestStates
    BY <1>0, StepIsRequest DEF Commands!Steps
  <2>2. q.at = "keep" /\ q.cred = req[r].cred /\ q.edits = req[r].edits
    BY <1>0 DEF Commands!RequestStates
  <2>3. req[r].at = "refresh"
    BY <1>8 DEF Commands!Refreshed, Commands!At
  <2>4. FitsRequest(q)
    BY <1>0, <2>2, <2>3 DEF FitsRequest, Holding
  <2>5. req' = [ req EXCEPT ![r] = q ]
    BY <1>8 DEF Commands!Refreshed, Commands!GoesTo
  <2> HIDE DEF q
  <2> QED
    BY <1>0, <1>8, <2>1, <2>3, <2>4, <2>5, OnlyRequest DEF Commands!Refreshed, Commands!At
<1> QED
  BY <1>1, <1>2, <1>3, <1>4, <1>5, <1>6, <1>7, <1>8

LEMMA CredentialFields ==
  ASSUME NEW c \in Commands!Credentials
  PROVE  /\ \A n \in Commands!Attempts \cup {None} :
              /\ [ c EXCEPT !.pending = n ] \in Commands!Credentials
              /\ [ c EXCEPT !.pending = n ].conn = c.conn /\ [ c EXCEPT !.pending = n ].tokens = c.tokens
              /\ [ c EXCEPT !.pending = n ].pending = n
         /\ [ c EXCEPT !.pending = None, !.tokens = c.conn ] \in Commands!Credentials
         /\ [ c EXCEPT !.pending = None, !.tokens = c.conn ].conn = c.conn
         /\ [ c EXCEPT !.pending = None, !.tokens = c.conn ].tokens = c.conn
         /\ [ c EXCEPT !.pending = None, !.tokens = c.conn ].pending = None
  BY DEF Commands!Credentials

\* What a step that writes only credentials leaves.
LEMMA PersistKeeps ==
  ASSUME CommandInv, NEW r \in Requests, ~ Commands!At(r, "trigger"), NEW q \in Commands!RequestStates,
         req' = [ req EXCEPT ![r] = q ],
         AttemptsKept, FitsRequest(q)', NEW cred \in Commands!Credentials, Fits(cred)', Commands!PersistTokens(cred),
         UNCHANGED << import, stranded, faults >>
  PROVE  CommandInv'
<1>0. row \in Commands!Rows /\ import \in Imports /\ stranded \in BOOLEAN /\ faults \in 0 .. Budget
  BY DEF CommandInv, Commands!TypeOK, Imports
<1>1. CASE row.here
  <2>1. row' = [ row EXCEPT !.cred = cred ]
    BY <1>1 DEF Commands!PersistTokens
  <2>2. row' \in Commands!Rows
    BY <1>0, <2>1, Zenon DEF Commands!Rows
  <2>3. row'.cred = cred /\ row'.here = row.here /\ row'.status = row.status
    BY <1>0, <2>1 DEF Commands!Rows
  <2>4. Commands!AuthorizedHasImport'
    BY <2>3, ImportStays
  <2> QED
    BY <1>0, <2>2, <2>3, <2>4, RequestKeepsInv DEF Rest, CommandInv
<1>2. CASE ~ row.here
  <2>1. row' = row
    BY <1>2 DEF Commands!PersistTokens
  <2>2. Commands!AuthorizedHasImport'
    BY <2>1, ImportStays
  <2>3. PICK c \in Commands!Credentials : c = row.cred /\ Fits(c)
    BY <1>0 DEF CommandInv, Commands!Rows
  <2>4. Fits(c)'
    BY <2>3, FitsStays
  <2> QED
    BY <1>0, <2>1, <2>2, <2>3, <2>4, RequestKeepsInv DEF Rest, CommandInv
<1> QED
  BY <1>1, <1>2

\* An attempt nobody has asked for yet starts with the connection it is given.
LEMMA FreshAttempt ==
  ASSUME CommandInv, NEW n \in Commands!Attempts, Commands!Fresh(n), NEW conn \in Connections,
         NEW flow \in Commands!Flows,
         attempts' = [ attempts EXCEPT ![n] = [ flow |-> flow, conn |-> conn, state |-> "open" ] ]
  PROVE  AttemptsKept /\ attempts'[n].conn = conn /\ attempts'[n].state # "unasked"
<1>1. attempts \in [ Commands!Attempts -> Commands!AttemptStates ] /\ attempts[n].state = "unasked"
  BY DEF CommandInv, Commands!TypeOK, Commands!Fresh
<1>2. [ flow |-> flow, conn |-> conn, state |-> "open" ] \in Commands!AttemptStates
  BY DEF Commands!AttemptStates
<1> QED
  BY <1>1, <1>2 DEF AttemptsKept

\* An attempt that was asked for goes on.
LEMMA AskedAttempt ==
  ASSUME CommandInv, NEW n \in Commands!Attempts, NEW state \in { "open", "approved", "denied", "expired", "used" },
         attempts' = [ attempts EXCEPT ![n].state = state ]
  PROVE  AttemptsKept
<1>1. attempts \in [ Commands!Attempts -> Commands!AttemptStates ]
  BY DEF CommandInv, Commands!TypeOK
<1>2. attempts' = [ attempts EXCEPT ![n] = [ attempts[n] EXCEPT !.state = state ] ]
  OBVIOUS
<1>3. /\ [ attempts[n] EXCEPT !.state = state ] \in Commands!AttemptStates
      /\ [ attempts[n] EXCEPT !.state = state ].conn = attempts[n].conn
      /\ [ attempts[n] EXCEPT !.state = state ].state = state
  BY <1>1 DEF Commands!AttemptStates
<1> QED
  BY <1>1, <1>2, <1>3 DEF AttemptsKept

\* Credentials are written back as a whole, by a request that read them earlier.
LEMMA WritesKeep ==
  ASSUME CommandInv, NEW r \in Requests,
         (\E n \in Commands!Attempts : Commands!Begin(r, n)) \/ Commands!Drop(r) \/ Commands!Store(r)
            \/ Commands!Keep(r)
  PROVE  CommandInv'
<1>0. req[r] \in Commands!RequestStates /\ FitsRequest(req[r]) /\ None \notin Commands!Attempts
  BY AdministrationAssumption DEF CommandInv, Commands!TypeOK, Commands!CommandAssumption
<1>1. PICK c \in Commands!Credentials : c = req[r].cred /\ Fits(c) /\ ~ Commands!At(r, "trigger")
  BY <1>0 DEF FitsRequest, Holding, Commands!Begin, Commands!Drop, Commands!Store, Commands!Keep, Commands!At
<1>2. AttemptsKept => Fits(c)'
  BY <1>1, FitsStays
<1>3. Commands!Idle \in Commands!RequestStates /\ (AttemptsKept => FitsRequest(Commands!Idle)')
  BY IdleIsRequest, IdleFits, FitsRequestStays
<1>4. UNCHANGED attempts => AttemptsKept
  BY AttemptsStay
<1>9. c.tokens # None => c.tokens = c.conn
  BY <1>1 DEF Fits
<1>5. ASSUME NEW n \in Commands!Attempts, Commands!Begin(r, n) PROVE CommandInv'
  <2>1. AttemptsKept /\ attempts'[n].conn = c.conn /\ attempts'[n].state # "unasked"
    <3>1. CASE req[r].attempt = None
      <4>1. /\ Commands!Fresh(n) /\ c.conn \in Connections
            /\ attempts' = [ attempts EXCEPT ![n] = [ flow |-> "auth_code", conn |-> c.conn, state |-> "open" ] ]
        BY <1>1, <1>5, <3>1 DEF Commands!Begin, Commands!Credentials
      <4> QED
        BY <4>1, FreshAttempt DEF Commands!Flows
    <3>2. CASE req[r].attempt # None
      BY <1>0, <1>1, <1>4, <1>5, <3>2 DEF Commands!Begin, FitsRequest, Commands!At
    <3> QED
      BY <3>1, <3>2
  <2>2. PICK w \in Commands!Credentials : /\ w = [ c EXCEPT !.pending = n ]
                                          /\ w.conn = c.conn /\ w.tokens = c.tokens /\ w.pending = n
    BY CredentialFields
  <2>3. Commands!PersistTokens(w) /\ req' = [ req EXCEPT ![r] = Commands!Idle ]
    BY <1>1, <1>5, <2>2 DEF Commands!Begin, Commands!Ends
  <2>5. Fits(w)'
    BY <1>9, <2>1, <2>2 DEF Fits
  <2> QED
    BY <1>1, <1>3, <1>5, <2>1, <2>3, <2>5, PersistKeeps DEF Commands!Begin
<1>6. CASE Commands!Drop(r)
  <2>1. PICK w \in Commands!Credentials : /\ w = [ c EXCEPT !.pending = None ]
                                          /\ w.conn = c.conn /\ w.tokens = c.tokens /\ w.pending = None
    BY CredentialFields
  <2>2. PICK q \in Commands!RequestStates : /\ FitsRequest(q) /\ req' = [ req EXCEPT ![r] = q ]
    <3>1. FitsRequest([ Commands!Idle EXCEPT !.at = "read", !.set = None ])
      BY DEF FitsRequest, Commands!Idle, Holding
    <3> QED
      BY <1>6, <3>1, IdleIsRequest, IdleFits DEF Commands!Drop, Commands!Ends, Commands!Updates
  <2>3. Commands!PersistTokens(w) /\ AttemptsKept
    BY <1>1, <1>4, <1>6, <2>1 DEF Commands!Drop
  <2>4. Fits(w)'
    BY <1>9, <2>1 DEF Fits
  <2>5. FitsRequest(q)'
    BY <2>2, <2>3, FitsRequestStays
  <2> QED
    BY <1>1, <1>6, <2>2, <2>3, <2>4, <2>5, PersistKeeps DEF Commands!Drop
<1>7. CASE Commands!Store(r)
  <2>1. PICK w \in Commands!Credentials : /\ w = [ c EXCEPT !.pending = None, !.tokens = c.conn ]
                                          /\ w.conn = c.conn /\ w.tokens = c.conn /\ w.pending = None
    BY CredentialFields
  <2>2. PICK q \in Commands!RequestStates : /\ FitsRequest(q) /\ req' = [ req EXCEPT ![r] = q ]
    <3>1. FitsRequest([ Commands!Idle EXCEPT !.at = "read", !.set = "auth_success" ])
      BY DEF FitsRequest, Commands!Idle, Holding
    <3> QED
      BY <1>7, <3>1, IdleIsRequest DEF Commands!Store, Commands!Updates, Commands!Statuses
  <2>3. Commands!PersistTokens(w) /\ AttemptsKept
    BY <1>1, <1>4, <1>7, <2>1 DEF Commands!Store
  <2>4. Fits(w)'
    BY <2>1 DEF Fits
  <2>5. FitsRequest(q)'
    BY <2>2, <2>3, FitsRequestStays
  <2> QED
    BY <1>1, <1>7, <2>2, <2>3, <2>4, <2>5, PersistKeeps DEF Commands!Store
<1>8. CASE Commands!Keep(r)
  <2>1. Commands!PersistTokens(c) /\ AttemptsKept /\ req' = [ req EXCEPT ![r] = Commands!Idle ]
    BY <1>1, <1>4, <1>8 DEF Commands!Keep, Commands!Ends
  <2> QED
    BY <1>1, <1>2, <1>3, <1>8, <2>1, PersistKeeps DEF Commands!Keep
<1> QED
  BY <1>5, <1>6, <1>7, <1>8

\* Attempts are asked for, answered, granted and given up.
LEMMA AttemptsKeep ==
  ASSUME CommandInv,
         \/ \E r \in Requests, n \in Commands!Attempts : Commands!DeviceCode(r, n)
         \/ \E r \in Requests : Commands!Granted(r)
         \/ \E n \in Commands!Attempts : Commands!SignIn(n) \/ Commands!Expire(n)
  PROVE  CommandInv'
<1>0. /\ row \in Commands!Rows /\ import \in Imports /\ stranded \in BOOLEAN /\ faults \in 0 .. Budget
      /\ req \in [ Requests -> Commands!RequestStates ] /\ None \notin Commands!Attempts
      /\ \A r \in Requests : FitsRequest(req[r])
  BY AdministrationAssumption DEF CommandInv, Commands!TypeOK, Imports, Commands!CommandAssumption
<1>1. PICK c \in Commands!Credentials : c = row.cred /\ Fits(c)
  BY <1>0 DEF CommandInv, Commands!Rows
<1>2. AttemptsKept => Fits(c)'
  BY <1>1, FitsStays
<1>3. ASSUME NEW r \in Requests, NEW q \in Commands!RequestStates, req' = [ req EXCEPT ![r] = q ],
      ~ Commands!At(r, "trigger"),
             AttemptsKept, FitsRequest(q)', UNCHANGED << row, import, stranded, faults >>
      PROVE  CommandInv'
  <2>1. Commands!AuthorizedHasImport'
    BY <1>3, ImportStays
  <2>2. Rest
    BY <1>0, <1>1, <1>2, <1>3, <2>1 DEF Rest, CommandInv
  <2> QED
    BY <1>3, <2>2, RequestKeepsInv
<1>4. ASSUME NEW r \in Requests, NEW n \in Commands!Attempts, Commands!DeviceCode(r, n) PROVE CommandInv'
  <2>1. req[r].at = "ask" /\ req[r].cred \in Commands!Credentials /\ Commands!Fresh(n) /\ ~ Commands!At(r, "trigger")
    BY <1>0, <1>4 DEF Commands!DeviceCode, FitsRequest, Holding, Commands!At
  <2>2. attempts' = [ attempts EXCEPT ![n] = [ flow |-> "device_code", conn |-> req[r].cred.conn, state |-> "open" ] ]
    BY <1>4 DEF Commands!DeviceCode
  <2>3. req[r].cred.conn \in Connections /\ "device_code" \in Commands!Flows
    BY <2>1 DEF Commands!Credentials, Commands!Flows
  <2>4. AttemptsKept /\ attempts'[n].conn = req[r].cred.conn /\ attempts'[n].state # "unasked"
    BY <2>1, <2>2, <2>3, FreshAttempt
  <2>5. PICK q \in Commands!RequestStates : /\ q = [ req[r] EXCEPT !.at = "begin", !.attempt = n ]
                                            /\ q.at = "begin" /\ q.attempt = n /\ q.cred = req[r].cred
                                            /\ q.edits = req[r].edits
    <3>1. [ req[r] EXCEPT !.at = "begin", !.attempt = n ] \in Commands!RequestStates
      BY <1>0, StepIsRequest DEF Commands!Steps
    <3>2. /\ [ req[r] EXCEPT !.at = "begin", !.attempt = n ].at = "begin"
          /\ [ req[r] EXCEPT !.at = "begin", !.attempt = n ].attempt = n
          /\ [ req[r] EXCEPT !.at = "begin", !.attempt = n ].cred = req[r].cred
          /\ [ req[r] EXCEPT !.at = "begin", !.attempt = n ].edits = req[r].edits
      BY <1>0 DEF Commands!RequestStates
    <3> QED
      BY <3>1, <3>2
  <2>6. req' = [ req EXCEPT ![r] = q ]
    BY <1>0, <1>4, <2>5 DEF Commands!DeviceCode
  <2>7. PICK old \in Commands!RequestStates : old = req[r] /\ FitsRequest(old)
    BY <1>0
  <2>8. FitsRequest(old)'
    BY <2>4, <2>7, FitsRequestStays
  <2>9. FitsRequest(q)'
    BY <2>1, <2>4, <2>5, <2>7, <2>8 DEF FitsRequest, Holding
  <2> QED
    BY <1>3, <1>4, <2>1, <2>4, <2>6, <2>9 DEF Commands!DeviceCode
<1>5. ASSUME NEW r \in Requests, Commands!Granted(r) PROVE CommandInv'
  <2>1. req[r].at = "exchange" /\ req[r].cred \in Commands!Credentials /\ ~ Commands!At(r, "trigger")
        /\ Commands!Attempt(r) \in Commands!Attempts
    BY <1>0, <1>5 DEF Commands!Granted, FitsRequest, Holding, Commands!At, Commands!Attempt, Commands!Credentials
  <2>2. AttemptsKept
    BY <1>5, <2>1, AskedAttempt DEF Commands!Granted
  <2>3. PICK q \in Commands!RequestStates : /\ q = [ req[r] EXCEPT !.at = "store" ]
                                            /\ q.at = "store" /\ q.cred = req[r].cred /\ q.edits = req[r].edits
    <3>1. [ req[r] EXCEPT !.at = "store" ] \in Commands!RequestStates
      BY <1>0, StepIsRequest DEF Commands!Steps
    <3>2. /\ [ req[r] EXCEPT !.at = "store" ].at = "store"
          /\ [ req[r] EXCEPT !.at = "store" ].cred = req[r].cred
          /\ [ req[r] EXCEPT !.at = "store" ].edits = req[r].edits
      BY <1>0 DEF Commands!RequestStates
    <3> QED
      BY <3>1, <3>2
  <2>4. req' = [ req EXCEPT ![r] = q ]
    BY <1>5, <2>3 DEF Commands!Granted, Commands!GoesTo
  <2>5. FitsRequest(q)
    BY <1>0, <2>1, <2>3 DEF FitsRequest, Holding
  <2>6. FitsRequest(q)'
    BY <2>2, <2>5, FitsRequestStays
  <2> QED
    BY <1>3, <1>5, <2>1, <2>2, <2>4, <2>6 DEF Commands!Granted
<1>6. ASSUME NEW n \in Commands!Attempts, Commands!SignIn(n) \/ Commands!Expire(n) PROVE CommandInv'
  <2>1. AttemptsKept
    BY <1>6, AskedAttempt DEF Commands!SignIn, Commands!Expire
  <2>2. UNCHANGED << row, req, import, stranded, faults >>
    BY <1>6 DEF Commands!SignIn, Commands!Expire
  <2>3. \A p \in Requests : FitsRequest(req[p])'
    <3> SUFFICES ASSUME NEW p \in Requests PROVE FitsRequest(req[p])'
      OBVIOUS
    <3>1. PICK q \in Commands!RequestStates : q = req[p] /\ FitsRequest(q)
      BY <1>0
    <3>2. FitsRequest(q)'
      BY <2>1, <3>1, FitsRequestStays
    <3> QED
      BY <2>2, <3>1, <3>2
  <2>4. Commands!AuthorizedHasImport'
    BY <2>2 DEF CommandInv, Commands!AuthorizedHasImport, Commands!At
  <2>5. Fits(row.cred)'
    BY <1>1, <1>2, <2>1, <2>2
  <2>6. Commands!TypeOK'
    BY <2>1, <2>2 DEF CommandInv, Commands!TypeOK, AttemptsKept
  <2> QED
    BY <2>2, <2>3, <2>4, <2>5, <2>6 DEF CommandInv
<1> QED
  BY <1>4, <1>5, <1>6

\* update, from a request's first step to its last.
LEMMA UpdatesKeep ==
  ASSUME CommandInv, NEW r \in Requests,
         \/ \E conn \in Connections : Commands!Edit(r, conn)
         \/ \E status \in { "paused", "active" } : Commands!Command(r, status)
         \/ Commands!UpdateReads(r)
  PROVE  CommandInv'
<1>0. /\ faults \in 0 .. Budget /\ req[r] \in Commands!RequestStates /\ FitsRequest(req[r])
      /\ row.cred \in Commands!Credentials /\ Fits(row.cred) /\ row.status \in Commands!Statuses
  BY DEF CommandInv, Commands!TypeOK, Commands!Rows
<1>1. ASSUME NEW conn \in Connections, Commands!Edit(r, conn) PROVE CommandInv'
  <2> DEFINE m == Commands!Merged(row.cred, conn)
             s == IF row.provider = "oauth_mailbox" /\ conn # row.cred.conn THEN "pending_auth" ELSE None
             q == [ Commands!Idle EXCEPT !.at = "write", !.was = row.status, !.edits = m, !.set = s ]
  <2>1. m \in Commands!Credentials /\ Fits(m)
    BY <1>0 DEF Commands!Merged, Commands!Credentials, Fits
  <2>2. s \in Commands!Statuses \cup {None}
    BY DEF Commands!Statuses
  <2>3. req' = [ req EXCEPT ![r] = q ] /\ ~ Commands!At(r, "trigger") /\ faults' \in 0 .. Budget
    BY <1>1, Struck DEF Commands!Edit, Commands!At
  <2> HIDE DEF m, s
  <2>4. q \in Commands!RequestStates
    BY <1>0, <2>1, <2>2, IdleIsRequest
  <2>5. q.at = "write" /\ q.edits = m
    BY DEF Commands!Idle
  <2> HIDE DEF q
  <2>6. FitsRequest(q)
    BY <2>1, <2>5 DEF FitsRequest, Holding
  <2> QED
    BY <1>1, <2>3, <2>4, <2>6, OnlyRequest DEF Commands!Edit
<1>2. ASSUME NEW status \in { "paused", "active" }, Commands!Command(r, status) PROVE CommandInv'
  BY <1>2, UpdatesKeeps, Struck DEF Commands!Command, Commands!At, Commands!Statuses
<1>3. CASE Commands!UpdateReads(r)
  <2>1. CASE Commands!Ends(r)
    BY <1>0, <1>3, <2>1, EndsKeeps DEF Commands!UpdateReads, Commands!At
  <2>2. CASE req' = [ req EXCEPT ![r].at = "write", ![r].was = row.status ]
    <3> DEFINE q == [ req[r] EXCEPT !.at = "write", !.was = row.status ]
    <3>1. q \in Commands!RequestStates
      BY <1>0, StepIsRequest DEF Commands!Steps
    <3>2. q.at = "write" /\ q.edits = req[r].edits
      BY <1>0 DEF Commands!RequestStates
    <3>3. req' = [ req EXCEPT ![r] = q ] /\ ~ Commands!At(r, "trigger")
      BY <1>3, <2>2 DEF CommandInv, Commands!TypeOK, Commands!UpdateReads, Commands!At
    <3> HIDE DEF q
    <3>4. FitsRequest(q)
      BY <1>0, <3>2 DEF FitsRequest, Holding
    <3> QED
      BY <1>0, <1>3, <3>1, <3>3, <3>4, OnlyRequest DEF Commands!UpdateReads
  <2> QED
    BY <1>3, <2>1, <2>2 DEF Commands!UpdateReads
<1> QED
  BY <1>1, <1>2, <1>3

\* Steps that change the source's status, its row or its import.
LEMMA StatusKeep ==
  ASSUME CommandInv, NEW r \in Requests,
         Commands!Create(r) \/ Commands!TestFails(r) \/ Commands!UpdateWrites(r) \/ Commands!Trigger(r)
            \/ Commands!Delete(r) \/ Commands!Dies(r)
  PROVE  CommandInv'
<1>0. /\ row \in Commands!Rows /\ import \in Imports /\ stranded \in BOOLEAN /\ faults \in 0 .. Budget
      /\ req \in [ Requests -> Commands!RequestStates ]
      /\ FitsRequest(req[r]) /\ req[r] \in Commands!RequestStates /\ row.status \in Commands!Statuses
         /\ None \notin Commands!Statuses
  BY AdministrationAssumption DEF CommandInv, Commands!TypeOK, Imports, Commands!CommandAssumption, Commands!Rows
<1>1. PICK c \in Commands!Credentials : c = row.cred /\ Fits(c)
  BY <1>0 DEF CommandInv, Commands!Rows
<1>2. attempts' = attempts /\ AttemptsKept
  BY AttemptsStay DEF Commands!Create, Commands!TestFails, Commands!UpdateWrites, Commands!Trigger,
       Commands!Delete, Commands!Dies
<1>3. Fits(c)'
  BY <1>1, <1>2, FitsStays
<1>4. FitsRequest(Commands!Idle)' /\ Commands!Idle \in Commands!RequestStates
  BY <1>2, IdleIsRequest, IdleFits, FitsRequestStays
<1>5. ASSUME NEW q \in Commands!RequestStates, FitsRequest(q), req' = [ req EXCEPT ![r] = q ],
             row' \in Commands!Rows, row'.cred = c, UNCHANGED import, stranded' \in BOOLEAN, faults' \in 0 .. Budget,
             Commands!AuthorizedHasImport'
      PROVE  CommandInv'
  <2>1. FitsRequest(q)'
    BY <1>2, <1>5, FitsRequestStays
  <2>2. Rest
    BY <1>0, <1>1, <1>3, <1>5 DEF Rest, CommandInv
  <2> QED
    BY <1>2, <1>5, <2>1, <2>2, RequestKeepsInv
<1>6. CASE Commands!Create(r)
  <2>1. row' \in Commands!Rows /\ row'.cred = c /\ row'.status = "pending_auth"
    <3>1. row' \in Commands!Rows
      BY <1>0, <1>6, Zenon DEF Commands!Create, Commands!Rows, Commands!Statuses
    <3> QED
      BY <1>0, <1>1, <1>6, <3>1 DEF Commands!Create, Commands!Rows
  <2>2. PICK q \in Commands!RequestStates : FitsRequest(q) /\ req' = [ req EXCEPT ![r] = q ]
    <3>1. FitsRequest([ Commands!Idle EXCEPT !.at = "read" ]) /\ FitsRequest([ Commands!Idle EXCEPT !.at = "test" ])
      BY DEF FitsRequest, Commands!Idle, Holding
    <3> QED
      BY <1>6, <3>1, IdleIsRequest DEF Commands!Create, Commands!Steps
  <2>3. Commands!AuthorizedHasImport'
    BY <2>1 DEF Commands!AuthorizedHasImport
  <2> QED
    BY <1>0, <1>5, <1>6, <2>1, <2>2, <2>3 DEF Commands!Create
<1>7. CASE Commands!TestFails(r) \/ Commands!Delete(r)
  <2>1. row' = [ row EXCEPT !.here = FALSE ] /\ faults' \in 0 .. Budget
    BY <1>7, Struck DEF Commands!TestFails, Commands!Delete
  <2>2. row' \in Commands!Rows
    BY <1>0, <2>1, Zenon DEF Commands!Rows
  <2>3. row'.cred = c /\ ~ row'.here
    BY <1>0, <1>1, <2>1 DEF Commands!Rows
  <2>4. Commands!AuthorizedHasImport'
    BY <2>3 DEF Commands!AuthorizedHasImport
  <2>5. req' = [ req EXCEPT ![r] = Commands!Idle ] \/ req' = req
    BY <1>7 DEF Commands!TestFails, Commands!Delete, Commands!Ends
  <2>6. PICK q \in Commands!RequestStates : FitsRequest(q) /\ req' = [ req EXCEPT ![r] = q ]
    BY <1>0, <2>5, IdleIsRequest, IdleFits
  <2> QED
    BY <1>0, <1>5, <1>7, <2>1, <2>2, <2>3, <2>4, <2>6 DEF Commands!TestFails, Commands!Delete
<1>8. CASE Commands!UpdateWrites(r) /\ ~ row.here
  <2>1. req' = [ req EXCEPT ![r] = Commands!Idle ] /\ UNCHANGED << row, import, stranded, faults >>
    BY <1>8 DEF Commands!UpdateWrites, Commands!Ends
  <2>2. Commands!AuthorizedHasImport'
    BY <1>8, <2>1 DEF Commands!AuthorizedHasImport
  <2> QED
    BY <1>0, <1>1, <1>5, <2>1, <2>2, IdleIsRequest, IdleFits
<1>9. CASE Commands!UpdateWrites(r) /\ row.here
  <2> DEFINE status == IF req[r].set = None THEN row.status ELSE req[r].set
             w == IF req[r].edits = None THEN row.cred ELSE req[r].edits
             missed == /\ req[r].set = "auth_success" /\ req[r].was = "auth_success"
                       /\ row.status # "auth_success"
  <2>1. /\ row' = [ row EXCEPT !.status = status, !.cred = w ]
        /\ IF Commands!Authorizes(req[r].was, status) THEN Commands!GoesTo(r, "trigger") ELSE Commands!Ends(r)
        /\ stranded' = (stranded \/ missed)
        /\ Commands!At(r, "write") /\ UNCHANGED << import, faults >>
    BY <1>9 DEF Commands!UpdateWrites
  <2>2. status \in Commands!Statuses
    BY <1>0 DEF Commands!RequestStates
  <2>3. PICK d \in Commands!Credentials : d = w /\ Fits(d)
    BY <1>0, <1>1 DEF FitsRequest
  <2> HIDE DEF w
  <2>4. PICK st \in Commands!Statuses : st = status
    BY <2>2
  <2>5. row' = [ row EXCEPT !.status = st, !.cred = d ]
    BY <2>1, <2>3, <2>4
  <2>6. row' \in Commands!Rows
    BY <1>0, <2>5, Zenon DEF Commands!Rows
  <2>7. row'.cred = d /\ row'.status = st /\ row'.here = row.here
    BY <1>0, <2>5 DEF Commands!Rows
  <2>8. Fits(d)'
    BY <1>2, <2>3, FitsStays
  <2>9. PICK q \in Commands!RequestStates : /\ FitsRequest(q) /\ req' = [ req EXCEPT ![r] = q ]
                                            /\ Commands!Authorizes(req[r].was, status) => q.at = "trigger"
    <3>1. CASE Commands!Authorizes(req[r].was, status)
      <4>1. [ req[r] EXCEPT !.at = "trigger" ] \in Commands!RequestStates
        BY <1>0, StepIsRequest DEF Commands!Steps
      <4>2. PICK q \in Commands!RequestStates : q = [ req[r] EXCEPT !.at = "trigger" ] /\ q.at = "trigger"
            /\ q.edits = req[r].edits
        <5>1. [ req[r] EXCEPT !.at = "trigger" ].at = "trigger"
              /\ [ req[r] EXCEPT !.at = "trigger" ].edits = req[r].edits
          BY <1>0 DEF Commands!RequestStates
        <5> QED
          BY <4>1, <5>1
      <4>3. FitsRequest(q)
        BY <1>0, <4>2 DEF FitsRequest, Holding
      <4>4. req' = [ req EXCEPT ![r] = q ]
        BY <2>1, <3>1, <4>2 DEF Commands!GoesTo
      <4> QED
        BY <4>2, <4>3, <4>4
    <3>2. CASE ~ Commands!Authorizes(req[r].was, status)
      <4>1. req' = [ req EXCEPT ![r] = Commands!Idle ]
        BY <2>1, <3>2 DEF Commands!Ends
      <4> QED
        BY <3>2, <4>1, IdleIsRequest, IdleFits
    <3> QED
      BY <3>1, <3>2
  <2>10. FitsRequest(q)'
    BY <1>2, <2>9, FitsRequestStays
  <2>11. Commands!AuthorizedHasImport'
    <3> SUFFICES ASSUME row'.here, row'.status = "auth_success", ~ stranded'
                 PROVE  import'.job \/ import'.cycles > 0 \/ \E p \in Requests : Commands!At(p, "trigger")'
      BY DEF Commands!AuthorizedHasImport
    <3>1. status = "auth_success" /\ ~ stranded /\ ~ missed /\ row.here
      BY <1>9, <2>1, <2>4, <2>7
    <3>2. CASE req[r].was # "auth_success"
      <4>1. Commands!At(r, "trigger")'
        BY <1>0, <2>9, <3>1, <3>2 DEF Commands!Authorizes, Commands!At
      <4> QED
        BY <4>1
    <3>3. CASE req[r].was = "auth_success"
      <4>1. row.status = "auth_success"
        BY <3>1, <3>3
      <4>2. import.job \/ import.cycles > 0 \/ \E p \in Requests : Commands!At(p, "trigger")
        BY <3>1, <4>1 DEF CommandInv, Commands!AuthorizedHasImport
      <4>3. \A p \in Requests : Commands!At(p, "trigger") => Commands!At(p, "trigger")'
        BY <1>0, <2>1, <2>9 DEF Commands!At
      <4> QED
        BY <2>1, <4>2, <4>3
    <3> QED
      BY <3>2, <3>3
  <2>12. stranded' \in BOOLEAN
    BY <1>0, <2>1
  <2>13. Rest
    BY <1>0, <2>1, <2>6, <2>7, <2>8, <2>11, <2>12 DEF Rest, CommandInv
  <2> QED
    BY <1>2, <2>9, <2>10, <2>13, RequestKeepsInv
<1>10. CASE Commands!Trigger(r)
  <2>1. /\ req' = [ req EXCEPT ![r] = Commands!Idle ] /\ UNCHANGED << row, stranded, faults >>
        /\ import' = IF row.here /\ ~ import.listing THEN [ import EXCEPT !.job = TRUE ] ELSE import
    BY <1>10 DEF Commands!Trigger, Commands!Ends
  <2>2. /\ import' \in Imports /\ import'.listing = import.listing /\ import'.cycles = import.cycles
        /\ row.here => import'.job \/ import'.listing
    <3>1. CASE row.here /\ ~ import.listing
      <4>1. import' = [ import EXCEPT !.job = TRUE ]
        BY <2>1, <3>1
      <4>2. import' \in Imports
        BY <1>0, <4>1, Zenon DEF Imports
      <4>3. import'.job /\ import'.listing = import.listing /\ import'.cycles = import.cycles
        BY <1>0, <4>1 DEF Imports
      <4> QED
        BY <4>2, <4>3
    <3>2. CASE ~ (row.here /\ ~ import.listing)
      BY <1>0, <2>1, <3>2
    <3> QED
      BY <3>1, <3>2
  <2>3. import'.listing => import'.cycles > 0
    BY <2>2 DEF CommandInv
  <2>4. Commands!AuthorizedHasImport'
    BY <2>1, <2>2, <2>3 DEF Commands!AuthorizedHasImport
  <2>5. Rest
    BY <1>0, <1>1, <1>3, <2>1, <2>2, <2>3, <2>4 DEF Rest
  <2> QED
    BY <1>2, <1>4, <2>1, <2>5, RequestKeepsInv
<1>11. CASE Commands!Dies(r)
  <2>1. /\ req' = [ req EXCEPT ![r] = Commands!Idle ] /\ UNCHANGED << row, import >> /\ faults' \in 0 .. Budget
        /\ stranded' = (stranded \/ Commands!At(r, "trigger"))
    BY <1>11, Struck DEF Commands!Dies, Commands!Ends
  <2>2. Commands!AuthorizedHasImport'
    <3>1. \A p \in Requests : p # r /\ Commands!At(p, "trigger") => Commands!At(p, "trigger")'
      BY <1>0, <2>1 DEF Commands!At
    <3> QED
      BY <2>1, <3>1 DEF CommandInv, Commands!AuthorizedHasImport
  <2>3. stranded' \in BOOLEAN
    BY <1>0, <2>1
  <2> QED
    BY <1>0, <1>1, <1>5, <2>1, <2>2, <2>3, IdleIsRequest, IdleFits
<1> QED
  BY <1>6, <1>7, <1>8, <1>9, <1>10, <1>11

\* Imports and cycles.
LEMMA ImportsKeep ==
  ASSUME CommandInv, Commands!Claim \/ Commands!Listed \/ Commands!Sync \/ Commands!CycleEnds
  PROVE  CommandInv'
<1>0. /\ row \in Commands!Rows /\ import \in Imports /\ attempts' = attempts /\ req' = req /\ stranded' = stranded
      /\ faults' = faults /\ AttemptsKept
  BY AttemptsStay DEF CommandInv, Commands!TypeOK, Imports, Commands!Claim, Commands!Listed, Commands!Sync,
       Commands!CycleEnds
<1>1. ASSUME row' \in Commands!Rows, row'.cred = row.cred, import' \in Imports, import'.listing => import'.cycles > 0,
             row'.here /\ row'.status = "auth_success" =>
                 /\ row.here /\ row.status = "auth_success"
                 /\ import.job => import'.job
                 /\ import.cycles > 0 => import'.cycles > 0
      PROVE  CommandInv'
  <2>1. Fits(row.cred)' /\ \A r \in Requests : FitsRequest(req[r])'
    BY <1>0, <1>1 DEF CommandInv, Fits, FitsRequest
  <2>2. Commands!AuthorizedHasImport'
    BY <1>0, <1>1 DEF CommandInv, Commands!AuthorizedHasImport, Commands!At
  <2>3. Commands!TypeOK'
    BY <1>0, <1>1 DEF CommandInv, Commands!TypeOK, Imports
  <2> QED
    BY <1>1, <2>1, <2>2, <2>3 DEF CommandInv
<1>2. ASSUME NEW st \in Commands!Statuses, row' = [ row EXCEPT !.status = st ]
      PROVE  row' \in Commands!Rows /\ row'.cred = row.cred /\ row'.status = st
  <2>1. row' \in Commands!Rows
    BY <1>0, <1>2, Zenon DEF Commands!Rows
  <2> QED
    BY <1>0, <1>2, <2>1 DEF Commands!Rows
<1>3. CASE Commands!Claim
  <2>1. CASE row.here /\ row.status \notin { "importing", "syncing" }
    <3>1. /\ row' = [ row EXCEPT !.status = "importing" ] /\ import.cycles < 2
          /\ import' = [ job |-> FALSE, listing |-> TRUE, cycles |-> import.cycles + 1 ]
      BY <1>3, <2>1 DEF Commands!Claim
    <3>2. row' \in Commands!Rows /\ row'.cred = row.cred /\ row'.status = "importing"
      BY <1>2, <3>1 DEF Commands!Statuses
    <3>3. import.cycles + 1 \in { 0, 1, 2 } /\ import.cycles + 1 > 0
      BY <1>0, <3>1 DEF Imports
    <3> DEFINE n == import.cycles + 1
    <3> HIDE DEF n
    <3>4. import' = [ job |-> FALSE, listing |-> TRUE, cycles |-> n ] /\ n \in { 0, 1, 2 } /\ n > 0
      BY <3>1, <3>3 DEF n
    <3>5. import' \in Imports
      BY <3>4, Zenon DEF Imports
    <3>6. import'.cycles = n
      BY <3>4
    <3> QED
      BY <1>1, <3>2, <3>4, <3>5, <3>6
  <2>2. CASE ~ (row.here /\ row.status \notin { "importing", "syncing" })
    <3>1. row' = row /\ import' = [ import EXCEPT !.job = FALSE ]
      BY <1>3, <2>2 DEF Commands!Claim
    <3>2. import' \in Imports
      BY <1>0, <3>1, Zenon DEF Imports
    <3>3. import'.listing = import.listing /\ import'.cycles = import.cycles
      BY <1>0, <3>1 DEF Imports
    <3> QED
      BY <1>0, <1>1, <2>2, <3>1, <3>2, <3>3 DEF CommandInv
  <2> QED
    BY <2>1, <2>2
<1>4. CASE Commands!Listed
  <2>1. row' = row /\ import' = [ import EXCEPT !.listing = FALSE ]
    BY <1>4 DEF Commands!Listed
  <2>2. import' \in Imports
    BY <1>0, <2>1, Zenon DEF Imports
  <2>3. ~ import'.listing /\ import'.cycles = import.cycles /\ import'.job = import.job
    BY <1>0, <2>1 DEF Imports
  <2> QED
    BY <1>0, <1>1, <2>1, <2>2, <2>3
<1>5. CASE Commands!Sync
  <2> DEFINE n == import.cycles + 1
  <2>1. n \in { 0, 1, 2 } /\ n > 0
    BY <1>0, <1>5 DEF Commands!Sync, Imports
  <2>2. row' = [ row EXCEPT !.status = "syncing" ] /\ import' = [ import EXCEPT !.cycles = n ]
    BY <1>5 DEF Commands!Sync
  <2> HIDE DEF n
  <2>3. import' \in Imports
    BY <1>0, <2>1, <2>2, Zenon DEF Imports
  <2>4. import'.cycles = n
    BY <1>0, <2>2 DEF Imports
  <2>5. row' \in Commands!Rows /\ row'.cred = row.cred /\ row'.status = "syncing"
    BY <1>2, <2>2 DEF Commands!Statuses
  <2> QED
    BY <1>1, <2>1, <2>3, <2>4, <2>5
<1>6. CASE Commands!CycleEnds
  <2> DEFINE n == import.cycles - 1
  <2>1. n \in { 0, 1, 2 } /\ (import.listing => n > 0)
    BY <1>0, <1>6 DEF Commands!CycleEnds, Imports
  <2>2. import' = [ import EXCEPT !.cycles = n ]
    BY <1>6 DEF Commands!CycleEnds
  <2> HIDE DEF n
  <2>3. import' \in Imports
    BY <1>0, <2>1, <2>2, Zenon DEF Imports
  <2>4. import'.cycles = n /\ import'.listing = import.listing
    BY <1>0, <2>2 DEF Imports
  <2>5. CASE row.here /\ row.status # "paused"
    <3>1. PICK st \in { "active", "error" } : row' = [ row EXCEPT !.status = st ]
      BY <1>6, <2>5 DEF Commands!CycleEnds
    <3>2. row' \in Commands!Rows /\ row'.cred = row.cred /\ row'.status = st
      BY <1>2, <3>1 DEF Commands!Statuses
    <3> QED
      BY <1>1, <2>1, <2>3, <2>4, <3>2
  <2>6. CASE ~ (row.here /\ row.status # "paused")
    BY <1>0, <1>1, <1>6, <2>1, <2>3, <2>4, <2>6 DEF Commands!CycleEnds
  <2> QED
    BY <2>5, <2>6
<1> QED
  BY <1>3, <1>4, <1>5, <1>6

LEMMA InitCommandInv == Commands!Init => CommandInv
<1> SUFFICES ASSUME Commands!Init PROVE CommandInv
  OBVIOUS
<1>1. PICK conn \in Connections, provider \in Providers :
         row = [ here |-> FALSE, provider |-> provider, status |-> "pending_auth",
                 cred |-> [ conn |-> conn, tokens |-> None, pending |-> None ] ]
  BY DEF Commands!Init
<1>2. PICK c \in Commands!Credentials : c = row.cred /\ c.tokens = None /\ c.pending = None /\ c.conn = conn
  BY <1>1 DEF Commands!Credentials
<1>3. row \in Commands!Rows /\ ~ row.here
  BY <1>1, <1>2 DEF Commands!Rows, Commands!Statuses
<1>4. import \in Imports /\ ~ import.listing
  <2>1. FALSE \in BOOLEAN /\ 0 \in { 0, 1, 2 }
    OBVIOUS
  <2>2. import = [ job |-> FALSE, listing |-> FALSE, cycles |-> 0 ]
    BY DEF Commands!Init
  <2> QED
    BY <2>1, <2>2, Zenon DEF Imports
<1>5. attempts \in [ Commands!Attempts -> Commands!AttemptStates ]
  <2>1. \A n \in Commands!Attempts : [ flow |-> "auth_code", conn |-> conn,
        state |-> "unasked" ] \in Commands!AttemptStates
    BY DEF Commands!AttemptStates, Commands!Flows
  <2>2. attempts = [ n \in Commands!Attempts |-> [ flow |-> "auth_code", conn |-> conn, state |-> "unasked" ] ]
    BY <1>1 DEF Commands!Init
  <2> QED
    BY <2>1, <2>2
<1>6. req \in [ Requests -> Commands!RequestStates ] /\ \A r \in Requests : FitsRequest(req[r])
  <2>1. req = [ r \in Requests |-> Commands!Idle ]
    BY DEF Commands!Init
  <2> QED
    BY <2>1, IdleIsRequest, IdleFits
<1>7. stranded \in BOOLEAN /\ faults \in 0 .. Budget
  <2>1. 0 \in 0 .. Budget
    BY AdministrationAssumption DEF Commands!CommandAssumption
  <2> QED
    BY <2>1, Zenon DEF Commands!Init
<1>8. Fits(row.cred)
  BY <1>2 DEF Fits
<1> QED
  BY <1>3, <1>4, <1>5, <1>6, <1>7, <1>8 DEF CommandInv, Commands!TypeOK, Imports, Commands!AuthorizedHasImport

LEMMA NextCommandInv == CommandInv /\ [Commands!Next]_Commands!vars => CommandInv'
<1> SUFFICES ASSUME CommandInv, [Commands!Next]_Commands!vars PROVE CommandInv'
  OBVIOUS
<1>1. ASSUME NEW r \in Requests, Commands!Creating(r) \/ Commands!Refreshing(r) \/ Commands!Updating(r)
      \/ Commands!Delete(r) \/ Commands!Dies(r) PROVE CommandInv'
  BY <1>1, AsksKeep, WritesKeep, UpdatesKeep, StatusKeep DEF Commands!Creating, Commands!Refreshing,
     Commands!Updating
<1>2. ASSUME NEW r \in Requests, Commands!Authorizing(r) PROVE CommandInv'
  <2>1. CASE \E n \in Commands!Attempts : Commands!DeviceCode(r, n) \/ Commands!Begin(r, n)
        \/ Commands!Callback(r, n) \/ Commands!CallbackDenied(r, n) \/ Commands!Poll(r, n) \/ Commands!PollExpired(r, n)
    BY <2>1, AsksKeep, WritesKeep, AttemptsKeep
  <2>2. CASE Commands!StartAuthCode(r) \/ Commands!StartDevice(r) \/ Commands!DeviceRefused(r)
        \/ Commands!NotGranted(r) \/ Commands!ExchangeFails(r)
    BY <2>2, AsksKeep
  <2>3. CASE Commands!Drop(r) \/ Commands!Store(r) \/ Commands!Granted(r)
    BY <2>3, WritesKeep, AttemptsKeep
  <2> QED
    BY <1>2, <2>1, <2>2, <2>3 DEF Commands!Authorizing
<1>3. CASE \E n \in Commands!Attempts : Commands!SignIn(n) \/ Commands!Expire(n)
  BY <1>3, AttemptsKeep
<1>4. CASE Commands!Claim \/ Commands!Listed \/ Commands!Sync \/ Commands!CycleEnds
  BY <1>4, ImportsKeep
<1>5. CASE UNCHANGED Commands!vars
  BY <1>5 DEF Commands!vars, CommandInv, Commands!TypeOK, Fits, FitsRequest, Commands!AuthorizedHasImport,
     Commands!At
<1> QED
  BY <1>1, <1>2, <1>3, <1>4, <1>5 DEF Commands!Next

LEMMA CommandInvHolds == CommandInv => Commands!TokensFit /\ Commands!AuthorizedHasImport
  BY DEF CommandInv, Commands!TokensFit, Fits
-----------------------------------------------------------------------------
(* The form: a source that could connect still can, whatever was sent.      *)

\* An open form has no setting, but for what it sends itself, that nobody touched.
FormShape ==
    \/ entry = Form!Closed
    \/ /\ entry = [ open |-> TRUE, connection |-> entry.connection, touched |-> entry.touched, fills |-> entry.fills,
                    config |-> entry.config ]
       /\ \A f \in DOMAIN entry.config : f \in entry.touched \/ f \in Form!Resent(source.type)

FormInv ==
    /\ source = [ type |-> source.type, config |-> source.config, authorized |-> source.authorized,
       edits |-> source.edits ]
    /\ source.type \in Types
    /\ Form!StillConnects
    /\ FormShape

LEMMA FormTypes == Types \subseteq { "generic_imap", "microsoft_365", "google_workspace", "oauth_mailbox",
   "pst_import" }
  BY AdministrationAssumption DEF Form!MergeAssumption

LEMMA ProviderSplit ==
  /\ Form!RequiredFields("generic_imap") = { "host", "username", "password" }
  /\ Form!RequiredFields("microsoft_365") = { "clientId", "clientSecret", "tenantId" }
  /\ Form!RequiredFields("google_workspace") = { "serviceAccountKeyJson", "impersonatedAdminEmail" }
  /\ Form!RequiredFields("pst_import") = {}
  /\ Form!ProviderFields("generic_imap") = { "host", "port", "secure", "allowInsecureCert", "username", "password" }
  /\ Form!ProviderFields("microsoft_365") = { "clientId", "clientSecret", "tenantId" }
  /\ Form!ProviderFields("google_workspace") = { "serviceAccountKeyJson", "impersonatedAdminEmail" }
  /\ Form!ProviderFields("pst_import") = { "uploadedFilePath", "localFilePath" }
  BY DEF Form!RequiredFields, Form!ProviderFields

\* What the dialog of an OAuth mailbox sends of itself, and what a preset adds.
SeededFields ==
    { "secure", "allowInsecureCert", "flow", "preset", "transport", "authorizationEndpoint", "tokenEndpoint",
      "deviceAuthorizationEndpoint", "scopes", "imapHost" }

LEMMA OverDomain ==
  ASSUME NEW values, NEW config
  PROVE  DOMAIN Form!Over(values, config) = DOMAIN values \cup DOMAIN config
  BY DEF Form!Over

LEMMA OnlyDomain ==
  ASSUME NEW f, NEW v
  PROVE  DOMAIN Form!Only(f, v) = {f}
  BY DEF Form!Only

LEMMA AddedDomain ==
  ASSUME NEW f, NEW v, NEW config
  PROVE  DOMAIN Form!Over(Form!Only(f, v), config) = {f} \cup DOMAIN config
<1>1. DOMAIN Form!Over(Form!Only(f, v), config) = DOMAIN Form!Only(f, v) \cup DOMAIN config
  BY OverDomain, Zenon
<1> QED
  BY <1>1, OnlyDomain, Zenon

LEMMA PresetDomain ==
  ASSUME NEW config, NEW preset
  PROVE  /\ DOMAIN Form!Preset(config, preset) \subseteq SeededFields \cup DOMAIN config
         /\ preset = "outlook" => SeededFields \subseteq DOMAIN Form!Preset(config, preset)
              \cup { "secure", "allowInsecureCert", "flow" }
         /\ DOMAIN config \subseteq DOMAIN Form!Preset(config, preset)
<1> DEFINE microsoft == [ f \in { "transport", "authorizationEndpoint", "tokenEndpoint",
                                  "deviceAuthorizationEndpoint", "scopes", "imapHost" } |->
                            IF f = "transport" THEN "graph" ELSE preset ]
           custom == Form!Only("transport", "imap")
           rest == Form!Over(Form!Only("preset", preset), config)
<1>1. Form!Preset(config, preset) = Form!Over(IF preset = "custom" THEN custom ELSE microsoft, rest)
  BY Zenon DEF Form!Preset
<1>2. DOMAIN rest = { "preset" } \cup DOMAIN config
  BY AddedDomain, Zenon
<1>3. DOMAIN custom = { "transport" }
  BY OnlyDomain
<1>4. DOMAIN microsoft = { "transport", "authorizationEndpoint", "tokenEndpoint", "deviceAuthorizationEndpoint",
                           "scopes", "imapHost" }
  OBVIOUS
<1> HIDE DEF microsoft, custom, rest
<1>5. CASE preset = "custom"
  <2>1. DOMAIN Form!Preset(config, preset) = DOMAIN custom \cup DOMAIN rest
    BY <1>1, <1>5, OverDomain, Zenon
  <2> QED
    BY <1>2, <1>3, <1>5, <2>1 DEF SeededFields
<1>6. CASE preset # "custom"
  <2>1. DOMAIN Form!Preset(config, preset) = DOMAIN microsoft \cup DOMAIN rest
    BY <1>1, <1>6, OverDomain, Zenon
  <2> QED
    BY <1>2, <1>4, <2>1 DEF SeededFields
<1> QED
  BY <1>5, <1>6

LEMMA DefaultDomain == DOMAIN Form!FormDefaults = Form!Checkboxes
<1>1. DOMAIN Form!FormDefaults = { "secure" } \cup DOMAIN Form!Only("allowInsecureCert", "off")
  BY AddedDomain, Zenon DEF Form!FormDefaults
<1>2. DOMAIN Form!Only("allowInsecureCert", "off") = { "allowInsecureCert" }
  BY OnlyDomain, Zenon
<1> QED
  BY <1>1, <1>2 DEF Form!Checkboxes

LEMMA ResentIs ==
  ASSUME NEW type
  PROVE  /\ type = "oauth_mailbox" => Form!Resent(type) = SeededFields
         /\ type # "oauth_mailbox" => Form!Resent(type) = Form!Checkboxes
         /\ DOMAIN Form!OpeningConfig(type) = Form!Resent(type)
<1> DEFINE flowed == Form!Over(Form!Only("flow", "auth_code"), Form!FormDefaults)
<1>1. DOMAIN flowed = { "flow", "secure", "allowInsecureCert" }
  <2>1. DOMAIN flowed = { "flow" } \cup DOMAIN Form!FormDefaults
    BY AddedDomain, Zenon
  <2> QED
    BY <2>1, DefaultDomain DEF Form!Checkboxes
<1>2. Form!Seeded(Form!FormDefaults) = Form!Preset(flowed, "outlook")
  BY Zenon DEF Form!Seeded
<1> HIDE DEF flowed
<1>3. DOMAIN Form!Seeded(Form!FormDefaults) = SeededFields
  <2>1. /\ DOMAIN Form!Preset(flowed, "outlook") \subseteq SeededFields \cup DOMAIN flowed
        /\ SeededFields \subseteq DOMAIN Form!Preset(flowed, "outlook") \cup { "secure", "allowInsecureCert", "flow" }
        /\ DOMAIN flowed \subseteq DOMAIN Form!Preset(flowed, "outlook")
    BY PresetDomain
  <2>2. { "flow", "secure", "allowInsecureCert" } \subseteq SeededFields
    BY DEF SeededFields
  <2>3. DOMAIN Form!Preset(flowed, "outlook") = SeededFields
    BY <1>1, <2>1, <2>2
  <2> QED
    BY <1>2, <2>3, Zenon
<1> QED
  BY <1>3, DefaultDomain, Zenon DEF Form!Resent, Form!OpeningConfig

\* The merge keeps what is stored and left blank.
LEMMA MergeKeeps ==
  ASSUME NEW original, NEW incoming, NEW type, NEW f \in Form!ProviderFields(type)
  PROVE  LET merged == Form!MergeProviderCredentials(original, incoming, type).merged
         IN  /\ ~ Form!IsBlank(original, f) => ~ Form!IsBlank(merged, f)
             /\ Form!IsBlank(incoming, f) => Form!Value(merged, f) = Form!Value(original, f)
  BY DEF Form!MergeProviderCredentials, Form!IsBlank, Form!Value, Form!KeepsBlank

LEMMA OAuthKeeps ==
  ASSUME NEW original, NEW incoming, NEW f
  PROVE  LET merged == Form!MergeOAuth(original, incoming)
         IN  /\ f \notin DOMAIN incoming => Form!Value(merged, f) = Form!Value(original, f)
             /\ f = "clientSecret" /\ Form!IsBlank(incoming, f) => Form!Value(merged, f) = Form!Value(original, f)
  BY DEF Form!MergeOAuth, Form!IsBlank, Form!Value, Form!KeepsBlank, Form!Blank

Typical == { "email", "clientId", "authorizationEndpoint", "tokenEndpoint", "scopes" }

LEMMA OAuthFields ==
  ASSUME NEW config
  PROVE  Form!RequiredOAuth(config) \ { "imapHost", "deviceAuthorizationEndpoint" } = Typical
  BY DEF Form!RequiredOAuth, Typical

LEMMA InitForm == Form!Init => FormInv
<1> SUFFICES ASSUME Form!Init PROVE FormInv
  OBVIOUS
<1>0. PICK type \in Types : \E config \in Form!Created(type) :
         source = [ type |-> type, config |-> config, authorized |-> type = "oauth_mailbox", edits |-> 0 ]
  BY DEF Form!Init
<1>1. PICK config \in Form!Created(type) :
         source = [ type |-> type, config |-> config, authorized |-> type = "oauth_mailbox", edits |-> 0 ]
  BY <1>0
<1>2. source.type = type /\ source.config = config
  BY <1>1
<1>3. source = [ type |-> source.type, config |-> source.config, authorized |-> source.authorized,
      edits |-> source.edits ]
  BY <1>1, Zenon
<1>s. FormShape
  BY DEF FormShape, Form!Init
<1>4. CASE type = "oauth_mailbox"
  <2>1. \A f \in Typical : ~ Form!IsBlank(config, f)
    <3>1. CASE \E flow \in { "auth_code", "device_code" } :
                 config = Form!Preset(Form!Over([ f \in { "email", "clientId" } |-> "v1" ],
                    Form!Only("flow", flow)), "outlook")
      BY <3>1 DEF Form!Preset, Form!Over, Form!Only, Form!IsBlank, Form!Value, Form!Blank, Typical
    <3>2. CASE config = Form!Over([ f \in Form!Inputs(type) |-> "v1" ],
                                  Form!Preset(Form!Only("flow", "auth_code"), "custom"))
      <4>1. Typical \subseteq Form!Inputs(type)
        BY <1>4 DEF Form!Inputs, Form!ConnectionFields, Typical
      <4> QED
        BY <3>2, <4>1 DEF Form!Over, Form!IsBlank, Form!Value, Form!Blank
    <3> QED
      BY <1>4, <3>1, <3>2 DEF Form!Created
  <2> QED
    BY <1>2, <1>3, <1>4, <1>s, <2>1, OAuthFields DEF FormInv, Form!StillConnects
<1>5. CASE type = "pst_import"
  <2>1. PICK f \in Form!ProviderFields(type) : config = Form!Only(f, "v1")
    BY <1>5 DEF Form!Created
  <2>2. ~ Form!IsBlank(config, f)
    BY <2>1 DEF Form!Only, Form!IsBlank, Form!Value, Form!Blank
  <2>3. Form!MissingFields(config, type) = {}
    BY <1>5, ProviderSplit DEF Form!MissingFields
  <2> QED
    BY <1>2, <1>3, <1>5, <1>s, <2>1, <2>2, <2>3 DEF FormInv, Form!StillConnects
<1>6. CASE type \notin { "oauth_mailbox", "pst_import" }
  <2>1. PICK boxes \in [ Form!Checkboxes -> { "on", "off" } ] :
          config = Form!Over([ f \in Form!RequiredFields(type) \cup Form!Inputs(type) |-> "v1" ], boxes)
    BY <1>6 DEF Form!Created
  <2>2. \A f \in Form!RequiredFields(type) : ~ Form!IsBlank(config, f)
    BY <2>1 DEF Form!Over, Form!IsBlank, Form!Value, Form!Blank
  <2>3. Form!MissingFields(config, type) = {}
    BY <2>2 DEF Form!MissingFields
  <2> QED
    BY <1>2, <1>3, <1>6, <1>s, <2>3 DEF FormInv, Form!StillConnects
<1> QED
  BY <1>4, <1>5, <1>6

\* A form that is filled in, by hand or by a preset.
LEMMA FillsShape ==
  ASSUME FormInv, entry.open, source' = source,
         NEW config, NEW touched, entry.touched \subseteq touched,
         \A f \in DOMAIN config : f \in DOMAIN entry.config \/ f \in touched \/ f \in Form!Resent(source.type),
         NEW fills, entry' = [ entry EXCEPT !.config = config, !.touched = touched, !.fills = fills ]
  PROVE  FormInv'
<1>1. entry # Form!Closed
  BY DEF Form!Closed
<1>2. /\ entry = [ open |-> TRUE, connection |-> entry.connection, touched |-> entry.touched, fills |-> entry.fills,
                   config |-> entry.config ]
      /\ \A f \in DOMAIN entry.config : f \in entry.touched \/ f \in Form!Resent(source.type)
  BY <1>1 DEF FormInv, FormShape
<1>3. entry' = [ open |-> TRUE, connection |-> entry.connection, touched |-> touched, fills |-> fills,
                 config |-> config ]
  BY <1>2
<1>4. /\ entry' = [ open |-> TRUE, connection |-> entry'.connection, touched |-> entry'.touched,
                    fills |-> entry'.fills, config |-> entry'.config ]
      /\ entry'.config = config /\ entry'.touched = touched
  BY <1>3
<1>5. FormShape'
  BY <1>2, <1>4, Zenon DEF FormShape, Form!Resent
<1> QED
  BY <1>5 DEF FormInv, Form!StillConnects, Form!RequiredOAuth, Form!MissingFields, Form!IsBlank, Form!Value

LEMMA FormStays ==
  ASSUME FormInv, Form!Next, UNCHANGED source
  PROVE  FormInv'
<1>1. CASE entry' = Form!Closed
  BY <1>1 DEF FormInv, FormShape, Form!StillConnects, Form!RequiredOAuth, Form!MissingFields, Form!IsBlank,
     Form!Value
<1>2. CASE Form!Open
  <2>1. entry' = [ open |-> TRUE, connection |-> FALSE, touched |-> {}, fills |-> 0,
                   config |-> Form!OpeningConfig(source.type) ]
    BY <1>2 DEF Form!Open
  <2> DEFINE config == Form!OpeningConfig(source.type)
  <2>2. DOMAIN config = Form!Resent(source.type)
    BY ResentIs
  <2> HIDE DEF config
  <2>3. FormShape'
    <3>1. entry' = [ open |-> TRUE, connection |-> FALSE, touched |-> {}, fills |-> 0, config |-> config ]
      BY <2>1 DEF config
    <3>2. /\ entry' = [ open |-> TRUE, connection |-> entry'.connection, touched |-> entry'.touched,
                        fills |-> entry'.fills, config |-> entry'.config ]
          /\ entry'.config = config
      BY <3>1
    <3>3. \A f \in DOMAIN entry'.config : f \in Form!Resent(source'.type)
      BY <2>2, <3>2
    <3> QED
      BY <3>2, <3>3, Zenon DEF FormShape, Form!Resent
  <2> QED
    BY <2>3 DEF FormInv, Form!StillConnects, Form!RequiredOAuth, Form!MissingFields, Form!IsBlank, Form!Value
<1>3. CASE Form!ShowConnection
  <2>1. entry.open /\ entry' = [ entry EXCEPT !.connection = TRUE ]
    BY <1>3 DEF Form!ShowConnection
  <2>2. entry # Form!Closed
    BY <2>1 DEF Form!Closed
  <2>3. entry = [ open |-> TRUE, connection |-> entry.connection, touched |-> entry.touched, fills |-> entry.fills,
                  config |-> entry.config ]
    BY <2>2 DEF FormInv, FormShape
  <2>4. /\ entry' = [ open |-> TRUE, connection |-> entry'.connection, touched |-> entry'.touched,
                      fills |-> entry'.fills, config |-> entry'.config ]
        /\ entry'.config = entry.config /\ entry'.touched = entry.touched
    BY <2>1, <2>3
  <2>5. FormShape'
    BY <2>2, <2>4 DEF FormInv, FormShape, Form!Resent
  <2> QED
    BY <2>5 DEF FormInv, Form!StillConnects, Form!RequiredOAuth, Form!MissingFields, Form!IsBlank, Form!Value
<1>4. ASSUME NEW f, NEW v, Form!Fill(f, v) PROVE FormInv'
  <2> DEFINE config == Form!Over(Form!Only(f, v), entry.config)
             touched == entry.touched \cup {f}
             fills == entry.fills + 1
  <2>1. entry.open /\ entry' = [ entry EXCEPT !.config = config, !.touched = touched, !.fills = fills ]
    BY <1>4 DEF Form!Fill
  <2>2. DOMAIN config = {f} \cup DOMAIN entry.config
    BY AddedDomain, Zenon
  <2>3. entry.touched \subseteq touched /\ \A g \in DOMAIN config : g \in DOMAIN entry.config \/ g \in touched
    BY <2>2
  <2> HIDE DEF config, touched, fills
  <2> QED
    BY <2>1, <2>3, FillsShape
<1>5. ASSUME NEW f, NEW v, Form!ChooseFile(f, v) PROVE FormInv'
  <2> DEFINE config == Form!Over(Form!Only(f, v), Form!FormDefaults)
             touched == entry.touched \cup {f}
             fills == entry.fills + 1
  <2>1. /\ entry.open /\ entry' = [ entry EXCEPT !.config = config, !.touched = touched, !.fills = fills ]
        /\ source.type = "pst_import"
    BY <1>5 DEF Form!ChooseFile
  <2>2. DOMAIN config = {f} \cup Form!Checkboxes
    BY AddedDomain, DefaultDomain, Zenon
  <2>3. entry.touched \subseteq touched /\ \A g \in DOMAIN config : g \in touched \/ g \in Form!Resent(source.type)
    BY <2>1, <2>2, ResentIs
  <2> HIDE DEF config, touched, fills
  <2> QED
    BY <2>1, <2>3, FillsShape
<1>6. ASSUME NEW f, Form!Toggle(f) PROVE FormInv'
  <2> DEFINE config == [ entry.config EXCEPT ![f] = IF @ = "on" THEN "off" ELSE "on" ]
             touched == entry.touched \cup {f}
             fills == entry.fills + 1
  <2>1. entry.open /\ entry' = [ entry EXCEPT !.config = config, !.touched = touched, !.fills = fills ]
    BY <1>6 DEF Form!Toggle
  <2>2. DOMAIN config = DOMAIN entry.config
    OBVIOUS
  <2>3. entry.touched \subseteq touched /\ \A g \in DOMAIN config : g \in DOMAIN entry.config \/ g \in touched
    BY <2>2
  <2> HIDE DEF config, touched, fills
  <2> QED
    BY <2>1, <2>3, FillsShape
<1>7. ASSUME NEW preset, Form!ChoosePreset(preset) PROVE FormInv'
  <2> DEFINE config == Form!Preset(entry.config, preset)
             touched == entry.touched
             fills == entry.fills + 1
  <2>1. entry.open /\ source.type = "oauth_mailbox" /\ entry' = [ entry EXCEPT !.config = config, !.fills = fills ]
    BY <1>7 DEF Form!ChoosePreset
  <2>2. DOMAIN config \subseteq SeededFields \cup DOMAIN entry.config
    BY PresetDomain
  <2>3. \A g \in DOMAIN config : g \in DOMAIN entry.config \/ g \in Form!Resent(source.type)
    BY <2>1, <2>2, ResentIs
  <2>4. entry = [ open |-> TRUE, connection |-> entry.connection, touched |-> entry.touched, fills |-> entry.fills,
                  config |-> entry.config ]
    BY <2>1 DEF FormInv, FormShape, Form!Closed
  <2> HIDE DEF config, fills
  <2>5. entry' = [ entry EXCEPT !.config = config, !.touched = touched, !.fills = fills ]
    BY <2>1, <2>4
  <2>6. entry.touched \subseteq touched
    OBVIOUS
  <2>7. \A g \in DOMAIN config : g \in DOMAIN entry.config \/ g \in touched \/ g \in Form!Resent(source.type)
    BY <2>3
  <2>8. entry.open
    BY <2>1
  <2> HIDE DEF touched
  <2> QED
    BY <2>5, <2>6, <2>7, <2>8, FillsShape
<1>8. ASSUME NEW flow, Form!ChooseFlow(flow) PROVE FormInv'
  <2> DEFINE config == [ entry.config EXCEPT !["flow"] = flow ]
             touched == entry.touched
             fills == entry.fills + 1
  <2>1. entry.open /\ entry' = [ entry EXCEPT !.config = config, !.fills = fills ]
    BY <1>8 DEF Form!ChooseFlow
  <2>2. DOMAIN config = DOMAIN entry.config
    OBVIOUS
  <2>4. entry = [ open |-> TRUE, connection |-> entry.connection, touched |-> entry.touched, fills |-> entry.fills,
                  config |-> entry.config ]
    BY <2>1 DEF FormInv, FormShape, Form!Closed
  <2> HIDE DEF config, fills
  <2>5. entry' = [ entry EXCEPT !.config = config, !.touched = touched, !.fills = fills ]
    BY <2>1, <2>4
  <2>6. entry.touched \subseteq touched
    OBVIOUS
  <2>7. \A g \in DOMAIN config : g \in DOMAIN entry.config \/ g \in touched \/ g \in Form!Resent(source.type)
    BY <2>2
  <2>8. entry.open
    BY <2>1
  <2> HIDE DEF touched
  <2> QED
    BY <2>5, <2>6, <2>7, <2>8, FillsShape
<1>9. CASE Form!SubmitRename \/ Form!SubmitConfig \/ Form!SubmitOAuth
  BY <1>1, <1>9 DEF Form!SubmitRename, Form!SubmitConfig, Form!SubmitOAuth
<1>10. CASE Form!Authorize
  BY <1>10 DEF Form!Authorize, FormInv, FormShape, Form!StillConnects, Form!RequiredOAuth, Form!MissingFields,
     Form!IsBlank, Form!Value, Form!Resent
<1>11. CASE Form!Close
  BY <1>1, <1>11 DEF Form!Close
<1> QED
  BY <1>2, <1>3, <1>4, <1>5, <1>6, <1>7, <1>8, <1>9, <1>10, <1>11 DEF Form!Next

LEMMA FormSteps ==
  ASSUME FormInv, Form!Next
  PROVE  FormInv' /\ Form!KeepsSettings
<1>1. CASE source'.config = source.config /\ source'.type = source.type
      /\ source' = [ type |-> source'.type, config |-> source'.config, authorized |-> source'.authorized,
      edits |-> source'.edits ] /\ FormShape'
  <2>1. Form!KeepsSettings
    BY <1>1 DEF Form!KeepsSettings, Form!Value
  <2>2. FormInv'
    BY <1>1 DEF FormInv, Form!StillConnects, Form!RequiredOAuth, Form!MissingFields, Form!IsBlank, Form!Value
  <2> QED
    BY <2>1, <2>2
<1>2. CASE Form!SubmitConfig
  <2> DEFINE result == Form!MergeProviderCredentials(source.config, entry.config, source.type)
  <2>1. result.ok /\ source' = [ source EXCEPT !.config = result.merged, !.edits = @ + 1 ]
        /\ source.type # "oauth_mailbox" /\ entry.open /\ entry' = Form!Closed
    BY <1>2 DEF Form!SubmitConfig
  <2>2. source'.config = result.merged /\ source'.type = source.type
    BY <2>1 DEF FormInv
  <2>3. \A f \in Form!ProviderFields(source.type) :
          /\ ~ Form!IsBlank(source.config, f) => ~ Form!IsBlank(source'.config, f)
          /\ Form!IsBlank(entry.config, f) => Form!Value(source'.config, f) = Form!Value(source.config, f)
    BY <2>2, MergeKeeps
  <2>4. Form!KeepsSettings
    <3> SUFFICES ASSUME NEW f \in Form!Settings(source.type) \ Form!Resent(source.type), ~ Form!IsBlank(entry.config, f)
                 PROVE  f \in entry.touched
      BY <2>1, <2>3 DEF Form!KeepsSettings, Form!Settings
    <3>1. f \in DOMAIN entry.config
      BY DEF Form!IsBlank, Form!Value
    <3> QED
      BY <2>1, <3>1 DEF FormInv, FormShape, Form!Closed
  <2>5. Form!MissingFields(source'.config, source'.type) = {}
    BY <2>1, <2>2 DEF Form!MergeProviderCredentials
  <2>6. source'.type = "pst_import" => \E f \in Form!ProviderFields("pst_import") : ~ Form!IsBlank(source'.config, f)
    BY <2>1, <2>2, <2>3 DEF FormInv, Form!StillConnects
  <2>7. source' = [ type |-> source'.type, config |-> source'.config, authorized |-> source'.authorized,
        edits |-> source'.edits ]
    BY <2>1, Zenon DEF FormInv
  <2> QED
    BY <2>1, <2>2, <2>4, <2>5, <2>6, <2>7 DEF FormInv, FormShape, Form!StillConnects
<1>3. CASE Form!SubmitOAuth
  <2> DEFINE merged == Form!MergeOAuth(source.config, entry.config)
             changed == Form!ConnectionChanged(source.config, merged)
  <2>1. (changed => Form!ValidateOAuth(merged)) /\ source' = [ source EXCEPT !.config = merged, !.authorized = @
        /\ ~ changed, !.edits = @ + 1 ]
        /\ source.type = "oauth_mailbox" /\ entry.open /\ entry' = Form!Closed
    BY <1>3 DEF Form!SubmitOAuth
  <2>2. source'.config = merged /\ source'.type = source.type
    BY <2>1 DEF FormInv
  <2>3. Form!KeepsSettings
    <3> SUFFICES ASSUME NEW f \in Form!Settings(source.type) \ Form!Resent(source.type),
                        Form!Value(source'.config, f) # Form!Value(source.config, f)
                 PROVE  f \in entry.touched /\ (Form!IsBlank(entry.config, f) => f # "clientSecret")
      BY <2>1 DEF Form!KeepsSettings
    <3>1. f \in DOMAIN entry.config /\ (Form!IsBlank(entry.config, f) => f # "clientSecret")
      BY <2>2, OAuthKeeps
    <3> QED
      BY <2>1, <3>1 DEF FormInv, FormShape, Form!Closed
  <2>4. \A f \in Typical : ~ Form!IsBlank(merged, f)
    <3>1. CASE changed
      BY <2>1, <3>1, OAuthFields DEF Form!ValidateOAuth
    <3>2. CASE ~ changed
      <4>1. \A f \in Typical : Form!Value(merged, f) = Form!Value(source.config, f)
        BY <3>2 DEF Form!ConnectionChanged, Form!ConnectionFields, Typical
      <4>2. \A f \in Typical : ~ Form!IsBlank(source.config, f)
        BY <2>1, OAuthFields DEF FormInv, Form!StillConnects
      <4> QED
        BY <4>1, <4>2 DEF Form!IsBlank
    <3> QED
      BY <3>1, <3>2
  <2>5. source' = [ type |-> source'.type, config |-> source'.config, authorized |-> source'.authorized,
        edits |-> source'.edits ]
    BY <2>1, Zenon DEF FormInv
  <2> QED
    BY <2>1, <2>2, <2>3, <2>4, <2>5, OAuthFields DEF FormInv, FormShape, Form!StillConnects
<1>4. CASE UNCHANGED source
  <2>1. FormInv'
    BY <1>4, FormStays
  <2> QED
    BY <1>4, <2>1 DEF Form!KeepsSettings, Form!Value
<1>5. CASE Form!SubmitRename \/ Form!Authorize
  <2>1. PICK a, e : source' = [ type |-> source.type, config |-> source.config, authorized |-> a, edits |-> e ]
    BY <1>5 DEF FormInv, Form!SubmitRename, Form!Authorize
  <2>2. source'.type = source.type
    BY <2>1
  <2>3. FormShape'
    BY <1>5, <2>2 DEF FormInv, FormShape, Form!SubmitRename, Form!Authorize, Form!Resent
  <2> QED
    BY <1>1, <2>1, <2>3
<1> QED
  BY <1>2, <1>3, <1>4, <1>5 DEF Form!Next, Form!Open, Form!Close, Form!ShowConnection, Form!Fill, Form!ChooseFile,
     Form!ChoosePreset, Form!ChooseFlow, Form!Toggle

-----------------------------------------------------------------------------
(* The audit log.  The log that nobody altered is one chain, and a           *)
(* verification that says otherwise walked on behind a page that was not     *)
(* full.  The chain rests on the lock: a writer that has read the latest     *)
(* hash is the only one that may append.                                     *)

WriterPcs == { "idle", "waiting", "locked", "read" }

\* Records of these fields; nothing is said of what a hash is.
WriterOK(w) ==
    /\ writer[w] = [ pc |-> writer[w].pc, payload |-> writer[w].payload, previousHash |-> writer[w].previousHash ]
    /\ writer[w].pc \in WriterPcs

VerifierOK ==
    /\ verifier = [ pc |-> verifier.pc, offset |-> verifier.offset, previousHash |-> verifier.previousHash,
                    pages |-> verifier.pages, outcome |-> verifier.outcome ]
    /\ verifier.offset \in Nat

LogTypes ==
    /\ writer = [ w \in Writers |-> writer[w] ]
    /\ \A w \in Writers : WriterOK(w)
    /\ VerifierOK
    /\ \E S : log \in Seq(S)

Holds(w) == writer[w].pc \in { "locked", "read" }

\* The lock is held by one.
OneHolder == \A v, w \in Writers : Holds(v) /\ Holds(w) => v = w

\* What the holder has read is still the latest hash.
ReadIsLatest == ~ altered => \A w \in Writers : writer[w].pc = "read" => writer[w].previousHash = Audit!LatestHash

\* The hash that a walk goes on from is that of the last entry it has read.
WalkIsOnTheChain ==
    ~ altered /\ verifier.pc = "page" /\ verifier.pages # "short" =>
        /\ verifier.offset <= Len(log)
        /\ verifier.previousHash = IF verifier.offset = 0 THEN NoHash ELSE log[verifier.offset].currentHash

IInv == LogTypes /\ OneHolder /\ ReadIsLatest /\ Audit!OneChain /\ WalkIsOnTheChain /\ Audit!BrokenIsExplained

-----------------------------------------------------------------------------
(* Types                                                                      *)

LEMMA InitTypes == Audit!Init => LogTypes
<1> SUFFICES ASSUME Audit!Init PROVE LogTypes
  OBVIOUS
<1>1. \A w \in Writers : WriterOK(w)
  BY DEF Audit!Init, Audit!IdleWriter, Audit!WriterAt, WriterOK, WriterPcs
<1>2. VerifierOK
  BY DEF Audit!Init, Audit!IdleVerifier, VerifierOK
<1>3. log \in Seq({})
  BY DEF Audit!Init
<1> QED
  BY <1>1, <1>2, <1>3 DEF Audit!Init, LogTypes

\* A sequence stays one when it grows, shrinks or is changed.
LEMMA Grown ==
  ASSUME NEW S, NEW s \in Seq(S), NEW e
  PROVE  /\ Append(s, e) \in Seq(S \cup {e})
         /\ Len(Append(s, e)) = Len(s) + 1
         /\ \A i \in 1 .. Len(s) : Append(s, e)[i] = s[i]
         /\ Append(s, e)[Len(s) + 1] = e
<1>1. s \in Seq(S \cup {e})
  <2>1. s = [ i \in 1 .. Len(s) |-> s[i] ] /\ Len(s) \in Nat /\ \A i \in 1 .. Len(s) : s[i] \in S
    OBVIOUS
  <2> QED
    BY <2>1
<1> QED
  BY <1>1, AppendProperties

LEMMA Shrunk ==
  ASSUME NEW S, NEW s \in Seq(S), NEW i \in DOMAIN s
  PROVE  SubSeq(s, 1, i - 1) \o SubSeq(s, i + 1, Len(s)) \in Seq(S)
<1>1. i \in 1 .. Len(s) /\ Len(s) \in Nat
  OBVIOUS
<1>2. SubSeq(s, 1, i - 1) \in Seq(S)
  <2>1. \A k \in 1 .. i - 1 : s[k] \in S
    BY <1>1
  <2> QED
    BY <1>1, <2>1, SubSeqProperties
<1>3. SubSeq(s, i + 1, Len(s)) \in Seq(S)
  <2>1. \A k \in i + 1 .. Len(s) : s[k] \in S
    BY <1>1
  <2> QED
    BY <1>1, <2>1, SubSeqProperties
<1> QED
  BY <1>2, <1>3, ConcatProperties

LEMMA Changed ==
  ASSUME NEW S, NEW s \in Seq(S), NEW i \in DOMAIN s, NEW e
  PROVE  [ s EXCEPT ![i] = e ] \in Seq(S \cup {e})
<1> DEFINE t == [ s EXCEPT ![i] = e ]
<1>1. Len(s) \in Nat /\ DOMAIN s = 1 .. Len(s) /\ \A k \in 1 .. Len(s) : s[k] \in S
  OBVIOUS
<1>2. t \in [ 1 .. Len(s) -> S \cup {e} ]
  BY <1>1
<1> QED
  BY <1>1, <1>2, IsASeq

\* A step of one writer leaves the records of all of them in shape.
LEMMA WriterSteps ==
  ASSUME LogTypes, NEW w \in Writers,
         \/ \E payload \in Payloads : Audit!Begin(w, payload)
         \/ Audit!Lock(w) \/ Audit!GetLatestHash(w) \/ Audit!Commit(w) \/ Audit!Abort(w)
  PROVE  writer' = [ v \in Writers |-> writer'[v] ] /\ \A v \in Writers : WriterOK(v)'
<1>0. writer = [ v \in Writers |-> writer[v] ] /\ \A v \in Writers : WriterOK(v)
  BY DEF LogTypes
<1>1. ASSUME NEW payload \in Payloads, Audit!Begin(w, payload)
      PROVE  writer' = [ v \in Writers |-> writer'[v] ] /\ \A v \in Writers : WriterOK(v)'
  BY <1>0, <1>1 DEF Audit!Begin, Audit!WriterAt, WriterOK, WriterPcs
<1>2. CASE Audit!Lock(w)
  BY <1>0, <1>2 DEF Audit!Lock, Audit!WriterAt, WriterOK, WriterPcs
<1>3. CASE Audit!GetLatestHash(w)
  BY <1>0, <1>3 DEF Audit!GetLatestHash, Audit!WriterAt, WriterOK, WriterPcs
<1>4. CASE Audit!Commit(w) \/ Audit!Abort(w)
  BY <1>0, <1>4 DEF Audit!Commit, Audit!Abort, Audit!IdleWriter, Audit!WriterAt, WriterOK, WriterPcs
<1> QED
  BY <1>1, <1>2, <1>3, <1>4

LEMMA NextTypes == Audit!AuditAssumption /\ LogTypes /\ [Audit!Next]_Audit!vars => LogTypes'
<1> SUFFICES ASSUME Audit!AuditAssumption, LogTypes, [Audit!Next]_Audit!vars PROVE LogTypes'
  OBVIOUS
<1>0. PICK S : log \in Seq(S)
  BY DEF LogTypes
<1>1. ASSUME NEW w \in Writers, Audit!CreateAuditLog(w) PROVE LogTypes'
  <2>1. writer' = [ v \in Writers |-> writer'[v] ] /\ \A v \in Writers : WriterOK(v)'
    BY <1>1, WriterSteps DEF Audit!CreateAuditLog
  <2>2. VerifierOK'
    BY <1>1 DEF Audit!CreateAuditLog, Audit!Begin, Audit!Lock, Audit!GetLatestHash, Audit!Commit, Audit!Abort,
       LogTypes, VerifierOK
  <2>3. CASE UNCHANGED log
    BY <2>1, <2>2, <2>3, <1>0 DEF LogTypes
  <2>4. CASE Audit!Commit(w)
    <3>1. log' \in Seq(S \cup { Audit!Entry(writer[w].payload, writer[w].previousHash) })
      BY <2>4, <1>0, Grown DEF Audit!Commit
    <3> QED
      BY <2>1, <2>2, <3>1 DEF LogTypes
  <2> QED
    BY <1>1, <2>3, <2>4 DEF Audit!CreateAuditLog, Audit!Begin, Audit!Lock, Audit!GetLatestHash, Audit!Abort
<1>2. CASE Audit!Verify
  <2>1. VerifierOK
    BY DEF LogTypes
  <2>2. ASSUME Audit!StartVerification PROVE VerifierOK'
    BY <2>2 DEF Audit!StartVerification, Audit!IdleVerifier, VerifierOK
  <2>3. ASSUME Audit!PageVerifies PROVE VerifierOK'
    <3> DEFINE o == verifier.offset + ChunkSize
               h == Audit!Page[Len(Audit!Page)].currentHash
               q == IF Len(Audit!Page) < ChunkSize THEN "short" ELSE verifier.pages
    <3>1. verifier' = [ verifier EXCEPT !.offset = o, !.previousHash = h, !.pages = q ]
      BY <2>3 DEF Audit!PageVerifies
    <3>2. o \in Nat
      BY <2>1 DEF VerifierOK, Audit!AuditAssumption
    <3> HIDE DEF o, h, q
    <3>3. verifier' = [ pc |-> verifier.pc, offset |-> o, previousHash |-> h, pages |-> q,
          outcome |-> verifier.outcome ]
      BY <2>1, <3>1 DEF VerifierOK
    <3> QED
      BY <3>2, <3>3 DEF VerifierOK
  <2>4. ASSUME Audit!PageIsBroken \/ Audit!LogVerified PROVE VerifierOK'
    BY <2>4 DEF Audit!PageIsBroken, Audit!LogVerified, Audit!IdleVerifier, VerifierOK
  <2>5. VerifierOK'
    BY <1>2, <2>2, <2>3, <2>4 DEF Audit!Verify
  <2> QED
    BY <1>2, <2>5 DEF Audit!Verify, Audit!StartVerification, Audit!PageVerifies, Audit!PageIsBroken,
       Audit!LogVerified, LogTypes, WriterOK
<1>3. CASE Audit!Outside
  <2>1. PICK i \in DOMAIN log : Audit!Delete(i) \/ \E payload \in Payloads : Audit!Alter(i, payload)
    BY <1>3 DEF Audit!Outside
  <2>2. verifier' = Audit!IdleVerifier("none", "full") /\ writer' = writer
    BY <2>1 DEF Audit!Delete, Audit!Alter
  <2>20. VerifierOK'
    BY <2>2 DEF Audit!IdleVerifier, VerifierOK
  <2>3. \E T : log' \in Seq(T)
    <3>1. CASE Audit!Delete(i)
      BY <3>1, <1>0, Shrunk DEF Audit!Delete
    <3>2. ASSUME NEW payload \in Payloads, Audit!Alter(i, payload) PROVE \E T : log' \in Seq(T)
      <4>1. log' = [ log EXCEPT ![i] = [ log[i] EXCEPT !.payload = payload ] ]
        BY <3>2 DEF Audit!Alter
      <4> QED
        BY <4>1, <1>0, Changed
    <3> QED
      BY <2>1, <3>1, <3>2
  <2> QED
    BY <2>2, <2>20, <2>3 DEF LogTypes, WriterOK
<1>4. CASE UNCHANGED Audit!vars
  BY <1>4 DEF Audit!vars, LogTypes, WriterOK, VerifierOK
<1> QED
  BY <1>1, <1>2, <1>3, <1>4 DEF Audit!Next

-----------------------------------------------------------------------------
(* The lock and the chain                                                  *)

LEMMA NextOneHolder == LogTypes /\ OneHolder /\ [Audit!Next]_Audit!vars => OneHolder'
<1> SUFFICES ASSUME LogTypes, OneHolder, [Audit!Next]_Audit!vars PROVE OneHolder'
  OBVIOUS
<1>0. writer = [ v \in Writers |-> writer[v] ] /\ \A v \in Writers : WriterOK(v)
  BY DEF LogTypes
<1>1. ASSUME NEW w \in Writers, Audit!CreateAuditLog(w) PROVE OneHolder'
  <2>1. CASE Audit!Lock(w)
    BY <1>0, <2>1 DEF Audit!Lock, Audit!Locked, Audit!WriterAt, OneHolder, Holds, WriterOK, WriterPcs
  <2>2. CASE Audit!GetLatestHash(w)
    BY <1>0, <2>2 DEF Audit!GetLatestHash, Audit!WriterAt, OneHolder, Holds, WriterOK, WriterPcs
  <2>3. CASE Audit!Commit(w) \/ Audit!Abort(w) \/ \E payload \in Payloads : Audit!Begin(w, payload)
    BY <1>0, <2>3 DEF Audit!Commit, Audit!Abort, Audit!Begin, Audit!IdleWriter, Audit!WriterAt, OneHolder, Holds,
       WriterOK, WriterPcs
  <2> QED
    BY <1>1, <2>1, <2>2, <2>3 DEF Audit!CreateAuditLog
<1>2. CASE Audit!Verify \/ Audit!Outside \/ UNCHANGED Audit!vars
  BY <1>2 DEF Audit!Verify, Audit!StartVerification, Audit!PageVerifies, Audit!PageIsBroken, Audit!LogVerified,
     Audit!Outside, Audit!Delete, Audit!Alter, Audit!vars, OneHolder, Holds
<1> QED
  BY <1>1, <1>2 DEF Audit!Next

\* What nobody altered was not altered before, and changed by an append at most.
LEMMA Unaltered ==
  ASSUME [Audit!Next]_Audit!vars, ~ altered'
  PROVE  ~ altered /\ (UNCHANGED log \/ \E w \in Writers : Audit!Commit(w))
<1>1. ASSUME NEW w \in Writers, Audit!CreateAuditLog(w) PROVE ~ altered /\ (UNCHANGED log \/ Audit!Commit(w))
  BY <1>1 DEF Audit!CreateAuditLog, Audit!Begin, Audit!Lock, Audit!GetLatestHash, Audit!Commit, Audit!Abort
<1>2. CASE Audit!Verify
  BY <1>2 DEF Audit!Verify, Audit!StartVerification, Audit!PageVerifies, Audit!PageIsBroken, Audit!LogVerified
<1>3. CASE Audit!Outside
  BY <1>3 DEF Audit!Outside, Audit!Delete, Audit!Alter
<1>4. CASE UNCHANGED Audit!vars
  BY <1>4 DEF Audit!vars
<1> QED
  BY <1>1, <1>2, <1>3, <1>4 DEF Audit!Next

\* The one place where an entry is written.
LEMMA Committed ==
  ASSUME LogTypes, OneHolder, ReadIsLatest, ~ altered, NEW w \in Writers, Audit!Commit(w)
  PROVE  /\ Len(log) \in Nat /\ Len(log') = Len(log) + 1
         /\ DOMAIN log = 1 .. Len(log) /\ DOMAIN log' = 1 .. Len(log) + 1
         /\ \A i \in 1 .. Len(log) : log'[i] = log[i]
         /\ log'[Len(log) + 1] = Audit!Entry(writer[w].payload, Audit!LatestHash)
<1>0. PICK S : log \in Seq(S)
  BY DEF LogTypes
<1>1. writer[w].previousHash = Audit!LatestHash
  BY DEF Audit!Commit, ReadIsLatest
<1>2. log' = Append(log, Audit!Entry(writer[w].payload, writer[w].previousHash))
  BY DEF Audit!Commit
<1> HIDE DEF Audit!Entry, Audit!LatestHash
<1> QED
  BY <1>0, <1>1, <1>2, Grown

LEMMA NextOneChain == LogTypes /\ OneHolder /\ ReadIsLatest /\ Audit!OneChain /\ [Audit!Next]_Audit!vars =>
   Audit!OneChain'
<1> SUFFICES ASSUME LogTypes, OneHolder, ReadIsLatest, Audit!OneChain, [Audit!Next]_Audit!vars, ~ altered'
      PROVE Audit!OneChain'
  BY DEF Audit!OneChain
<1>1. ~ altered
  BY Unaltered
<1>2. CASE UNCHANGED log
  BY <1>1, <1>2 DEF Audit!OneChain
<1>3. ASSUME NEW w \in Writers, Audit!Commit(w) PROVE Audit!OneChain'
  <2> DEFINE n == Len(log)
  <2>0. PICK S : log \in Seq(S)
    BY DEF LogTypes
  <2>1. /\ n \in Nat /\ DOMAIN log = 1 .. n /\ DOMAIN log' = 1 .. n + 1
        /\ \A i \in 1 .. n : log'[i] = log[i]
        /\ log'[n + 1] = Audit!Entry(writer[w].payload, Audit!LatestHash)
    BY <1>1, <1>3, Committed
  <2>2. Audit!LatestHash = IF n = 0 THEN NoHash ELSE log[n].currentHash
    BY <2>0 DEF Audit!LatestHash
  <2>3. /\ log'[n + 1].previousHash = Audit!LatestHash
        /\ log'[n + 1].currentHash = Audit!Digest(log'[n + 1].payload, log'[n + 1].previousHash)
    BY <2>1 DEF Audit!Entry
  <2>4. \A i \in 1 .. n + 1 :
          /\ log'[i].previousHash = IF i = 1 THEN NoHash ELSE log'[i - 1].currentHash
          /\ log'[i].currentHash = Audit!Digest(log'[i].payload, log'[i].previousHash)
    <3> SUFFICES ASSUME NEW i \in 1 .. n + 1
                 PROVE  /\ log'[i].previousHash = IF i = 1 THEN NoHash ELSE log'[i - 1].currentHash
                        /\ log'[i].currentHash = Audit!Digest(log'[i].payload, log'[i].previousHash)
      OBVIOUS
    <3>1. CASE i = n + 1
      <4>1. n # 0 => log'[n] = log[n] /\ i - 1 = n
        BY <2>1, <3>1
      <4>2. i = 1 <=> n = 0
        BY <2>1, <3>1
      <4> QED
        BY <2>1, <2>2, <2>3, <3>1, <4>1, <4>2
    <3>2. CASE i # n + 1
      <4>1. i \in 1 .. n /\ log'[i] = log[i] /\ (i # 1 => i - 1 \in 1 .. n /\ log'[i - 1] = log[i - 1])
        BY <2>1, <3>2
      <4>2. /\ log[i].previousHash = IF i = 1 THEN NoHash ELSE log[i - 1].currentHash
            /\ log[i].currentHash = Audit!Digest(log[i].payload, log[i].previousHash)
        BY <1>1, <2>1, <4>1 DEF Audit!OneChain
      <4> QED
        BY <4>1, <4>2
    <3> QED
      BY <3>1, <3>2
  <2> QED
    BY <2>1, <2>4 DEF Audit!OneChain
<1> QED
  BY <1>2, <1>3, Unaltered

LEMMA NextReadIsLatest == LogTypes /\ OneHolder /\ ReadIsLatest /\ [Audit!Next]_Audit!vars => ReadIsLatest'
<1> SUFFICES ASSUME LogTypes, OneHolder, ReadIsLatest, [Audit!Next]_Audit!vars, ~ altered',
                    NEW v \in Writers, writer'[v].pc = "read"
             PROVE  writer'[v].previousHash = Audit!LatestHash'
  BY DEF ReadIsLatest
<1>0. writer = [ u \in Writers |-> writer[u] ] /\ \A u \in Writers : WriterOK(u)
  BY DEF LogTypes
<1>1. ~ altered
  BY Unaltered
<1>2. ASSUME NEW w \in Writers, Audit!CreateAuditLog(w) PROVE writer'[v].previousHash = Audit!LatestHash'
  <2>1. CASE Audit!Commit(w)
    <3>1. v # w /\ writer'[v] = writer[v]
      BY <1>0, <2>1 DEF Audit!Commit, Audit!IdleWriter, Audit!WriterAt, WriterOK
    <3> QED
      BY <2>1, <3>1 DEF Audit!Commit, OneHolder, Holds
  <2>2. CASE Audit!GetLatestHash(w)
    <3>1. Audit!LatestHash' = Audit!LatestHash
      BY <2>2 DEF Audit!GetLatestHash, Audit!LatestHash
    <3>2. CASE v = w
      BY <1>0, <2>2, <3>1, <3>2 DEF Audit!GetLatestHash, Audit!WriterAt, WriterOK
    <3>3. CASE v # w
      <4>1. writer'[v] = writer[v]
        BY <1>0, <2>2, <3>3 DEF Audit!GetLatestHash, Audit!WriterAt
      <4> QED
        BY <1>1, <3>1, <4>1 DEF ReadIsLatest
    <3> QED
      BY <3>2, <3>3
  <2>3. CASE Audit!Lock(w) \/ Audit!Abort(w) \/ \E payload \in Payloads : Audit!Begin(w, payload)
    <3>1. Audit!LatestHash' = Audit!LatestHash
      BY <2>3 DEF Audit!Lock, Audit!Abort, Audit!Begin, Audit!LatestHash
    <3>2. writer'[v] = writer[v]
      BY <1>0, <2>3 DEF Audit!Lock, Audit!Abort, Audit!Begin, Audit!IdleWriter, Audit!WriterAt, WriterOK, WriterPcs
    <3> QED
      BY <1>1, <3>1, <3>2 DEF ReadIsLatest
  <2> QED
    BY <1>2, <2>1, <2>2, <2>3 DEF Audit!CreateAuditLog
<1>3. CASE Audit!Verify \/ UNCHANGED Audit!vars
  BY <1>1, <1>3 DEF Audit!Verify, Audit!StartVerification, Audit!PageVerifies, Audit!PageIsBroken,
     Audit!LogVerified, Audit!vars, ReadIsLatest, Audit!LatestHash
<1>4. CASE Audit!Outside
  BY <1>4 DEF Audit!Outside, Audit!Delete, Audit!Alter
<1> QED
  BY <1>2, <1>3, <1>4 DEF Audit!Next

-----------------------------------------------------------------------------
(* The walk                                                                *)

\* What a page of an unaltered log holds, read behind entries that were read.
LEMMA PageOfTheLog ==
  ASSUME Audit!AuditAssumption, LogTypes, verifier.offset <= Len(log)
  PROVE  /\ verifier.offset \in Nat /\ Len(log) \in Nat /\ Len(Audit!Page) \in Nat
               /\ DOMAIN Audit!Page = 1 .. Len(Audit!Page)
         /\ verifier.offset + Len(Audit!Page) <= Len(log)
         /\ Len(Audit!Page) >= ChunkSize => Len(Audit!Page) = ChunkSize
         /\ \A i \in 1 .. Len(Audit!Page) : Audit!Page[i] = log[verifier.offset + i]
<1> DEFINE o == verifier.offset
           n == Len(log)
           last == IF o + ChunkSize <= n THEN o + ChunkSize ELSE n
<1>0. PICK S : log \in Seq(S)
  BY DEF LogTypes
<1>1. o \in Nat /\ n \in Nat /\ o <= n /\ ChunkSize \in Nat \ {0}
  BY <1>0 DEF LogTypes, VerifierOK, Audit!AuditAssumption
<1>2. last \in Nat /\ o <= last /\ last <= n /\ last - o <= ChunkSize
  BY <1>1
<1>3. \A i \in o + 1 .. last : log[i] \in S
  BY <1>0, <1>1, <1>2
<1> HIDE DEF last
<1>4. /\ SubSeq(log, o + 1, last) \in Seq(S)
      /\ Len(SubSeq(log, o + 1, last)) = IF o + 1 <= last THEN last - (o + 1) + 1 ELSE 0
      /\ \A i \in 1 .. last - (o + 1) + 1 : SubSeq(log, o + 1, last)[i] = log[o + 1 + i - 1]
  BY <1>1, <1>2, <1>3, SubSeqProperties
<1>5. Audit!Page = SubSeq(log, o + 1, last)
  BY DEF Audit!Page, last
<1>6. Len(Audit!Page) = last - o
  <2>1. Len(SubSeq(log, o + 1, last)) = last - o
    <3>1. o \in Nat /\ last \in Nat /\ o <= last
      BY <1>1, <1>2
    <3>2. CASE o + 1 <= last
      BY <1>4, <3>1, <3>2
    <3>3. CASE o = last
      BY <1>4, <3>1, <3>3
    <3> QED
      BY <3>1, <3>2, <3>3
  <2> QED
    BY <1>5, <2>1
<1>7. DOMAIN Audit!Page = 1 .. Len(Audit!Page)
  BY <1>4, <1>5
<1>8. ASSUME NEW i \in 1 .. Len(Audit!Page) PROVE Audit!Page[i] = log[o + i]
  <2>1. o + 1 + i - 1 = o + i /\ i \in 1 .. last - (o + 1) + 1
    BY <1>1, <1>2, <1>6
  <2> QED
    BY <2>1, <1>4, <1>5
<1> QED
  BY <1>1, <1>2, <1>6, <1>7, <1>8

\* A walk on the chain finds nothing broken.
LEMMA ChainVerifies ==
  ASSUME Audit!AuditAssumption, LogTypes, Audit!OneChain, WalkIsOnTheChain, ~ altered, verifier.pc = "page",
         verifier.pages # "short"
  PROVE  \A i \in DOMAIN Audit!Page : Audit!Verifies(Audit!Page, i)
<1> DEFINE o == verifier.offset
<1>1. /\ o <= Len(log)
      /\ verifier.previousHash = IF o = 0 THEN NoHash ELSE log[o].currentHash
  BY DEF WalkIsOnTheChain
<1>2. /\ o \in Nat /\ Len(log) \in Nat /\ Len(Audit!Page) \in Nat /\ DOMAIN Audit!Page = 1 .. Len(Audit!Page)
      /\ o + Len(Audit!Page) <= Len(log)
      /\ \A i \in 1 .. Len(Audit!Page) : Audit!Page[i] = log[o + i]
  BY <1>1, PageOfTheLog
<1>3. DOMAIN log = 1 .. Len(log)
  BY DEF LogTypes
<1> SUFFICES ASSUME NEW i \in 1 .. Len(Audit!Page) PROVE Audit!Verifies(Audit!Page, i)
  BY <1>2
<1>4. o + i \in DOMAIN log
  BY <1>2, <1>3
<1>5. /\ Audit!Page[i].previousHash = IF o + i = 1 THEN NoHash ELSE log[(o + i) - 1].currentHash
      /\ Audit!Page[i].currentHash = Audit!Digest(Audit!Page[i].payload, Audit!Page[i].previousHash)
  BY <1>2, <1>4 DEF Audit!OneChain
<1>6. Audit!Predecessor(Audit!Page, i) = IF o + i = 1 THEN NoHash ELSE log[(o + i) - 1].currentHash
  <2>1. CASE i = 1
    <3>1. (o + i = 1 <=> o = 0) /\ (o + i) - 1 = o
      BY <1>2, <2>1
    <3> QED
      BY <1>1, <2>1, <3>1 DEF Audit!Predecessor
  <2>2. CASE i # 1
    <3>1. i - 1 \in 1 .. Len(Audit!Page) /\ o + i # 1 /\ o + (i - 1) = (o + i) - 1
      BY <1>2, <2>2
    <3>2. Audit!Page[i - 1] = log[o + (i - 1)]
      BY <1>2, <3>1
    <3> QED
      BY <2>2, <3>1, <3>2 DEF Audit!Predecessor
  <2> QED
    BY <2>1, <2>2
<1> QED
  BY <1>5, <1>6 DEF Audit!Verifies

LEMMA NextWalk == Audit!AuditAssumption /\ IInv /\ [Audit!Next]_Audit!vars => WalkIsOnTheChain'
<1> SUFFICES ASSUME Audit!AuditAssumption, IInv, [Audit!Next]_Audit!vars, ~ altered', verifier'.pc = "page",
      verifier'.pages # "short"
             PROVE  /\ verifier'.offset <= Len(log')
                    /\ verifier'.previousHash = IF verifier'.offset = 0 THEN NoHash ELSE log'[verifier'.offset].currentHash
  BY DEF WalkIsOnTheChain
<1>0. ~ altered /\ LogTypes /\ OneHolder /\ ReadIsLatest /\ Audit!OneChain /\ WalkIsOnTheChain
  BY Unaltered DEF IInv
<1>00. VerifierOK /\ verifier.offset \in Nat /\ Len(log) \in Nat
  BY <1>0 DEF LogTypes, VerifierOK
<1>1. CASE UNCHANGED << log, verifier >>
  BY <1>0, <1>1 DEF WalkIsOnTheChain
<1>2. ASSUME NEW w \in Writers, Audit!Commit(w)
      PROVE  /\ verifier'.offset <= Len(log')
             /\ verifier'.previousHash = IF verifier'.offset = 0 THEN NoHash ELSE log'[verifier'.offset].currentHash
  <2>1. /\ Len(log') = Len(log) + 1 /\ \A i \in 1 .. Len(log) : log'[i] = log[i]
    BY <1>0, <1>2, Committed
  <2>2. verifier' = verifier
    BY <1>2 DEF Audit!Commit
  <2>3. /\ verifier.offset <= Len(log)
        /\ verifier.previousHash = IF verifier.offset = 0 THEN NoHash ELSE log[verifier.offset].currentHash
    BY <1>0, <2>2 DEF WalkIsOnTheChain
  <2> QED
    BY <1>00, <2>1, <2>2, <2>3
<1>3. CASE Audit!StartVerification
  <2>1. verifier'.offset = 0 /\ verifier'.previousHash = NoHash /\ log' = log
    BY <1>3 DEF Audit!StartVerification, Audit!IdleVerifier
  <2> QED
    BY <1>00, <2>1
<1>4. CASE Audit!PageVerifies
  <2>1. /\ verifier.pc = "page" /\ Audit!Page # << >> /\ log' = log
        /\ verifier'.offset = verifier.offset + ChunkSize
        /\ verifier'.previousHash = Audit!Page[Len(Audit!Page)].currentHash
        /\ verifier.pages # "short" /\ ~ (Len(Audit!Page) < ChunkSize)
    BY <1>00, <1>4 DEF Audit!PageVerifies, VerifierOK
  <2>2. verifier.offset <= Len(log)
    BY <1>0, <2>1 DEF WalkIsOnTheChain
  <2>3. /\ Len(Audit!Page) \in Nat /\ verifier.offset + Len(Audit!Page) <= Len(log)
        /\ Len(Audit!Page) >= ChunkSize => Len(Audit!Page) = ChunkSize
        /\ \A i \in 1 .. Len(Audit!Page) : Audit!Page[i] = log[verifier.offset + i]
    BY <1>0, <2>2, PageOfTheLog
  <2>4. Len(Audit!Page) = ChunkSize /\ ChunkSize \in Nat \ {0}
    BY <2>1, <2>3 DEF Audit!AuditAssumption
  <2>5. Audit!Page[Len(Audit!Page)] = log[verifier.offset + ChunkSize]
    BY <2>3, <2>4
  <2> QED
    BY <1>00, <2>1, <2>3, <2>4, <2>5
<1>5. CASE Audit!PageIsBroken \/ Audit!LogVerified \/ Audit!Outside
  BY <1>5 DEF Audit!PageIsBroken, Audit!LogVerified, Audit!Outside, Audit!Delete, Audit!Alter, Audit!IdleVerifier
<1> QED
  BY <1>1, <1>2, <1>3, <1>4, <1>5 DEF Audit!Next, Audit!CreateAuditLog, Audit!Begin, Audit!Lock,
     Audit!GetLatestHash, Audit!Abort, Audit!Verify, Audit!vars
-----------------------------------------------------------------------------
(* The results                                                             *)

LEMMA NextBrokenIsExplained == Audit!AuditAssumption /\ IInv /\ [Audit!Next]_Audit!vars => Audit!BrokenIsExplained'
<1> SUFFICES ASSUME Audit!AuditAssumption, IInv, [Audit!Next]_Audit!vars PROVE Audit!BrokenIsExplained'
  OBVIOUS
<1>1. CASE UNCHANGED << verifier, altered >>
  BY <1>1 DEF IInv, Audit!BrokenIsExplained
<1>2. CASE Audit!StartVerification \/ Audit!LogVerified \/ Audit!Outside
  BY <1>2 DEF Audit!StartVerification, Audit!LogVerified, Audit!Outside, Audit!Delete, Audit!Alter,
     Audit!IdleVerifier, Audit!BrokenIsExplained
<1>3. CASE Audit!PageVerifies
  <2>1. verifier'.outcome = verifier.outcome /\ altered' = altered
        /\ (verifier.pages = "short" => verifier'.pages = "short")
    BY <1>3 DEF Audit!PageVerifies, IInv, LogTypes, VerifierOK
  <2> QED
    BY <2>1 DEF IInv, Audit!BrokenIsExplained
<1>4. CASE Audit!PageIsBroken
  <2>1. verifier'.pages = verifier.pages /\ altered' = altered
    BY <1>4 DEF Audit!PageIsBroken, Audit!IdleVerifier
  <2>2. ~ altered => verifier.pages = "short"
    BY <1>4, ChainVerifies DEF Audit!PageIsBroken, IInv
  <2> QED
    BY <2>1, <2>2 DEF Audit!BrokenIsExplained
<1> QED
  BY <1>1, <1>2, <1>3, <1>4 DEF Audit!Next, Audit!CreateAuditLog, Audit!Begin, Audit!Lock, Audit!GetLatestHash,
     Audit!Commit, Audit!Abort, Audit!Verify, Audit!vars

LEMMA InitIInv == Audit!Init => IInv
<1> SUFFICES ASSUME Audit!Init PROVE IInv
  OBVIOUS
<1>1. LogTypes
  BY InitTypes
<1>2. OneHolder /\ ReadIsLatest
  BY DEF Audit!Init, Audit!IdleWriter, Audit!WriterAt, OneHolder, ReadIsLatest, Holds
<1>3. Audit!OneChain /\ WalkIsOnTheChain /\ Audit!BrokenIsExplained
  BY DEF Audit!Init, Audit!IdleVerifier, Audit!OneChain, WalkIsOnTheChain, Audit!BrokenIsExplained
<1> QED
  BY <1>1, <1>2, <1>3 DEF IInv

LEMMA Inductive == Audit!AuditAssumption => (Audit!Spec => []IInv)
<1> SUFFICES ASSUME Audit!AuditAssumption PROVE Audit!Spec => []IInv
  OBVIOUS
<1>1. IInv /\ [Audit!Next]_Audit!vars => IInv'
  BY NextTypes, NextOneHolder, NextReadIsLatest, NextOneChain, NextWalk, NextBrokenIsExplained DEF IInv
<1> QED
  BY <1>1, InitIInv, PTL DEF Audit!Spec

\* However many writers append at once, and whichever of them fail, the entries
\* of a log that nobody altered form one chain.
THEOREM LogIsOneChain == Audit!AuditAssumption => (Audit!Spec => []Audit!OneChain)
<1>1. IInv => Audit!OneChain
  BY DEF IInv
<1> QED
  BY <1>1, Inductive, PTL

\* A verification that fails met an altered table, or walked on behind a page
\* that was not full: with the walk stopped there, a failure would always tell
\* of an altered table.
THEOREM FailureIsExplained == Audit!AuditAssumption => (Audit!Spec => []Audit!BrokenIsExplained)
<1>1. IInv => Audit!BrokenIsExplained
  BY DEF IInv
<1> QED
  BY <1>1, Inductive, PTL

-----------------------------------------------------------------------------
(* A verification that succeeds                                            *)

\* What a walk asks of the entry at i.
Linked(i) ==
    /\ log[i].previousHash = IF i = 1 THEN NoHash ELSE log[i - 1].currentHash
    /\ log[i].currentHash = Audit!Digest(log[i].payload, log[i].previousHash)

\* Whoever is about to write has something to say.
HavePayload == \A w \in Writers : writer[w].pc # "idle" => writer[w].payload \in Payloads

\* A row is what was written.
RowsAreEntries == ~ altered => \A i \in DOMAIN log : log[i] = Audit!Entry(log[i].payload, log[i].previousHash)

\* No entry has the hash of the one before it, so that none can be left out unseen.
HashesMoveOn == ~ altered => \A i \in DOMAIN log : log[i].currentHash # log[i].previousHash

\* An alteration leaves an entry that does not verify, and no walk is past it.
BreakAhead ==
    altered => \E i \in DOMAIN log : ~ Linked(i) /\ (verifier.pc = "page" => verifier.offset < i)

\* Before the break, a walk goes on from the entry it has read last.
WalkToTheBreak ==
    altered /\ verifier.pc = "page" =>
        verifier.previousHash = IF verifier.offset = 0 THEN NoHash ELSE log[verifier.offset].currentHash

WInv == IInv /\ HavePayload /\ RowsAreEntries /\ HashesMoveOn /\ BreakAhead /\ WalkToTheBreak /\ Audit!OkMeansWhole

LEMMA NextHavePayload == LogTypes /\ HavePayload /\ [Audit!Next]_Audit!vars => HavePayload'
<1> SUFFICES ASSUME LogTypes, HavePayload, [Audit!Next]_Audit!vars, NEW v \in Writers, writer'[v].pc # "idle"
             PROVE  writer'[v].payload \in Payloads
  BY DEF HavePayload
<1>0. writer = [ u \in Writers |-> writer[u] ] /\ \A u \in Writers : WriterOK(u)
  BY DEF LogTypes
<1>1. ASSUME NEW w \in Writers, NEW payload \in Payloads, Audit!Begin(w, payload) PROVE writer'[v].payload \in Payloads
  BY <1>0, <1>1 DEF Audit!Begin, Audit!WriterAt, HavePayload
<1>2. ASSUME NEW w \in Writers, Audit!Lock(w) \/ Audit!GetLatestHash(w) PROVE writer'[v].payload \in Payloads
  <2>1. writer[w].payload \in Payloads
    BY <1>2 DEF Audit!Lock, Audit!GetLatestHash, HavePayload
  <2> QED
    BY <1>0, <1>2, <2>1 DEF Audit!Lock, Audit!GetLatestHash, Audit!WriterAt, HavePayload
<1>3. ASSUME NEW w \in Writers, Audit!Commit(w) \/ Audit!Abort(w) PROVE writer'[v].payload \in Payloads
  BY <1>0, <1>3 DEF Audit!Commit, Audit!Abort, Audit!IdleWriter, Audit!WriterAt, HavePayload
<1>4. CASE UNCHANGED writer
  BY <1>4 DEF HavePayload
<1> QED
  BY <1>1, <1>2, <1>3, <1>4 DEF Audit!Next, Audit!CreateAuditLog, Audit!Verify, Audit!StartVerification,
     Audit!PageVerifies, Audit!PageIsBroken, Audit!LogVerified, Audit!Outside, Audit!Delete, Audit!Alter,
     Audit!vars

LEMMA NextRowsAreEntries == WInv /\ [Audit!Next]_Audit!vars => RowsAreEntries'
<1> SUFFICES ASSUME WInv, [Audit!Next]_Audit!vars, ~ altered' PROVE RowsAreEntries'
  BY DEF RowsAreEntries
<1>0. ~ altered /\ LogTypes /\ OneHolder /\ ReadIsLatest /\ RowsAreEntries
  BY Unaltered DEF IInv, WInv
<1>1. CASE UNCHANGED log
  BY <1>0, <1>1 DEF RowsAreEntries
<1>2. ASSUME NEW w \in Writers, Audit!Commit(w) PROVE RowsAreEntries'
  <2> DEFINE n == Len(log)
  <2>1. /\ n \in Nat /\ DOMAIN log = 1 .. n /\ DOMAIN log' = 1 .. n + 1
        /\ \A i \in 1 .. n : log'[i] = log[i]
        /\ log'[n + 1] = Audit!Entry(writer[w].payload, Audit!LatestHash)
    BY <1>0, <1>2, Committed
  <2>2. ASSUME NEW i \in DOMAIN log' PROVE log'[i] = Audit!Entry(log'[i].payload, log'[i].previousHash)
    <3>1. CASE i = n + 1
      BY <2>1, <3>1 DEF Audit!Entry
    <3>2. CASE i # n + 1
      <4>1. i \in DOMAIN log /\ log'[i] = log[i]
        BY <2>1, <3>2
      <4> QED
        BY <1>0, <4>1 DEF RowsAreEntries
    <3> QED
      BY <3>1, <3>2
  <2> QED
    BY <2>2 DEF RowsAreEntries
<1> QED
  BY <1>1, <1>2, Unaltered

\* A new hash contains the one before it, down to the first entry's.
LEMMA NextHashesMoveOn == Audit!AuditAssumption /\ WInv /\ [Audit!Next]_Audit!vars => HashesMoveOn'
<1> SUFFICES ASSUME Audit!AuditAssumption, WInv, [Audit!Next]_Audit!vars, ~ altered' PROVE HashesMoveOn'
  BY DEF HashesMoveOn
<1>0. ~ altered /\ LogTypes /\ OneHolder /\ ReadIsLatest /\ Audit!OneChain /\ HashesMoveOn /\ HavePayload
  BY Unaltered DEF IInv, WInv
<1>1. CASE UNCHANGED log
  BY <1>0, <1>1 DEF HashesMoveOn
<1>2. ASSUME NEW w \in Writers, Audit!Commit(w) PROVE HashesMoveOn'
  <2> DEFINE n == Len(log)
             p == writer[w].payload
  <2>1. /\ n \in Nat /\ DOMAIN log = 1 .. n /\ DOMAIN log' = 1 .. n + 1
        /\ \A i \in 1 .. n : log'[i] = log[i]
        /\ log'[n + 1] = Audit!Entry(p, Audit!LatestHash)
    BY <1>0, <1>2, Committed
  <2>2. log'[n + 1].previousHash = Audit!LatestHash /\ log'[n + 1].currentHash = Audit!Digest(p, Audit!LatestHash)
    BY <2>1 DEF Audit!Entry
  <2>3. Audit!Digest(p, Audit!LatestHash) # Audit!LatestHash
    <3>0. PICK S : log \in Seq(S)
      BY <1>0 DEF LogTypes
    <3>1. CASE n = 0
      <4>1. Audit!LatestHash = NoHash
        BY <3>0, <3>1 DEF Audit!LatestHash
      <4>2. p \in Payloads
        BY <1>0, <1>2 DEF Audit!Commit, HavePayload
      <4> QED
        BY <4>1, <4>2 DEF Audit!AuditAssumption
    <3>2. CASE n # 0
      <4>1. Audit!LatestHash = log[n].currentHash /\ n \in DOMAIN log
        BY <2>1, <3>0, <3>2 DEF Audit!LatestHash
      <4>2. log[n].currentHash = Audit!Digest(log[n].payload, log[n].previousHash)
        BY <1>0, <4>1 DEF Audit!OneChain
      <4>3. log[n].currentHash # log[n].previousHash
        BY <1>0, <4>1 DEF HashesMoveOn
      <4> QED
        BY <4>1, <4>2, <4>3 DEF Audit!Digest
    <3> QED
      BY <3>1, <3>2
  <2>4. ASSUME NEW i \in DOMAIN log' PROVE log'[i].currentHash # log'[i].previousHash
    <3>1. CASE i = n + 1
      BY <2>2, <2>3, <3>1
    <3>2. CASE i # n + 1
      <4>1. i \in DOMAIN log /\ log'[i] = log[i]
        BY <2>1, <3>2
      <4> QED
        BY <1>0, <4>1 DEF HashesMoveOn
    <3> QED
      BY <3>1, <3>2
  <2> QED
    BY <2>4 DEF HashesMoveOn
<1> QED
  BY <1>1, <1>2, Unaltered

\* How much of the log a page takes.
PageLast ==
    IF verifier.offset + ChunkSize <= Len(log) THEN verifier.offset + ChunkSize ELSE Len(log)

LEMMA PageLength ==
  ASSUME Audit!AuditAssumption, LogTypes, verifier.offset <= Len(log)
  PROVE  Len(Audit!Page) = PageLast - verifier.offset
<1> DEFINE o == verifier.offset
           n == Len(log)
<1>0. PICK S : log \in Seq(S)
  BY DEF LogTypes
<1>1. o \in Nat /\ n \in Nat /\ o <= n /\ ChunkSize \in Nat \ {0}
  BY <1>0 DEF LogTypes, VerifierOK, Audit!AuditAssumption
<1>2. PageLast \in Nat /\ o <= PageLast /\ PageLast <= n
  BY <1>1 DEF PageLast
<1>3. \A i \in o + 1 .. PageLast : log[i] \in S
  BY <1>0, <1>1, <1>2
<1>4. Len(SubSeq(log, o + 1, PageLast)) = IF o + 1 <= PageLast THEN PageLast - (o + 1) + 1 ELSE 0
  BY <1>1, <1>2, <1>3, SubSeqProperties
<1>5. Audit!Page = SubSeq(log, o + 1, PageLast)
  BY DEF Audit!Page, PageLast
<1> QED
  BY <1>1, <1>2, <1>4, <1>5

\* A changed payload no longer has the hash beside it.
LEMMA AlteredBreaks ==
  ASSUME LogTypes, RowsAreEntries, NEW i \in DOMAIN log, NEW payload \in Payloads, Audit!Alter(i, payload)
  PROVE  i \in DOMAIN log' /\ ~ Linked(i)'
<1> DEFINE p == log[i].payload
           h == log[i].previousHash
<1>0. PICK S : log \in Seq(S)
  BY DEF LogTypes
<1>1. ~ altered /\ payload # p /\ log' = [ log EXCEPT ![i].payload = payload ]
  BY DEF Audit!Alter
<1>2. log[i] = [ payload |-> p, previousHash |-> h, currentHash |-> Audit!Digest(p, h) ]
  BY <1>1 DEF RowsAreEntries, Audit!Entry
<1>3. DOMAIN log' = DOMAIN log /\ log'[i] = [ log[i] EXCEPT !.payload = payload ]
  BY <1>0, <1>1
<1> HIDE DEF p, h
<1>4. log'[i] = [ payload |-> payload, previousHash |-> h, currentHash |-> Audit!Digest(p, h) ]
  BY <1>2, <1>3
<1>5. Audit!Digest(p, h) # Audit!Digest(payload, h)
  BY <1>1 DEF Audit!Digest
<1> HIDE DEF Audit!Digest
<1> QED
  BY <1>3, <1>4, <1>5 DEF Linked

\* Behind a removed entry the next one names a hash that is not there.
LEMMA DeletedBreaks ==
  ASSUME LogTypes, Audit!OneChain, HashesMoveOn, NEW i \in DOMAIN log, Audit!Delete(i)
  PROVE  i \in DOMAIN log' /\ ~ Linked(i)'
<1> DEFINE n == Len(log)
           a == SubSeq(log, 1, i - 1)
           b == SubSeq(log, i + 1, n)
<1>0. PICK S : log \in Seq(S)
  BY DEF LogTypes
<1>1. ~ altered /\ i < n /\ log' = a \o b
  BY DEF Audit!Delete
<1>2. n \in Nat /\ DOMAIN log = 1 .. n /\ i \in 1 .. n /\ i + 1 \in DOMAIN log
  BY <1>0, <1>1
<1>3. \A k \in 1 .. n : log[k] \in S
  BY <1>0
<1>4. a \in Seq(S) /\ Len(a) = i - 1 /\ \A k \in 1 .. i - 1 : a[k] = log[k]
  <2>1. \A k \in 1 .. i - 1 : log[k] \in S
    BY <1>2, <1>3
  <2>2. a \in Seq(S) /\ Len(a) = (IF 1 <= i - 1 THEN i - 1 - 1 + 1 ELSE 0)
        /\ \A k \in 1 .. i - 1 - 1 + 1 : a[k] = log[1 + k - 1]
    BY <1>2, <2>1, SubSeqProperties
  <2> QED
    BY <1>2, <2>2
<1>5. b \in Seq(S) /\ Len(b) = n - i /\ b[1] = log[i + 1]
  <2>1. \A k \in i + 1 .. n : log[k] \in S
    BY <1>2, <1>3
  <2>2. b \in Seq(S) /\ Len(b) = (IF i + 1 <= n THEN n - (i + 1) + 1 ELSE 0)
        /\ \A k \in 1 .. n - (i + 1) + 1 : b[k] = log[i + 1 + k - 1]
    BY <1>2, <2>1, SubSeqProperties
  <2>3. 1 \in 1 .. n - (i + 1) + 1 /\ i + 1 + 1 - 1 = i + 1
    BY <1>1, <1>2
  <2> QED
    BY <1>1, <1>2, <2>2, <2>3
<1> HIDE DEF a, b
<1>6. /\ Len(log') = n - 1 /\ DOMAIN log' = 1 .. n - 1
      /\ log'[i] = log[i + 1]
      /\ i # 1 => log'[i - 1] = log[i - 1]
  <2>1. /\ a \o b \in Seq(S) /\ Len(a \o b) = Len(a) + Len(b)
        /\ \A k \in 1 .. Len(a) + Len(b) : (a \o b)[k] = IF k <= Len(a) THEN a[k] ELSE b[k - Len(a)]
    BY <1>4, <1>5, ConcatProperties
  <2>2. i \in 1 .. Len(a) + Len(b) /\ i - Len(a) = 1 /\ ~ (i <= Len(a))
    BY <1>1, <1>2, <1>4, <1>5
  <2>3. (a \o b)[i] = log[i + 1]
    BY <1>5, <2>1, <2>2
  <2>4. ASSUME i # 1 PROVE (a \o b)[i - 1] = log[i - 1]
    <3>1. i - 1 \in 1 .. Len(a) + Len(b) /\ i - 1 <= Len(a) /\ i - 1 \in 1 .. i - 1
      BY <1>1, <1>2, <1>4, <1>5, <2>4
    <3> QED
      BY <1>4, <2>1, <3>1
  <2>5. Len(a) + Len(b) = n - 1
    BY <1>2, <1>4, <1>5
  <2> QED
    BY <1>1, <2>1, <2>3, <2>4, <2>5
<1>7. log[i + 1].previousHash = log[i].currentHash
  <2>1. i + 1 # 1 /\ (i + 1) - 1 = i
    BY <1>2
  <2> QED
    BY <1>1, <1>2, <2>1 DEF Audit!OneChain
<1>8. log[i].previousHash = IF i = 1 THEN NoHash ELSE log[i - 1].currentHash
  BY <1>1 DEF Audit!OneChain
<1>9. log[i].currentHash # log[i].previousHash
  BY <1>1 DEF HashesMoveOn
<1>10. i \in DOMAIN log'
  <2>1. i \in 1 .. n - 1
    BY <1>1, <1>2
  <2> HIDE DEF n
  <2> QED
    BY <2>1, <1>6
<1> QED
  BY <1>6, <1>7, <1>8, <1>9, <1>10 DEF Linked

\* An append leaves the rows before it.
LEMMA Appended ==
  ASSUME LogTypes, NEW w \in Writers, Audit!Commit(w)
  PROVE  /\ Len(log) \in Nat /\ DOMAIN log = 1 .. Len(log) /\ DOMAIN log' = 1 .. Len(log) + 1
         /\ \A i \in 1 .. Len(log) : log'[i] = log[i]
<1>0. PICK S : log \in Seq(S)
  BY DEF LogTypes
<1>1. log' = Append(log, Audit!Entry(writer[w].payload, writer[w].previousHash))
  BY DEF Audit!Commit
<1> HIDE DEF Audit!Entry
<1> QED
  BY <1>0, <1>1, Grown

\* A page that verifies before the break ends before it, and is full.
LEMMA PageEndsBefore ==
  ASSUME Audit!AuditAssumption, LogTypes, WalkToTheBreak, altered, Audit!PageVerifies,
         NEW i \in DOMAIN log, ~ Linked(i), verifier.offset < i
  PROVE  /\ verifier.offset + ChunkSize < i
         /\ Len(Audit!Page) = ChunkSize
         /\ Audit!Page[Len(Audit!Page)] = log[verifier.offset + ChunkSize]
<1> DEFINE o == verifier.offset
           n == Len(log)
           last == IF o + ChunkSize <= n THEN o + ChunkSize ELSE n
<1>1. o \in Nat /\ n \in Nat /\ i \in 1 .. n /\ ChunkSize \in Nat \ {0}
  BY DEF LogTypes, VerifierOK, Audit!AuditAssumption
<1>2. o <= n
  BY <1>1
<1>3. /\ Len(Audit!Page) \in Nat /\ DOMAIN Audit!Page = 1 .. Len(Audit!Page)
      /\ \A k \in 1 .. Len(Audit!Page) : Audit!Page[k] = log[o + k]
  BY <1>2, PageOfTheLog
<1>4. Len(Audit!Page) = last - o
  BY <1>2, PageLength DEF PageLast
<1>5. o + Len(Audit!Page) < i
  <2> SUFFICES ASSUME i <= o + Len(Audit!Page) PROVE FALSE
    BY <1>1, <1>3
  <2> DEFINE k == i - o
  <2>1. k \in 1 .. Len(Audit!Page) /\ o + k = i
    BY <1>1, <1>3
  <2>2. Audit!Verifies(Audit!Page, k) /\ Audit!Page[k] = log[i]
    BY <1>3, <2>1 DEF Audit!PageVerifies
  <2>3. Audit!Predecessor(Audit!Page, k) = IF i = 1 THEN NoHash ELSE log[i - 1].currentHash
    <3>1. CASE k = 1
      <4>1. (i = 1 <=> o = 0) /\ i - 1 = o
        BY <1>1, <2>1, <3>1
      <4>2. verifier.previousHash = IF o = 0 THEN NoHash ELSE log[o].currentHash
        BY DEF WalkToTheBreak, Audit!PageVerifies
      <4> HIDE DEF k
      <4> QED
        BY <3>1, <4>1, <4>2 DEF Audit!Predecessor
    <3>2. CASE k # 1
      <4>1. k - 1 \in 1 .. Len(Audit!Page) /\ i # 1 /\ o + (k - 1) = i - 1
        BY <1>1, <1>3, <2>1, <3>2
      <4>2. Audit!Page[k - 1] = log[i - 1]
        BY <1>3, <4>1
      <4> HIDE DEF k
      <4> QED
        BY <3>2, <4>1, <4>2 DEF Audit!Predecessor
    <3> QED
      BY <3>1, <3>2
  <2> HIDE DEF k
  <2>4. Linked(i)
    BY <2>2, <2>3 DEF Audit!Verifies, Linked
  <2> QED
    BY <2>4
<1>6. Len(Audit!Page) = ChunkSize
  BY <1>1, <1>4, <1>5
<1> HIDE DEF last
<1> QED
  BY <1>1, <1>3, <1>5, <1>6

\* Where a walk is left when it ends or begins, or the table is altered.
LEMMA Verdicts ==
  /\ Audit!PageIsBroken => verifier'.pc = "idle" /\ verifier'.outcome = "broken"
  /\ Audit!LogVerified => verifier'.pc = "idle" /\ verifier'.outcome = "ok"
  /\ Audit!StartVerification => verifier'.offset = 0 /\ verifier'.previousHash = NoHash /\ verifier'.outcome = "none"
  /\ Audit!Outside => verifier'.pc = "idle" /\ verifier'.outcome = "none"
<1>1. \A outcome, pages :
        /\ Audit!IdleVerifier(outcome, pages).pc = "idle"
        /\ Audit!IdleVerifier(outcome, pages).outcome = outcome
  BY DEF Audit!IdleVerifier
<1>2. Audit!PageIsBroken => verifier' = Audit!IdleVerifier("broken", verifier.pages)
  BY DEF Audit!PageIsBroken
<1>3. Audit!LogVerified => verifier' = Audit!IdleVerifier("ok", verifier.pages)
  BY DEF Audit!LogVerified
<1>4. Audit!Outside => verifier' = Audit!IdleVerifier("none", "full")
  BY DEF Audit!Outside, Audit!Delete, Audit!Alter
<1>5. Audit!StartVerification => verifier' = [ Audit!IdleVerifier("none", "full") EXCEPT !.pc = "page" ]
  BY DEF Audit!StartVerification
<1>6. Audit!StartVerification => verifier'.offset = 0 /\ verifier'.previousHash = NoHash /\ verifier'.outcome = "none"
  BY <1>5 DEF Audit!IdleVerifier
<1>7. Audit!PageIsBroken => verifier'.pc = "idle" /\ verifier'.outcome = "broken"
  BY <1>1, <1>2
<1>8. Audit!LogVerified => verifier'.pc = "idle" /\ verifier'.outcome = "ok"
  BY <1>1, <1>3
<1>9. Audit!Outside => verifier'.pc = "idle" /\ verifier'.outcome = "none"
  BY <1>1, <1>4
<1> QED
  BY <1>6, <1>7, <1>8, <1>9

LEMMA NextBreakAhead == Audit!AuditAssumption /\ WInv /\ [Audit!Next]_Audit!vars => BreakAhead'
<1> SUFFICES ASSUME Audit!AuditAssumption, WInv, [Audit!Next]_Audit!vars, altered'
             PROVE  \E i \in DOMAIN log' : ~ Linked(i)' /\ (verifier'.pc = "page" => verifier'.offset < i)
  BY DEF BreakAhead
<1>0. LogTypes /\ Audit!OneChain /\ RowsAreEntries /\ HashesMoveOn /\ BreakAhead /\ WalkToTheBreak
  BY DEF IInv, WInv
<1>1. CASE Audit!Outside
  <2>1. verifier'.pc = "idle"
    BY <1>1, Verdicts
  <2>2. \E i \in DOMAIN log' : ~ Linked(i)'
    BY <1>0, <1>1, AlteredBreaks, DeletedBreaks DEF Audit!Outside
  <2> QED
    BY <2>1, <2>2
<1>2. CASE altered
  <2>1. PICK i \in DOMAIN log : ~ Linked(i) /\ (verifier.pc = "page" => verifier.offset < i)
    BY <1>0, <1>2 DEF BreakAhead
  <2>2. CASE UNCHANGED log
    <3>1. i \in DOMAIN log' /\ ~ Linked(i)'
      BY <2>1, <2>2 DEF Linked
    <3>2. CASE Audit!StartVerification
      <4>1. verifier'.offset = 0 /\ i \in Nat /\ 0 < i
        BY <1>0, <3>2 DEF Audit!StartVerification, Audit!IdleVerifier, LogTypes
      <4> QED
        BY <3>1, <4>1
    <3>3. CASE Audit!PageVerifies
      <4>1. verifier.offset + ChunkSize < i
        BY <1>0, <1>2, <2>1, <3>3, PageEndsBefore DEF Audit!PageVerifies
      <4>2. verifier'.offset = verifier.offset + ChunkSize
        BY <1>0, <3>3 DEF Audit!PageVerifies, LogTypes, VerifierOK
      <4> QED
        BY <3>1, <4>1, <4>2
    <3>4. CASE Audit!PageIsBroken \/ Audit!LogVerified
      <4>1. verifier'.pc = "idle"
        BY <3>4, Verdicts
      <4> QED
        BY <3>1, <4>1
    <3>5. CASE UNCHANGED verifier
      BY <2>1, <3>1, <3>5
    <3> QED
      BY <1>2, <3>2, <3>3, <3>4, <3>5 DEF Audit!Next, Audit!CreateAuditLog, Audit!Begin, Audit!Lock,
         Audit!GetLatestHash, Audit!Commit, Audit!Abort, Audit!Verify, Audit!Outside, Audit!Delete, Audit!Alter,
         Audit!vars
  <2>3. ASSUME NEW w \in Writers, Audit!Commit(w)
        PROVE  \E j \in DOMAIN log' : ~ Linked(j)' /\ (verifier'.pc = "page" => verifier'.offset < j)
    <3>1. /\ Len(log) \in Nat /\ DOMAIN log = 1 .. Len(log) /\ DOMAIN log' = 1 .. Len(log) + 1
          /\ \A j \in 1 .. Len(log) : log'[j] = log[j]
      BY <1>0, <2>3, Appended
    <3>2. i \in DOMAIN log' /\ log'[i] = log[i] /\ (i # 1 => log'[i - 1] = log[i - 1])
      BY <2>1, <3>1
    <3>3. ~ Linked(i)'
      BY <2>1, <3>2 DEF Linked
    <3> QED
      BY <2>1, <2>3, <3>2, <3>3 DEF Audit!Commit
  <2> QED
    BY <1>2, <2>2, <2>3 DEF Audit!Next, Audit!CreateAuditLog, Audit!Begin, Audit!Lock, Audit!GetLatestHash,
       Audit!Abort, Audit!Verify, Audit!StartVerification, Audit!PageVerifies, Audit!PageIsBroken,
       Audit!LogVerified, Audit!Outside, Audit!Delete, Audit!Alter, Audit!vars
<1> QED
  BY <1>1, <1>2 DEF Audit!Next, Audit!CreateAuditLog, Audit!Begin, Audit!Lock, Audit!GetLatestHash, Audit!Commit,
     Audit!Abort, Audit!Verify, Audit!StartVerification, Audit!PageVerifies, Audit!PageIsBroken, Audit!LogVerified,
     Audit!vars

LEMMA NextWalkToTheBreak == Audit!AuditAssumption /\ WInv /\ [Audit!Next]_Audit!vars => WalkToTheBreak'
<1> SUFFICES ASSUME Audit!AuditAssumption, WInv, [Audit!Next]_Audit!vars, altered', verifier'.pc = "page"
             PROVE  verifier'.previousHash = IF verifier'.offset = 0 THEN NoHash ELSE log'[verifier'.offset].currentHash
  BY DEF WalkToTheBreak
<1>0. LogTypes /\ VerifierOK /\ BreakAhead /\ WalkToTheBreak
  BY DEF IInv, WInv, LogTypes
<1>1. ~ Audit!Outside
  BY Verdicts
<1>2. altered
  BY <1>1 DEF Audit!Next, Audit!CreateAuditLog, Audit!Begin, Audit!Lock, Audit!GetLatestHash, Audit!Commit,
     Audit!Abort, Audit!Verify, Audit!StartVerification, Audit!PageVerifies, Audit!PageIsBroken, Audit!LogVerified,
     Audit!vars
<1>3. CASE UNCHANGED << log, verifier >>
  BY <1>0, <1>2, <1>3 DEF WalkToTheBreak
<1>4. CASE Audit!StartVerification
  BY <1>4 DEF Audit!StartVerification, Audit!IdleVerifier
<1>5. CASE Audit!PageVerifies
  <2>1. PICK i \in DOMAIN log : ~ Linked(i) /\ verifier.offset < i
    BY <1>0, <1>2, <1>5 DEF BreakAhead, Audit!PageVerifies
  <2>2. Audit!Page[Len(Audit!Page)] = log[verifier.offset + ChunkSize]
    BY <1>0, <1>2, <1>5, <2>1, PageEndsBefore
  <2>3. /\ verifier'.offset = verifier.offset + ChunkSize /\ log' = log
        /\ verifier'.previousHash = Audit!Page[Len(Audit!Page)].currentHash
    BY <1>0, <1>5 DEF Audit!PageVerifies, VerifierOK
  <2>4. verifier'.offset # 0
    BY <1>0, <2>3 DEF VerifierOK, Audit!AuditAssumption
  <2> QED
    BY <2>2, <2>3, <2>4
<1>6. CASE Audit!PageIsBroken \/ Audit!LogVerified
  <2>1. verifier'.pc = "idle"
    BY <1>6, Verdicts
  <2> QED
    BY <2>1
<1>7. ASSUME NEW w \in Writers, Audit!Commit(w)
      PROVE  verifier'.previousHash = IF verifier'.offset = 0 THEN NoHash ELSE log'[verifier'.offset].currentHash
  <2>1. verifier' = verifier
    BY <1>7 DEF Audit!Commit
  <2>2. PICK i \in DOMAIN log : verifier.offset < i
    BY <1>0, <1>2, <2>1 DEF BreakAhead
  <2>3. /\ Len(log) \in Nat /\ DOMAIN log = 1 .. Len(log)
        /\ \A j \in 1 .. Len(log) : log'[j] = log[j]
    BY <1>0, <1>7, Appended
  <2>4. verifier.offset # 0 => log'[verifier.offset] = log[verifier.offset]
    BY <1>0, <2>2, <2>3 DEF VerifierOK
  <2>5. verifier.previousHash = IF verifier.offset = 0 THEN NoHash ELSE log[verifier.offset].currentHash
    BY <1>0, <1>2, <2>1 DEF WalkToTheBreak
  <2> QED
    BY <2>1, <2>4, <2>5
<1> QED
  BY <1>1, <1>3, <1>4, <1>5, <1>6, <1>7 DEF Audit!Next, Audit!CreateAuditLog, Audit!Begin, Audit!Lock,
     Audit!GetLatestHash, Audit!Abort, Audit!Verify, Audit!vars

LEMMA NextOkMeansWhole == Audit!AuditAssumption /\ WInv /\ [Audit!Next]_Audit!vars => Audit!OkMeansWhole'
<1> SUFFICES ASSUME Audit!AuditAssumption, WInv, [Audit!Next]_Audit!vars, verifier'.outcome = "ok", altered' PROVE FALSE
  BY DEF Audit!OkMeansWhole
<1>0. LogTypes /\ VerifierOK /\ BreakAhead /\ Audit!OkMeansWhole
  BY DEF IInv, WInv, LogTypes
<1>1. ~ Audit!Outside /\ ~ Audit!StartVerification /\ ~ Audit!PageIsBroken
  BY Verdicts
<1>2. altered
  BY <1>1 DEF Audit!Next, Audit!CreateAuditLog, Audit!Begin, Audit!Lock, Audit!GetLatestHash, Audit!Commit,
     Audit!Abort, Audit!Verify, Audit!PageVerifies, Audit!LogVerified, Audit!vars
<1>3. CASE Audit!LogVerified
  <2>1. PICK i \in DOMAIN log : verifier.offset < i
    BY <1>0, <1>2, <1>3 DEF BreakAhead, Audit!LogVerified
  <2>2. i \in 1 .. Len(log) /\ Len(log) \in Nat /\ verifier.offset \in Nat /\ ChunkSize \in Nat \ {0}
    BY <1>0, <2>1 DEF LogTypes, VerifierOK, Audit!AuditAssumption
  <2>3. verifier.offset <= Len(log)
    BY <2>1, <2>2
  <2>4. Len(Audit!Page) = PageLast - verifier.offset
    BY <1>0, <2>3, PageLength
  <2>5. Len(Audit!Page) # 0
    BY <2>1, <2>2, <2>4 DEF PageLast
  <2>6. Len(Audit!Page) = 0
    BY <1>3 DEF Audit!LogVerified
  <2> QED
    BY <2>5, <2>6
<1>4. CASE UNCHANGED verifier
  BY <1>0, <1>2, <1>4 DEF Audit!OkMeansWhole
<1>5. CASE Audit!PageVerifies
  <2>1. verifier'.outcome = verifier.outcome
    BY <1>0, <1>5 DEF Audit!PageVerifies, VerifierOK
  <2> QED
    BY <1>0, <1>2, <2>1 DEF Audit!OkMeansWhole
<1> QED
  BY <1>1, <1>3, <1>4, <1>5 DEF Audit!Next, Audit!CreateAuditLog, Audit!Begin, Audit!Lock, Audit!GetLatestHash,
     Audit!Commit, Audit!Abort, Audit!Verify, Audit!vars

LEMMA InitWInv == Audit!AuditAssumption /\ Audit!Init => WInv
<1> SUFFICES ASSUME Audit!AuditAssumption, Audit!Init PROVE WInv
  OBVIOUS
<1>1. IInv
  BY InitIInv
<1>2. HavePayload /\ RowsAreEntries /\ HashesMoveOn
  BY DEF Audit!Init, Audit!IdleWriter, Audit!WriterAt, HavePayload, RowsAreEntries, HashesMoveOn
<1>3. BreakAhead /\ WalkToTheBreak /\ Audit!OkMeansWhole
  BY DEF Audit!Init, Audit!IdleVerifier, BreakAhead, WalkToTheBreak, Audit!OkMeansWhole
<1> QED
  BY <1>1, <1>2, <1>3 DEF WInv

LEMMA NextWInv == Audit!AuditAssumption /\ WInv /\ [Audit!Next]_Audit!vars => WInv'
<1> SUFFICES ASSUME Audit!AuditAssumption, WInv, [Audit!Next]_Audit!vars PROVE WInv'
  OBVIOUS
<1>1. IInv /\ LogTypes /\ HavePayload
  BY DEF WInv, IInv
<1>2. IInv'
  BY <1>1, NextTypes, NextOneHolder, NextReadIsLatest, NextOneChain, NextWalk, NextBrokenIsExplained DEF IInv
<1> QED
  BY <1>1, <1>2, NextHavePayload, NextRowsAreEntries, NextHashesMoveOn, NextBreakAhead, NextWalkToTheBreak,
     NextOkMeansWhole DEF WInv

LEMMA WInvHolds == WInv => Audit!OneChain /\ Audit!VerdictIsTrue
  BY DEF WInv, IInv, Audit!VerdictIsTrue

\* A verification that succeeds has met no altered entry and no gap, wherever
\* its pages ended and whatever was appended meanwhile; one that fails tells of
\* an alteration, or walked on behind a page that was not full.
THEOREM VerdictHolds == Audit!AuditAssumption => (Audit!Spec => []Audit!VerdictIsTrue)
<1> SUFFICES ASSUME Audit!AuditAssumption PROVE Audit!Spec => []Audit!VerdictIsTrue
  OBVIOUS
<1>1. Audit!Init => WInv
  BY InitWInv
<1>2. WInv /\ [Audit!Next]_Audit!vars => WInv'
  BY NextWInv
<1>3. WInv => Audit!VerdictIsTrue
  BY WInvHolds
<1> QED
  BY <1>1, <1>2, <1>3, PTL DEF Audit!Spec

-----------------------------------------------------------------------------
(* Signing in: what each request under way may still do to the row.  The     *)
(* phone has the secret it will write, nobody has seen the codes it will     *)
(* write, what it has read of the row is still so unless another request     *)
(* crossed it, and no store forgets a code before it has expired.            *)

Totps == { "totp" } \X Nat \X Nat
Backups == { "backup" } \X Nat \X Nat
Codes == Totps \cup Backups
Ops == { "none", "login", "verify", "setup", "enroll", "disable", "regen" }
FactorPhases == { "none", "sent", "check", "valid", "match", "confirmed", "written", "listed", "disabled", "set",
                  "signed", "challenged", "refused" }

\* A request, with whatever says whether its answer will be seen.
CallOf(Flag) ==
    [ op : Ops, phase : FactorPhases, no : Nat, code : Codes \cup {None}, secret : Nat \cup {None},
      codes : SUBSET Backups, seen : Flag ]
TabOf(Flag) == [ at : { "signin", "mfa", "account" }, step : { "idle", "qr", "codes" }, badge : Flag, stale : Flag ]
Seen(t) == call[t].seen = TRUE
FreshTab(t) == tab[t].stale = FALSE
Badge(t) == tab[t].badge = TRUE

\* What a request holds in each of its phases.
PhasesOf(op) ==
    IF op = "login" THEN { "sent", "challenged", "signed", "refused" }
    ELSE IF op = "verify" THEN { "sent", "check", "valid", "match", "signed", "refused" }
    ELSE IF op = "setup" THEN { "sent", "set" }
    ELSE IF op = "enroll" THEN { "sent", "confirmed", "written", "listed", "refused" }
    ELSE IF op = "disable" THEN { "sent", "valid", "match", "disabled", "refused" }
    ELSE IF op = "regen" THEN { "sent", "valid", "match", "listed", "refused" }
    ELSE { "none" }
FitsTab(t) ==
    /\ call[t].phase \in PhasesOf(call[t].op)
    /\ call[t].op = "enroll" => call[t].code \in Totps
    /\ call[t].op \in { "verify", "disable", "regen" } => call[t].code \in Codes
    /\ call[t].op = "verify" /\ call[t].phase = "valid" => call[t].code \in Totps
    /\ call[t].phase = "match" => call[t].code \in call[t].codes
    /\ call[t].phase \in { "confirmed", "set" } => call[t].secret \in Nat

CallTypes ==
    /\ call \in [ Signing!Callers -> CallOf(BOOLEAN) ]
    /\ \A t \in Tabs : FitsTab(t)
    /\ call[Admin].op = "none" /\ call[Admin].code = None /\ call[Admin].codes = {}
StoreTypes ==
    /\ account \in [ secret : Nat \cup {None}, codes : SUBSET Backups ]
    /\ phone \subseteq Nat /\ noted \subseteq Backups
    /\ available \in { "starting", "up", "gone" }
    /\ pendingIn \in [ { "redis", "memory" } -> Nat \cup {None} ]
    /\ usedIn \in [ { "redis", "memory" } -> SUBSET (Codes \X Nat) ]
    /\ clock \in Nat /\ requests \in Nat
    /\ opened \subseteq (Backups \X {"row"}) \cup (Totps \X { "redis", "memory" })
    /\ crossed \in BOOLEAN /\ unseen \in BOOLEAN
TabTypes == tab \in [ Tabs -> TabOf(BOOLEAN) ]

LEMMA IdleCall ==
  /\ Signing!Idle \in CallOf(BOOLEAN) /\ Signing!Idle.op = "none" /\ Signing!Idle.phase = "none"
     /\ Signing!Idle.code = None
  /\ Signing!Idle.codes = {} /\ Signing!Idle.seen = TRUE
<1>1. \A Flag : \A yes \in Flag :
        LET idle == [ op |-> "none", phase |-> "none", no |-> 0, code |-> None, secret |-> None, codes |-> {},
                      seen |-> yes ]
        IN  idle \in CallOf(Flag) /\ idle.op = "none" /\ idle.phase = "none" /\ idle.code = None
            /\ idle.codes = {} /\ idle.seen = yes
  BY DEF CallOf, Ops, FactorPhases
<1> QED
  BY <1>1, Zenon DEF Signing!Idle

LEMMA PlaceTypes ==
  /\ Signing!SignIn \in TabOf(BOOLEAN)
  /\ [ Signing!SignIn EXCEPT !.at = "mfa" ] \in TabOf(BOOLEAN)
  /\ Signing!Account("idle") \in TabOf(BOOLEAN)
<1>1. \A Flag : \A yes \in Flag, no \in Flag : \A at \in { "signin", "mfa", "account" } :
        [ at |-> at, step |-> "idle", badge |-> yes, stale |-> no ] \in TabOf(Flag)
  BY DEF TabOf
<1>2. \A at \in { "signin", "mfa", "account" } : \A b \in BOOLEAN : 
        [ at |-> at, step |-> "idle", badge |-> b, stale |-> FALSE ] \in TabOf(BOOLEAN)
  BY <1>1, Zenon
<1> DEFINE e == account.secret # None
<1>3. e \in BOOLEAN
  BY Zenon
<1> HIDE DEF e
<1>4. Signing!SignIn \in TabOf(BOOLEAN)
  BY <1>2, Zenon DEF Signing!SignIn
<1>5. [ at |-> "account", step |-> "idle", badge |-> e, stale |-> FALSE ] \in TabOf(BOOLEAN)
  BY <1>2, <1>3, Zenon
<1>6. \A Flag : \A l \in TabOf(Flag) : [ l EXCEPT !.at = "mfa" ] \in TabOf(Flag)
  BY DEF TabOf
<1> QED
  BY <1>4, <1>5, <1>6, Zenon DEF e, Signing!Account, Signing!Enabled

LEMMA CodeTypes ==
  ASSUME Signing!FactorAssumption
  PROVE  /\ \A no \in Nat : Signing!BackupCodes(no) \in SUBSET Backups /\ \A b \in Signing!BackupCodes(no) : b[2] = no
         /\ \A b \in Backups : b[1] = "backup" /\ b[2] \in Nat /\ b \notin Totps
         /\ \A c \in Totps : c[1] = "totp" /\ c[2] \in Nat /\ c[3] \in Nat
         /\ \A s \in Nat, w \in Nat : Signing!Totp(s, w) \in Totps /\ Signing!Totp(s, w)[2] = s
            /\ Signing!Totp(s, w)[3] = w
  BY DEF Signing!FactorAssumption, Signing!BackupCodes, Backups, Totps, Signing!Totp

\* A step of one request: what it keeps, and what it goes to.
Moves(t, phase) ==
    /\ call' \in [ Signing!Callers -> CallOf(BOOLEAN) ]
    /\ \A u \in Signing!Callers : u # t => call'[u] = call[u]
    /\ call'[t].op = call[t].op /\ call'[t].no = call[t].no /\ call'[t].code = call[t].code
    /\ Seen(t)' <=> Seen(t)
    /\ call'[t].phase = phase
KeepsCodes(t) == call'[t].codes = call[t].codes
KeepsSecret(t) == call'[t].secret = call[t].secret

LEMMA GoneStep ==
  ASSUME CallTypes, NEW t \in Signing!Callers, NEW phase \in FactorPhases,
         Signing!Goes(t, phase)
  PROVE  Moves(t, phase) /\ KeepsCodes(t) /\ KeepsSecret(t)
<1>1. \A Flag : \A f \in [ Signing!Callers -> CallOf(Flag) ] :
        LET g == [ f EXCEPT ![t].phase = phase ]
        IN  /\ g \in [ Signing!Callers -> CallOf(Flag) ]
            /\ \A u \in Signing!Callers : u # t => g[u] = f[u]
            /\ g[t].op = f[t].op /\ g[t].no = f[t].no /\ g[t].code = f[t].code /\ g[t].seen = f[t].seen
            /\ g[t].phase = phase /\ g[t].codes = f[t].codes /\ g[t].secret = f[t].secret
  BY DEF CallOf
<1> QED
  BY <1>1, Zenon DEF CallTypes, Signing!Goes, Moves, KeepsCodes, KeepsSecret, Seen

LEMMA GoesWithCodes ==
  ASSUME CallTypes, NEW t \in Signing!Callers, NEW phase \in FactorPhases, NEW codes \in SUBSET Backups,
         call' = [ call EXCEPT ![t].phase = phase, ![t].codes = codes ]
  PROVE  Moves(t, phase) /\ call'[t].codes = codes /\ KeepsSecret(t)
<1>1. \A Flag : \A f \in [ Signing!Callers -> CallOf(Flag) ] :
        LET g == [ f EXCEPT ![t].phase = phase, ![t].codes = codes ]
        IN  /\ g \in [ Signing!Callers -> CallOf(Flag) ]
            /\ \A u \in Signing!Callers : u # t => g[u] = f[u]
            /\ g[t].op = f[t].op /\ g[t].no = f[t].no /\ g[t].code = f[t].code /\ g[t].seen = f[t].seen
            /\ g[t].phase = phase /\ g[t].codes = codes /\ g[t].secret = f[t].secret
  BY DEF CallOf
<1> QED
  BY <1>1, Zenon DEF CallTypes, Signing!Goes, Moves, KeepsCodes, KeepsSecret, Seen

LEMMA GoesWithSecret ==
  ASSUME CallTypes, NEW t \in Signing!Callers, NEW phase \in FactorPhases, NEW secret \in Nat \cup {None},
         call' = [ call EXCEPT ![t].phase = phase, ![t].secret = secret ]
  PROVE  Moves(t, phase) /\ KeepsCodes(t) /\ call'[t].secret = secret
<1>1. \A Flag : \A f \in [ Signing!Callers -> CallOf(Flag) ] :
        LET g == [ f EXCEPT ![t].phase = phase, ![t].secret = secret ]
        IN  /\ g \in [ Signing!Callers -> CallOf(Flag) ]
            /\ \A u \in Signing!Callers : u # t => g[u] = f[u]
            /\ g[t].op = f[t].op /\ g[t].no = f[t].no /\ g[t].code = f[t].code /\ g[t].seen = f[t].seen
            /\ g[t].phase = phase /\ g[t].codes = f[t].codes /\ g[t].secret = secret
  BY DEF CallOf
<1> QED
  BY <1>1, Zenon DEF CallTypes, Signing!Goes, Moves, KeepsCodes, KeepsSecret, Seen

\* A request is sent, or ends.
Asked(t, op, code) ==
    /\ call' \in [ Signing!Callers -> CallOf(BOOLEAN) ]
    /\ \A u \in Signing!Callers : u # t => call'[u] = call[u]
    /\ call'[t].op = op /\ call'[t].no = requests + 1 /\ call'[t].code = code
    /\ call'[t].phase = "sent" /\ call'[t].codes = {} /\ Seen(t)'
    /\ call[t].phase = "none" /\ requests' = requests + 1
Ends(t) ==
    /\ call' \in [ Signing!Callers -> CallOf(BOOLEAN) ]
    /\ \A u \in Signing!Callers : u # t => call'[u] = call[u]
    /\ call'[t] = Signing!Idle

LEMMA AskedStep ==
  ASSUME CallTypes, StoreTypes, NEW t \in Signing!Callers, NEW op \in Ops, NEW code \in Codes \cup {None},
         Signing!Asks(t, op, code)
  PROVE  Asked(t, op, code)
<1>1. \A Flag : \A c \in CallOf(Flag) :
        LET v == [ c EXCEPT !.op = op, !.phase = "sent", !.no = requests + 1, !.code = code ]
        IN  /\ v \in CallOf(Flag)
            /\ v.op = op /\ v.no = requests + 1 /\ v.code = code /\ v.seen = c.seen /\ v.phase = "sent"
               /\ v.codes = c.codes
  <2>1. requests + 1 \in Nat
    BY DEF StoreTypes
  <2>2. "sent" \in FactorPhases
    BY DEF FactorPhases
  <2> QED
    BY <2>1, <2>2 DEF CallOf
<1>2. \A S : \A f \in [ Signing!Callers -> S ] : \A v \in S :
        LET g == [ f EXCEPT ![t] = v ]
        IN  g \in [ Signing!Callers -> S ] /\ (\A u \in Signing!Callers : u # t => g[u] = f[u]) /\ g[t] = v
  OBVIOUS
<1> DEFINE v == [ Signing!Idle EXCEPT !.op = op, !.phase = "sent", !.no = requests + 1, !.code = code ]
<1>3. /\ v \in CallOf(BOOLEAN)
      /\ v.op = op /\ v.no = requests + 1 /\ v.code = code /\ v.seen = TRUE /\ v.phase = "sent" /\ v.codes = {}
  BY <1>1, IdleCall, Zenon
<1>4. call' = [ call EXCEPT ![t] = v ]
  BY Zenon DEF Signing!Asks
<1> HIDE DEF v
<1>7. /\ call' \in [ Signing!Callers -> CallOf(BOOLEAN) ]
      /\ \A u \in Signing!Callers : u # t => call'[u] = call[u]
      /\ call'[t] = v
  BY <1>2, <1>3, <1>4, Zenon DEF CallTypes
<1>5. call[t] = Signing!Idle /\ requests' = requests + 1
  BY Zenon DEF Signing!Asks
<1>6. call[t].phase = "none"
  BY <1>5, IdleCall, Zenon
<1> QED
  BY <1>3, <1>5, <1>6, <1>7, Zenon DEF Asked, Seen

LEMMA EndsStep ==
  ASSUME CallTypes, NEW t \in Signing!Callers, call' = [ call EXCEPT ![t] = Signing!Idle ]
  PROVE  Ends(t)
<1>1. \A S : \A f \in [ Signing!Callers -> S ] : \A v \in S :
        LET g == [ f EXCEPT ![t] = v ]
        IN  g \in [ Signing!Callers -> S ] /\ (\A u \in Signing!Callers : u # t => g[u] = f[u]) /\ g[t] = v
  OBVIOUS
<1> QED
  BY <1>1, IdleCall, Zenon DEF CallTypes, Ends

\* A request goes on without a write to the row: what it then knows.
Passes(t, phase) ==
    /\ Moves(t, phase)
    /\ call[t].phase \in { "sent", "check", "written" }
       /\ phase \in PhasesOf(call[t].op) \ { "none", "sent", "written", "disabled" }
    /\ phase = "match" => call[t].code \in account.codes /\ call'[t].codes = account.codes
    /\ phase # "match" => KeepsCodes(t)
    /\ phase = "valid" => Signing!Verifies(call[t].code, account.secret)
    /\ phase = "check" => call[t].op = "verify" /\ (Signing!IsTotp(call[t].code) => ~ Signing!IsTokenUsed(call[t].code))
    /\ call[t].op = "verify" /\ phase \in { "valid", "match" } => call[t].phase = "check"
    /\ phase = "confirmed" => call'[t].secret = call[t].code[2]
    /\ phase \in { "confirmed", "set" } => call'[t].secret \in Nat
    /\ call[t].phase = "written" <=> phase = "listed"
    /\ UNCHANGED << account, phone, noted, available, usedIn, clock, cookie, tab, requests, turns,
                    opened, reopened, crossed, unseen >>
    /\ pendingIn' \in [ { "redis", "memory" } -> Nat \cup {None} ]

PassSteps(t) ==
    \/ Signing!Login(t) \/ Signing!Verify(t) \/ Signing!CheckCode(t) \/ Signing!GenerateSetupData(t)
       \/ Signing!FetchPending(t) \/ Signing!DeletePending(t)

LEMMA PassesStep ==
  ASSUME CallTypes, StoreTypes, NEW t \in Tabs, PassSteps(t)
  PROVE  \E phase \in FactorPhases : Passes(t, phase)
<1>0. t \in Signing!Callers /\ FitsTab(t) /\ Signing!Store \in { "redis", "memory" }
      /\ pendingIn \in [ { "redis", "memory" } -> Nat \cup {None} ]
  BY DEF CallTypes, Signing!Callers, Signing!Store, StoreTypes
<1>n. call[t].no \in Nat
  <2>1. \A Flag : \A f \in [ Signing!Callers -> CallOf(Flag) ] : f[t].no \in Nat
    BY <1>0 DEF CallOf
  <2> QED
    BY <2>1, Zenon DEF CallTypes
<1>1. CASE Signing!Login(t)
  <2>1. PICK phase \in { "challenged", "signed", "refused" } : Signing!Goes(t, phase)
    BY <1>1, Zenon DEF Signing!Login, Signing!Refused
  <2>2. phase \in FactorPhases
    BY DEF FactorPhases
  <2>3. Moves(t, phase) /\ KeepsCodes(t)
    BY <1>0, <2>1, <2>2, GoneStep
  <2>4. call[t].op = "login" /\ call[t].phase = "sent"
    BY <1>1 DEF Signing!Login
  <2> QED
    BY <1>0, <1>1, <2>1, <2>2, <2>3, <2>4 DEF Signing!Login, Passes, PhasesOf
<1>2. CASE Signing!Verify(t)
  <2>1. PICK phase \in { "check", "refused" } :
          Signing!Goes(t, phase) /\ (phase = "check" =>
             ~ (Signing!IsTotp(call[t].code) /\ Signing!IsTokenUsed(call[t].code)))
    BY <1>2, Zenon DEF Signing!Verify, Signing!Refused
  <2>2. phase \in FactorPhases
    BY DEF FactorPhases
  <2>3. Moves(t, phase) /\ KeepsCodes(t)
    BY <1>0, <2>1, <2>2, GoneStep
  <2>4. call[t].op = "verify" /\ call[t].phase = "sent"
    BY <1>2 DEF Signing!Verify
  <2> QED
    BY <1>0, <1>2, <2>1, <2>2, <2>3, <2>4 DEF Signing!Verify, Passes, PhasesOf
<1>3. CASE Signing!CheckCode(t)
  <2>1. /\ call[t].op \in { "verify", "disable", "regen" }
        /\ \/ call[t].op = "verify" /\ call[t].phase = "check"
           \/ call[t].op # "verify" /\ call[t].phase = "sent"
    <3>1. call[t].phase \in PhasesOf(call[t].op)
      BY <1>0 DEF FitsTab
    <3>2. call[t].phase = "check" \/ (call[t].op \in { "disable", "regen" } /\ call[t].phase = "sent")
      <4>1. Signing!Examines(t)
        BY <1>3, Zenon DEF Signing!CheckCode
      <4> QED
        BY <4>1 DEF Signing!Examines
    <3>3. call[t].phase = "check" => call[t].op = "verify"
      BY <3>1 DEF PhasesOf
    <3> QED
      BY <3>2, <3>3
  <2>2. CASE Signing!Verifies(call[t].code, account.secret) /\ Signing!Goes(t, "valid")
    <3>1. Moves(t, "valid") /\ KeepsCodes(t)
      BY <1>0, <2>2, GoneStep DEF FactorPhases
    <3>2. Passes(t, "valid")
      BY <1>0, <1>3, <2>1, <2>2, <3>1 DEF Signing!CheckCode, Passes, PhasesOf
    <3> QED
      BY <3>2 DEF FactorPhases
  <2>3. CASE call[t].code \in account.codes /\ call' = [ call EXCEPT ![t].phase = "match", ![t].codes = account.codes ]
    <3>1. account.codes \in SUBSET Backups /\ "match" \in FactorPhases
      BY DEF StoreTypes, FactorPhases
    <3>2. Moves(t, "match") /\ call'[t].codes = account.codes
      BY <1>0, <2>3, <3>1, GoesWithCodes
    <3>3. Passes(t, "match")
      BY <1>0, <1>3, <2>1, <2>3, <3>2 DEF Signing!CheckCode, Passes, PhasesOf
    <3> QED
      BY <3>1, <3>3
  <2>4. CASE Signing!Refused(t)
    <3>1. Moves(t, "refused") /\ KeepsCodes(t)
      BY <1>0, <2>4, GoneStep DEF FactorPhases, Signing!Refused
    <3>2. Passes(t, "refused")
      BY <1>0, <1>3, <2>1, <3>1 DEF Signing!CheckCode, Passes, PhasesOf
    <3> QED
      BY <3>2 DEF FactorPhases
  <2> QED
    BY <1>3, <2>2, <2>3, <2>4, Zenon DEF Signing!CheckCode
<1>4. CASE Signing!GenerateSetupData(t)
  <2>1. Moves(t, "set") /\ KeepsCodes(t) /\ call'[t].secret \in Nat
    BY <1>0, <1>n, <1>4, GoesWithSecret DEF Signing!GenerateSetupData, FactorPhases
  <2>2. pendingIn' \in [ { "redis", "memory" } -> Nat \cup {None} ]
    BY <1>0, <1>n, <1>4 DEF Signing!GenerateSetupData
  <2>3. Passes(t, "set")
    BY <1>0, <1>4, <2>1, <2>2 DEF Signing!GenerateSetupData, Passes, PhasesOf
  <2> QED
    BY <2>3 DEF FactorPhases
<1>5. CASE Signing!FetchPending(t)
  <2>1. CASE /\ pendingIn[Signing!Store] # None /\ Signing!Verifies(call[t].code, pendingIn[Signing!Store])
             /\ call' = [ call EXCEPT ![t].phase = "confirmed", ![t].secret = pendingIn[Signing!Store] ]
    <3>1. pendingIn[Signing!Store] \in Nat /\ call[t].code[2] = pendingIn[Signing!Store]
      BY <1>0, <2>1 DEF Signing!Verifies
    <3>2. Moves(t, "confirmed") /\ KeepsCodes(t) /\ call'[t].secret = pendingIn[Signing!Store]
      BY <1>0, <2>1, <3>1, GoesWithSecret DEF FactorPhases
    <3>3. Passes(t, "confirmed")
      BY <1>0, <1>5, <3>1, <3>2 DEF Signing!FetchPending, Passes, PhasesOf
    <3> QED
      BY <3>3 DEF FactorPhases
  <2>2. CASE Signing!Refused(t)
    <3>1. Moves(t, "refused") /\ KeepsCodes(t)
      BY <1>0, <2>2, GoneStep DEF FactorPhases, Signing!Refused
    <3>2. Passes(t, "refused")
      BY <1>0, <1>5, <3>1 DEF Signing!FetchPending, Passes, PhasesOf
    <3> QED
      BY <3>2 DEF FactorPhases
  <2> QED
    BY <1>5, <2>1, <2>2, Zenon DEF Signing!FetchPending
<1>6. CASE Signing!DeletePending(t)
  <2>1. Moves(t, "listed") /\ KeepsCodes(t)
    BY <1>0, <1>6, GoneStep DEF Signing!DeletePending, FactorPhases
  <2>2. pendingIn' \in [ { "redis", "memory" } -> Nat \cup {None} ]
    BY <1>0, <1>6 DEF Signing!DeletePending
  <2>3. call[t].op = "enroll"
    BY <1>0, <1>6 DEF Signing!DeletePending, FitsTab, PhasesOf
  <2>4. Passes(t, "listed")
    BY <1>0, <1>6, <2>1, <2>2, <2>3 DEF Signing!DeletePending, Passes, PhasesOf
  <2> QED
    BY <2>4 DEF FactorPhases
<1> QED
  BY <1>1, <1>2, <1>3, <1>4, <1>5, <1>6 DEF PassSteps
LEMMA FieldTypes ==
  CallTypes => \A t \in Signing!Callers : /\ call[t].op \in Ops /\ call[t].phase \in FactorPhases /\ call[t].no \in Nat
                                  /\ call[t].code \in Codes \cup {None} /\ call[t].secret \in Nat \cup {None}
                                  /\ call[t].codes \in SUBSET Backups
<1>1. \A Flag : \A f \in [ Signing!Callers -> CallOf(Flag) ] : \A t \in Signing!Callers :
        /\ f[t].op \in Ops /\ f[t].phase \in FactorPhases /\ f[t].no \in Nat
        /\ f[t].code \in Codes \cup {None} /\ f[t].secret \in Nat \cup {None}
        /\ f[t].codes \in SUBSET Backups
  BY DEF CallOf
<1> QED
  BY <1>1, Zenon DEF CallTypes

Clean == crossed = FALSE
Met == unseen = FALSE

\* The authenticator has the secret of the row, and of every enrollment under way.
PhoneInv ==
    /\ Signing!PhoneVerifies
    /\ \A t \in Tabs : /\ call[t].op = "enroll" => call[t].code[2] \in phone
                       /\ call[t].phase = "confirmed" => call[t].secret \in phone

\* Whoever will write a new list of codes writes codes that nobody has seen.
Unseen(t) ==
    \/ call[t].op = "enroll" /\ call[t].phase \in { "sent", "confirmed" }
    \/ call[t].op = "regen" /\ call[t].phase \in { "sent", "valid", "match" }
Held(b) ==
    \/ b \in account.codes \/ b \in noted \/ << b, "row" >> \in opened
    \/ \E u \in Tabs : b \in call[u].codes \/ b = call[u].code
NumberInv ==
    /\ \A t \in Tabs : call[t].no <= requests
    /\ \A t, u \in Tabs : t # u /\ call[t].phase # "none" /\ call[u].phase # "none" => call[t].no # call[u].no
    /\ \A b \in Backups : Held(b) => b[2] <= requests /\ \A t \in Tabs : Unseen(t) => b[2] # call[t].no

\* No code in the row has been used, and what a request has read of the row is still so.
RowInv ==
    Clean => /\ \A b \in account.codes : << b, "row" >> \notin opened
             /\ \A t \in Tabs : call[t].phase = "match" => call[t].codes = account.codes

\* What a store remembers outlasts the code, and the memory remembers nothing before it is needed.
ClockInv == \A t \in Tabs : call[t].code \in Totps => call[t].code[3] <= clock
UsedInv ==
    /\ \A c \in Totps, w \in { "redis", "memory" } :
         << c, w >> \in opened => \E e \in Nat : << c, e >> \in usedIn[w] /\ e >= c[3] + UsedTtl
    /\ available # "gone" => \A c \in Totps : << c, "memory" >> \notin opened
    /\ available = "starting" => \A t \in Tabs : tab[t].at = "account" /\ call[t].op \notin { "login", "verify" }
Once(t) ==
    call[t].op = "verify" /\ call[t].code \in Totps /\ << call[t].code, Signing!Store >> \in opened =>
        call[t].phase # "valid" /\ (call[t].phase = "check" => clock > call[t].code[3] + Tolerance)
OnceInv == Clean => \A t \in Tabs : Once(t)
OpenInv == Clean => reopened = {}

\* The user has the codes of the row, or is about to be shown them.
WithList(t) == call[t].phase \in { "written", "listed" }
NotedInv ==
    Clean /\ Met =>
        /\ \A t \in Tabs : WithList(t) => account.codes = call[t].codes
        /\ Signing!Enabled /\ (\A t \in Tabs : ~ WithList(t)) =>
             \A b \in Backups : b \in account.codes <=> b \in noted /\ << b, "row" >> \notin opened

\* The page tells, or is about to hear of its own request.
Told(t) ==
    Seen(t) /\ (call[t].phase \in { "written", "disabled" } \/ (call[t].phase = "listed" /\ call[t].op = "enroll"))
TellsTab(t) ==
    /\ call[t].op = "setup" /\ Seen(t) => tab[t].step = "idle"
    /\ tab[t].at = "account" /\ FreshTab(t) /\ tab[t].step # "codes" => (Badge(t) <=> Signing!Enabled) \/ Told(t)
TellInv == \A t \in Tabs : TellsTab(t)

FactorTypes == CallTypes /\ StoreTypes /\ TabTypes
FactorInv ==
    /\ FactorTypes /\ PhoneInv /\ NumberInv /\ RowInv /\ ClockInv /\ UsedInv /\ OnceInv /\ OpenInv
    /\ NotedInv /\ TellInv

LEMMA PassesKeeps ==
  ASSUME Signing!FactorAssumption, FactorInv, NEW t \in Tabs, NEW phase \in FactorPhases, Passes(t, phase)
  PROVE  FactorInv'
<1>0. /\ FactorTypes /\ t \in Signing!Callers /\ Tabs \subseteq Signing!Callers /\ Admin \in Signing!Callers
         /\ Admin # t /\ FitsTab(t)
      /\ Moves(t, phase) /\ phase \in PhasesOf(call[t].op) \ { "none", "sent", "written", "disabled" }
      /\ call[t].phase \in PhasesOf(call[t].op)
      /\ call[t].phase \in { "sent", "check", "written" } /\ (call[t].phase = "written" <=> phase = "listed")
      /\ account' = account /\ phone' = phone /\ noted' = noted /\ available' = available /\ usedIn' = usedIn
         /\ clock' = clock
      /\ tab' = tab /\ requests' = requests /\ opened' = opened /\ reopened' = reopened /\ crossed' = crossed
         /\ unseen' = unseen
  BY DEF Signing!FactorAssumption, FactorInv, FactorTypes, CallTypes, Signing!Callers, Passes, FitsTab
<1>1. /\ \A u \in Signing!Callers : u # t => call'[u] = call[u]
      /\ call'[t].op = call[t].op /\ call'[t].no = call[t].no /\ call'[t].code = call[t].code /\ call'[t].phase = phase
  BY <1>0 DEF Moves
<1>s. \A u \in Tabs : Seen(u)' <=> Seen(u)
  BY <1>0, Zenon DEF Moves, Seen
<1>2. call'[t].codes = call[t].codes \/ (phase = "match" /\ call'[t].codes = account.codes
      /\ call[t].code \in account.codes)
  BY DEF Passes, KeepsCodes
<1>3. FactorTypes'
  <2>1. FitsTab(t)'
    <3>1. phase = "valid" /\ call[t].op = "verify" => call[t].code \in Totps
      <4>1. phase = "valid" => Signing!IsTotp(call[t].code)
        BY DEF Passes, Signing!Verifies
      <4> QED
        BY <1>0, <4>1, CodeTypes DEF FitsTab, Signing!IsTotp, Codes
    <3>2. phase \in { "confirmed", "set" } => call'[t].secret \in Nat
      BY DEF Passes
    <3>3. phase = "match" => call'[t].code \in call'[t].codes
      BY <1>0, <1>1, <1>2 DEF Passes
    <3>4. phase \in PhasesOf(call[t].op)
      BY <1>0
    <3> QED
      BY <1>0, <1>1, <3>1, <3>2, <3>3, <3>4 DEF FitsTab
  <2>2. ASSUME NEW u \in Tabs, u # t PROVE FitsTab(u)'
    BY <1>0, <1>1, <2>2 DEF FitsTab, FactorTypes, CallTypes
  <2>3. CallTypes'
    BY <1>0, <1>1, <2>1, <2>2 DEF CallTypes, FactorTypes, Moves
  <2>4. StoreTypes'
    BY <1>0 DEF StoreTypes, FactorTypes, Passes
  <2> QED
    BY <1>0, <2>3, <2>4 DEF FactorTypes, TabTypes
<1>4. PhoneInv'
  <2>1. Signing!PhoneVerifies'
    BY <1>0 DEF FactorInv, PhoneInv, Signing!PhoneVerifies, Signing!Enabled
  <2>2. phase = "confirmed" => call'[t].secret = call[t].code[2] /\ call[t].op = "enroll"
    BY <1>0 DEF Passes, PhasesOf
  <2>3. ASSUME NEW u \in Tabs
        PROVE  /\ call'[u].op = "enroll" => call'[u].code[2] \in phone
               /\ call'[u].phase = "confirmed" => call'[u].secret \in phone
    BY <1>0, <1>1, <2>2 DEF FactorInv, PhoneInv
  <2> QED
    BY <1>0, <2>1, <2>3 DEF PhoneInv
<1>5. NumberInv'
  <2>1. \A u \in Tabs : Unseen(u)' => Unseen(u)
    <3>1. call[t].op = "enroll" /\ phase = "confirmed" => call[t].phase = "sent"
      BY <1>0 DEF PhasesOf
    <3>2. call[t].op = "regen" /\ phase \in { "valid", "match" } => call[t].phase = "sent"
      BY <1>0 DEF PhasesOf
    <3> QED
      BY <1>0, <1>1, <3>1, <3>2 DEF Unseen
  <2>2. \A b : Held(b)' => Held(b)
    BY <1>0, <1>1, <1>2 DEF Held
  <2>3. \A u \in Tabs : call'[u].no = call[u].no /\ (call'[u].phase # "none" => call[u].phase # "none")
    BY <1>0, <1>1
  <2> QED
    BY <1>0, <2>1, <2>2, <2>3 DEF FactorInv, NumberInv
<1>6. RowInv'
  BY <1>0, <1>1, <1>2 DEF FactorInv, RowInv, Clean, Passes
<1>7. ClockInv' /\ UsedInv'
  BY <1>0, <1>1 DEF FactorInv, ClockInv, UsedInv
<1>8. OnceInv' /\ OpenInv'
  <2>0. Signing!Store' = Signing!Store
    BY <1>0 DEF Signing!Store
  <2>1. CASE phase = "check"
    <3>1. ASSUME Clean, call[t].code \in Totps, << call[t].code, Signing!Store >> \in opened
          PROVE  clock > call[t].code[3] + Tolerance
      <4> DEFINE c == call[t].code
      <4>1. PICK e \in Nat : << c, e >> \in usedIn[Signing!Store] /\ e >= c[3] + UsedTtl
        BY <3>1 DEF FactorInv, UsedInv, Signing!Store
      <4>2. ~ Signing!IsTokenUsed(c)
        BY <2>1, <3>1, CodeTypes DEF Passes, Signing!IsTotp
      <4>3. ~ (clock < << c, e >>[2]) /\ << c, e >>[2] = e
        BY <4>1, <4>2 DEF Signing!IsTokenUsed
      <4>4. clock \in Nat /\ c[3] \in Nat
        BY <1>0, <3>1, CodeTypes DEF FactorTypes, StoreTypes
      <4> QED
        BY <4>1, <4>3, <4>4 DEF Signing!FactorAssumption
    <3> QED
      BY <1>0, <1>1, <2>0, <2>1, <3>1 DEF FactorInv, OnceInv, Once, Clean, OpenInv
  <2>2. CASE phase = "valid" /\ call[t].op = "verify"
    <3>1. call[t].phase = "check" /\ clock <= call[t].code[3] + Tolerance /\ clock \in Nat
      BY <1>0, <2>2 DEF Passes, Signing!Verifies, FactorTypes, StoreTypes
    <3>2. Clean => ~ (call[t].code \in Totps /\ << call[t].code, Signing!Store >> \in opened)
      <4> SUFFICES ASSUME Clean, call[t].code \in Totps, << call[t].code, Signing!Store >> \in opened PROVE FALSE
        OBVIOUS
      <4>1. clock > call[t].code[3] + Tolerance
        BY <2>2, <3>1 DEF FactorInv, OnceInv, Once
      <4>2. call[t].code[3] + Tolerance \in Nat
        BY CodeTypes DEF Signing!FactorAssumption
      <4> QED
        BY <3>1, <4>1, <4>2
    <3> QED
      BY <1>0, <1>1, <2>0, <2>2, <3>2 DEF FactorInv, OnceInv, Once, Clean, OpenInv
  <2>3. CASE call[t].op # "verify" \/ phase \notin { "check", "valid" }
    BY <1>0, <1>1, <2>0, <2>3 DEF FactorInv, OnceInv, Once, Clean, OpenInv
  <2> QED
    BY <2>1, <2>2, <2>3
<1>9. NotedInv'
  <2>1. \A u \in Tabs : WithList(u)' <=> WithList(u)
    BY <1>0, <1>1 DEF WithList
  <2>2. \A u \in Tabs : WithList(u) => call'[u].codes = call[u].codes
    BY <1>0, <1>1, <1>2 DEF WithList
  <2>3. Signing!Enabled' <=> Signing!Enabled
    BY <1>0 DEF Signing!Enabled
  <2> QED
    BY <1>0, <2>1, <2>2, <2>3 DEF FactorInv, NotedInv, Clean, Met
<1>10. TellInv'
  <2>1. \A u \in Tabs : Told(u)' <=> Told(u)
    <3>1. phase = "listed" => call[t].op = "enroll"
      BY <1>0 DEF Passes, PhasesOf
    <3> QED
      BY <1>0, <1>1, <1>s, <3>1 DEF Told
  <2>2. Signing!Enabled' <=> Signing!Enabled
    BY <1>0 DEF Signing!Enabled
  <2>3. \A u \in Tabs : FreshTab(u)' = FreshTab(u) /\ (Badge(u)' <=> Badge(u))
    BY <1>0 DEF FreshTab, Badge
  <2>4. \A u \in Tabs : call'[u].op = call[u].op /\ tab'[u] = tab[u]
    BY <1>0, <1>1
  <2> QED
    BY <1>s, <2>1, <2>2, <2>3, <2>4 DEF FactorInv, TellInv, TellsTab
<1> QED
  BY <1>3, <1>4, <1>5, <1>6, <1>7, <1>8, <1>9, <1>10 DEF FactorInv
-----------------------------------------------------------------------------
\* A write to the row leaves no other page fresh, and no other request uncrossed.
Wrote(t) ==
    /\ TabTypes'
    /\ \A u \in Tabs : tab'[u].at = tab[u].at /\ tab'[u].step = tab[u].step /\ (Badge(u)' <=> Badge(u))
    /\ \A u \in Tabs : FreshTab(u)' => u = t /\ Seen(t) /\ FreshTab(u)
    /\ Clean' => Clean /\ \A u \in Tabs : u # t => ~ Signing!Midway(u)
    /\ crossed' \in BOOLEAN

LEMMA WrittenStep ==
  ASSUME FactorTypes, NEW t \in Signing!Callers, NEW record, Signing!Writes(t, record)
  PROVE  Wrote(t) /\ account' = record
<1>1. \A Flag : \A yes \in Flag, l \in TabOf(Flag) :
        /\ [ l EXCEPT !.stale = yes ] \in TabOf(Flag) /\ [ l EXCEPT !.stale = yes ].stale = yes
        /\ [ l EXCEPT !.stale = yes ].at = l.at /\ [ l EXCEPT !.stale = yes ].step = l.step
        /\ [ l EXCEPT !.stale = yes ].badge = l.badge
  BY DEF TabOf
<1>a. \A l \in TabOf(BOOLEAN) :
        /\ [ l EXCEPT !.stale = TRUE ] \in TabOf(BOOLEAN) /\ [ l EXCEPT !.stale = TRUE ].stale = TRUE
        /\ [ l EXCEPT !.stale = TRUE ].at = l.at /\ [ l EXCEPT !.stale = TRUE ].step = l.step
        /\ [ l EXCEPT !.stale = TRUE ].badge = l.badge
  <2>1. TRUE \in BOOLEAN
    OBVIOUS
  <2> QED
    BY <1>1, <2>1, Zenon
<1>2. \A u \in Tabs : tab[u] \in TabOf(BOOLEAN)
  <2>1. \A S : \A f \in [ Tabs -> S ] : \A u \in Tabs : f[u] \in S
    OBVIOUS
  <2> QED
    BY <2>1, Zenon DEF FactorTypes, TabTypes
<1>3. tab' = [ u \in Tabs |-> IF u = t /\ call[t].seen THEN tab[u] ELSE [ tab[u] EXCEPT !.stale = TRUE ] ]
  BY Zenon DEF Signing!Writes
<1>4. \A u \in Tabs : tab'[u] = IF u = t /\ call[t].seen THEN tab[u] ELSE [ tab[u] EXCEPT !.stale = TRUE ]
  BY <1>3, Zenon
<1>5. ASSUME NEW u \in Tabs
      PROVE  /\ tab'[u] \in TabOf(BOOLEAN)
             /\ tab'[u].at = tab[u].at /\ tab'[u].step = tab[u].step /\ tab'[u].badge = tab[u].badge
             /\ tab'[u].stale = FALSE => u = t /\ call[t].seen /\ tab'[u] = tab[u]
  <2>1. CASE u = t /\ call[t].seen
    <3>1. tab'[u] = tab[u]
      BY <1>4, <2>1, Zenon
    <3> QED
      BY <1>2, <2>1, <3>1, Zenon
  <2>2. CASE ~ (u = t /\ call[t].seen)
    <3>1. tab'[u] = [ tab[u] EXCEPT !.stale = TRUE ]
      BY <1>4, <2>2, Zenon
    <3>2. /\ tab'[u] \in TabOf(BOOLEAN) /\ tab'[u].stale = TRUE
          /\ tab'[u].at = tab[u].at /\ tab'[u].step = tab[u].step /\ tab'[u].badge = tab[u].badge
      BY <1>a, <1>2, <3>1, Zenon
    <3> QED
      BY <3>2, Zenon
  <2> QED
    BY <2>1, <2>2, Zenon
<1>6. TabTypes'
  <2>1. \A S : \A f : f = [ u \in Tabs |-> f[u] ] /\ (\A u \in Tabs : f[u] \in S) => f \in [ Tabs -> S ]
    BY Zenon
  <2>2. tab' = [ u \in Tabs |-> tab'[u] ]
    BY <1>3, Zenon
  <2> QED
    BY <1>5, <2>1, <2>2, Zenon DEF TabTypes
<1>7. call[t].seen \in BOOLEAN
  <2>1. \A Flag : \A f \in [ Signing!Callers -> CallOf(Flag) ] : f[t].seen \in Flag
    BY DEF CallOf
  <2> QED
    BY <2>1, Zenon DEF FactorTypes, CallTypes
<1>8. \A u \in Tabs : FreshTab(u)' => u = t /\ Seen(t) /\ FreshTab(u)
  BY <1>5, <1>7, Zenon DEF FreshTab, Seen
<1>9. crossed' = (crossed \/ \E u \in Signing!Callers \ {t} : Signing!Midway(u))
  BY Zenon DEF Signing!Writes
<1>10. crossed \in BOOLEAN
  BY DEF FactorTypes, StoreTypes
<1>11. Clean' => Clean /\ \A u \in Tabs : u # t => ~ Signing!Midway(u)
  <2>1. Tabs \subseteq Signing!Callers
    BY DEF Signing!Callers
  <2>2. Clean' => ~ (crossed \/ \E u \in Signing!Callers \ {t} : Signing!Midway(u))
    BY <1>9, Zenon DEF Clean
  <2>3. ~ (\E u \in Signing!Callers \ {t} : Signing!Midway(u)) => \A u \in Tabs : u # t => ~ Signing!Midway(u)
    BY <2>1, Zenon
  <2> QED
    BY <1>10, <2>2, <2>3, Zenon DEF Clean
<1>12. crossed' \in BOOLEAN
  BY <1>9, Zenon
<1>13. account' = record
  BY Zenon DEF Signing!Writes
<1> QED
  BY <1>5, <1>6, <1>8, <1>11, <1>12, <1>13, Zenon DEF Wrote, Badge
Same(t) ==
    /\ \A u \in Tabs : u # t => call'[u] = call[u]
    /\ t \in Tabs => /\ call'[t].op = call[t].op /\ call'[t].no = call[t].no /\ call'[t].code = call[t].code
                     /\ Seen(t)' <=> Seen(t)

LEMMA WriterFrame ==
  ASSUME FactorInv, NEW t \in Signing!Callers, Wrote(t), Same(t),
         available' = available, clock' = clock, usedIn' = usedIn,
         \A c \in Totps, w \in { "redis", "memory" } : << c, w >> \in opened' <=> << c, w >> \in opened,
         t \in Tabs => \/ call'[t].phase \in { "written", "disabled" }
                       \/ (Signing!Enabled' <=> Signing!Enabled) /\ ~ Told(t),
         t \in Tabs => call'[t].phase # "check" /\ (call[t].op = "verify" => call'[t].phase # "valid")
  PROVE  ClockInv' /\ UsedInv' /\ OnceInv' /\ TellInv'
<1>1. \A u \in Tabs : call'[u].op = call[u].op /\ call'[u].code = call[u].code
  BY DEF Same
<1>2. ClockInv'
  BY <1>1 DEF ClockInv, FactorInv
<1>3. UsedInv'
  BY <1>1 DEF UsedInv, FactorInv, Wrote
<1>4. OnceInv'
  <2>1. Signing!Store' = Signing!Store /\ Signing!Store \in { "redis", "memory" }
    BY DEF Signing!Store
  <2>2. ASSUME NEW u \in Tabs, Clean' PROVE Once(u)'
    <3>1. Once(u)
      BY <2>2 DEF Wrote, FactorInv, OnceInv
    <3>2. u # t => call'[u] = call[u]
      BY DEF Same
    <3> QED
      BY <1>1, <2>1, <3>1, <3>2 DEF Once
  <2> QED
    BY <2>2 DEF OnceInv
<1>5. TellInv'
  <2>1. ASSUME NEW u \in Tabs PROVE call'[u].op = "setup" /\ Seen(u)' => tab'[u].step = "idle"
    <3>1. Seen(u)' <=> Seen(u)
      <4>1. u # t => call'[u] = call[u]
        BY DEF Same
      <4>2. u # t => (Seen(u)' <=> Seen(u))
        BY <4>1, Zenon DEF Seen
      <4> QED
        BY <4>2 DEF Same
    <3> QED
      BY <1>1, <3>1 DEF FactorInv, TellInv, TellsTab, Wrote
  <2>2. ASSUME NEW u \in Tabs, tab'[u].at = "account", FreshTab(u)', tab'[u].step # "codes"
        PROVE  (Badge(u)' <=> Signing!Enabled') \/ Told(u)'
    <3>1. /\ u = t /\ Seen(t) /\ FreshTab(u) /\ tab[u].at = "account" /\ tab[u].step # "codes"
             /\ (Badge(u)' <=> Badge(u))
          /\ t \in Tabs
      BY <2>2 DEF Wrote
    <3>2. Seen(t)'
      BY <3>1 DEF Same
    <3>3. CASE call'[t].phase \in { "written", "disabled" }
      BY <3>1, <3>2, <3>3 DEF Told
    <3>4. CASE (Signing!Enabled' <=> Signing!Enabled) /\ ~ Told(t)
      BY <3>1, <3>4 DEF FactorInv, TellInv, TellsTab
    <3> QED
      BY <3>1, <3>3, <3>4
  <2> QED
    BY <2>1, <2>2 DEF TellInv, TellsTab
<1> QED
  BY <1>2, <1>3, <1>4, <1>5

\* The types after a write, and what the fields of the row then are.
LEMMA WriterTypes ==
  ASSUME Signing!FactorAssumption, FactorTypes, NEW t \in Tabs, NEW phase \in FactorPhases, Moves(t, phase),
         Wrote(t), FitsTab(t)',
         account' \in [ secret : Nat \cup {None}, codes : SUBSET Backups ],
         opened' \subseteq (Backups \X {"row"}) \cup (Totps \X { "redis", "memory" }),
         UNCHANGED << phone, noted, available, pendingIn, usedIn, clock, cookie, requests, unseen >>
  PROVE  FactorTypes' /\ Same(t)
<1>1. ASSUME NEW u \in Tabs, u # t PROVE FitsTab(u)'
  <2>1. call'[u] = call[u]
    BY <1>1 DEF Moves, Signing!Callers
  <2> QED
    BY <2>1 DEF FactorTypes, CallTypes, FitsTab
<1>2. call'[Admin] = call[Admin]
  BY DEF Signing!FactorAssumption, Moves, Signing!Callers
<1>3. CallTypes'
  BY <1>1, <1>2 DEF CallTypes, FactorTypes, Moves
<1>4. StoreTypes'
  BY DEF StoreTypes, FactorTypes, Wrote
<1>5. Same(t)
  BY DEF Same, Moves, Signing!Callers
<1> QED
  BY <1>3, <1>4, <1>5 DEF FactorTypes, Wrote

LEMMA ConsumeKeeps ==
  ASSUME Signing!FactorAssumption, FactorInv, NEW t \in Tabs, Signing!ConsumeBackupCode(t)
  PROVE  FactorInv'
<1> DEFINE code == call[t].code
<1>0. /\ FactorTypes /\ t \in Signing!Callers /\ Tabs \subseteq Signing!Callers /\ FitsTab(t)
      /\ call[t].phase = "match" /\ code \in call[t].codes /\ call[t].codes \in SUBSET Backups
      /\ UNCHANGED << phone, noted, available, pendingIn, usedIn, clock, cookie, requests, unseen >>
  BY FieldTypes DEF FactorInv, FactorTypes, CallTypes, Signing!Callers, Signing!ConsumeBackupCode, FitsTab
<1>1. call[t].op \in { "verify", "disable", "regen" }
  BY <1>0 DEF FitsTab, PhasesOf
<1>2. PICK phase \in { "signed", "valid" } : Signing!Goes(t, phase) /\ (phase = "signed" <=> call[t].op = "verify")
  BY <1>1 DEF Signing!ConsumeBackupCode
<1>3. phase \in FactorPhases
  BY DEF FactorPhases
<1>4. Moves(t, phase) /\ KeepsCodes(t)
  BY <1>0, <1>2, <1>3, GoneStep DEF FactorTypes
<1>5. Wrote(t) /\ account' = [ account EXCEPT !.codes = call[t].codes \ {code} ]
  BY <1>0, WrittenStep, Zenon DEF Signing!ConsumeBackupCode, Signing!Remaining
<1>6. /\ account' \in [ secret : Nat \cup {None}, codes : SUBSET Backups ]
      /\ account'.secret = account.secret /\ account'.codes = call[t].codes \ {code}
  BY <1>0, <1>5 DEF FactorTypes, StoreTypes
<1>7. opened' = opened \cup { << code, "row" >> } /\ (<< code, "row" >> \notin opened => reopened' = reopened)
  BY DEF Signing!ConsumeBackupCode, Signing!Accepts
<1>8. opened' \subseteq (Backups \X {"row"}) \cup (Totps \X { "redis", "memory" })
  BY <1>0, <1>7 DEF FactorTypes, StoreTypes
<1>9. /\ \A u \in Tabs : u # t => call'[u] = call[u]
      /\ call'[t].op = call[t].op /\ call'[t].no = call[t].no /\ call'[t].code = code /\ call'[t].phase = phase
      /\ call'[t].codes = call[t].codes
  BY <1>0, <1>4 DEF Moves, KeepsCodes
<1>10. FactorTypes' /\ Same(t)
  <2>1. FitsTab(t)'
    BY <1>0, <1>1, <1>2, <1>9 DEF FitsTab, PhasesOf
  <2> QED
    BY <1>0, <1>3, <1>4, <1>5, <1>6, <1>8, <2>1, WriterTypes
<1>11. Signing!Enabled' <=> Signing!Enabled
  BY <1>6 DEF Signing!Enabled
<1>12. ClockInv' /\ UsedInv' /\ OnceInv' /\ TellInv'
  BY <1>0, <1>2, <1>5, <1>7, <1>9, <1>10, <1>11, WriterFrame DEF Told
<1>13. PhoneInv'
  BY <1>0, <1>6, <1>9, <1>11 DEF FactorInv, PhoneInv, Signing!PhoneVerifies
<1>14. NumberInv'
  <2>1. \A u \in Tabs : Unseen(u)' => Unseen(u)
    BY <1>0, <1>9 DEF Unseen
  <2>2. \A b : Held(b)' => Held(b)
    BY <1>0, <1>6, <1>7, <1>9 DEF Held
  <2>3. \A u \in Tabs : call'[u].no = call[u].no /\ (call'[u].phase # "none" => call[u].phase # "none")
    BY <1>0, <1>9
  <2> QED
    BY <1>0, <2>1, <2>2, <2>3 DEF FactorInv, NumberInv
<1>15. Clean' => Clean /\ \A u \in Tabs : u # t => ~ WithList(u) /\ call[u].phase # "match"
  BY <1>5 DEF Wrote, Signing!Midway, WithList
<1>16. RowInv' /\ OpenInv'
  BY <1>0, <1>2, <1>6, <1>7, <1>9, <1>15 DEF FactorInv, RowInv, OpenInv
<1>17. NotedInv'
  <2> SUFFICES ASSUME Clean', Met' PROVE NotedInv'
    BY DEF NotedInv
  <2>1. Clean /\ Met /\ \A u \in Tabs : ~ WithList(u) /\ ~ WithList(u)'
    BY <1>0, <1>2, <1>9, <1>15 DEF Met, WithList
  <2>2. Signing!Enabled => \A b \in Backups : b \in account.codes <=> b \in noted /\ << b, "row" >> \notin opened
    BY <2>1 DEF FactorInv, NotedInv
  <2>3. call[t].codes = account.codes
    BY <1>0, <2>1 DEF FactorInv, RowInv
  <2>4. \A b \in Backups : b \in account'.codes <=> b \in account.codes /\ b # code
    BY <1>6, <2>3
  <2>5. \A b \in Backups : << b, "row" >> \in opened' <=> << b, "row" >> \in opened \/ b = code
    BY <1>7
  <2> QED
    BY <1>0, <1>11, <2>1, <2>2, <2>4, <2>5 DEF NotedInv
<1> QED
  BY <1>10, <1>12, <1>13, <1>14, <1>16, <1>17 DEF FactorInv
\* A request writes a new list of codes.
LEMMA ListKeeps ==
  ASSUME Signing!FactorAssumption, FactorInv, NEW t \in Tabs, NEW phase \in { "written", "listed" },
         NEW secret \in Nat \cup {None},
         \/ phase = "written" /\ call[t].op = "enroll" /\ call[t].phase = "confirmed" /\ secret \in phone
         \/ phase = "listed" /\ call[t].op = "regen" /\ call[t].phase = "valid" /\ secret = account.secret,
         Signing!Writes(t, [ secret |-> secret, codes |-> Signing!BackupCodes(call[t].no) ]),
         call' = [ call EXCEPT ![t].phase = phase, ![t].codes = Signing!BackupCodes(call[t].no) ],
         UNCHANGED << phone, noted, available, pendingIn, usedIn, clock, cookie, requests, turns, opened,
            reopened, unseen >>
  PROVE  FactorInv'
<1> DEFINE no == call[t].no  new == Signing!BackupCodes(no)
<1>0. /\ FactorTypes /\ t \in Signing!Callers /\ Tabs \subseteq Signing!Callers /\ FitsTab(t) /\ no \in Nat
      /\ phase \in FactorPhases
  BY FieldTypes DEF FactorInv, FactorTypes, CallTypes, Signing!Callers, FactorPhases
<1>1. new \in SUBSET Backups /\ \A b \in new : b[2] = no
  BY <1>0, CodeTypes
<1> HIDE DEF new
<1>2. Moves(t, phase) /\ call'[t].codes = new
  BY <1>0, <1>1, GoesWithCodes DEF FactorTypes, new
<1>3. Wrote(t) /\ account' = [ secret |-> secret, codes |-> new ]
  BY <1>0, WrittenStep, Zenon DEF new
<1>4. /\ account' \in [ secret : Nat \cup {None}, codes : SUBSET Backups ]
      /\ account'.secret = secret /\ account'.codes = new
  BY <1>1, <1>3
<1>5. /\ \A u \in Tabs : u # t => call'[u] = call[u]
      /\ call'[t].op = call[t].op /\ call'[t].no = no /\ call'[t].code = call[t].code /\ call'[t].phase = phase
  BY <1>0, <1>2 DEF Moves
<1>6. FactorTypes' /\ Same(t)
  <2>1. FitsTab(t)'
    BY <1>0, <1>5 DEF FitsTab, PhasesOf
  <2>2. opened' \subseteq (Backups \X {"row"}) \cup (Totps \X { "redis", "memory" })
    BY <1>0 DEF FactorTypes, StoreTypes
  <2> QED
    BY <1>0, <1>2, <1>3, <1>4, <2>1, <2>2, WriterTypes
<1>7. ClockInv' /\ UsedInv' /\ OnceInv' /\ TellInv'
  <2>1. phase = "written" \/ ((Signing!Enabled' <=> Signing!Enabled) /\ ~ Told(t))
    BY <1>4 DEF Signing!Enabled, Told
  <2> QED
    BY <1>0, <1>3, <1>5, <1>6, <2>1, WriterFrame
<1>8. PhoneInv'
  <2>1. Signing!PhoneVerifies'
    BY <1>4 DEF FactorInv, PhoneInv, Signing!PhoneVerifies, Signing!Enabled
  <2>2. ASSUME NEW u \in Tabs
        PROVE  /\ call'[u].op = "enroll" => call'[u].code[2] \in phone'
               /\ call'[u].phase = "confirmed" => call'[u].secret \in phone'
    <3>1. CASE u = t
      BY <1>5, <3>1 DEF FactorInv, PhoneInv
    <3>2. CASE u # t
      <4>1. call'[u] = call[u] /\ phone' = phone
        BY <1>5, <3>2
      <4> QED
        BY <4>1 DEF FactorInv, PhoneInv
    <3> QED
      BY <3>1, <3>2
  <2> QED
    BY <2>1, <2>2 DEF PhoneInv
<1>9. Unseen(t) /\ ~ Unseen(t)'
  BY <1>5 DEF Unseen
<1>10. \A b \in Backups : Held(b) => b \notin new
  BY <1>1, <1>9 DEF FactorInv, NumberInv
<1>11. NumberInv'
  <2>1. \A u \in Tabs : Unseen(u)' => u # t /\ Unseen(u)
    BY <1>5, <1>9 DEF Unseen
  <2>2. \A b : Held(b)' => Held(b) \/ b \in new
    <3> SUFFICES ASSUME NEW b, Held(b)', b \notin new PROVE Held(b)
      OBVIOUS
    <3>1. noted' = noted /\ opened' = opened /\ b \notin account'.codes
      BY <1>4
    <3>2. CASE b \in noted \/ << b, "row" >> \in opened
      BY <3>2 DEF Held
    <3>3. CASE \E u \in Tabs : b \in call'[u].codes \/ b = call'[u].code
      <4>1. PICK u \in Tabs : b \in call'[u].codes \/ b = call'[u].code
        BY <3>3
      <4>2. b \in call[u].codes \/ b = call[u].code
        BY <1>2, <1>5, <4>1
      <4> QED
        BY <4>2 DEF Held
    <3> QED
      BY <3>1, <3>2, <3>3 DEF Held
  <2>3. \A u \in Tabs : call'[u].no = call[u].no /\ (call'[u].phase # "none" => call[u].phase # "none")
    BY <1>0, <1>5
  <2>4. \A u \in Tabs : Unseen(u) => call[u].phase # "none"
    BY DEF Unseen
  <2>5. ASSUME NEW b \in new PROVE b[2] <= requests /\ \A u \in Tabs : Unseen(u)' => b[2] # call'[u].no
    BY <1>1, <1>9, <2>1, <2>3, <2>4, <2>5 DEF FactorInv, NumberInv
  <2>6. ASSUME NEW b \in Backups, Held(b)'
        PROVE  b[2] <= requests /\ \A u \in Tabs : Unseen(u)' => b[2] # call'[u].no
    BY <2>1, <2>2, <2>3, <2>5, <2>6 DEF FactorInv, NumberInv
  <2>7. requests' = requests
    OBVIOUS
  <2>8. \A u \in Tabs : call'[u].no <= requests'
    BY <2>3, <2>7 DEF FactorInv, NumberInv
  <2>9. \A u, v \in Tabs : u # v /\ call'[u].phase # "none" /\ call'[v].phase # "none" => call'[u].no # call'[v].no
    BY <2>3 DEF FactorInv, NumberInv
  <2>10. \A b \in Backups : Held(b)' => b[2] <= requests' /\ \A u \in Tabs : Unseen(u)' => b[2] # call'[u].no
    BY <2>6, <2>7
  <2> QED
    BY <2>8, <2>9, <2>10, Zenon DEF NumberInv
<1>12. Clean' => Clean /\ \A u \in Tabs : u # t => ~ WithList(u) /\ call[u].phase # "match"
  BY <1>3 DEF Wrote, Signing!Midway, WithList
<1>13. RowInv' /\ OpenInv'
  <2>1. \A b \in new : << b, "row" >> \notin opened
    BY <1>1, <1>10 DEF Held
  <2> QED
    BY <1>0, <1>4, <1>5, <1>12, <2>1 DEF FactorInv, RowInv, OpenInv
<1>14. NotedInv'
  BY <1>0, <1>2, <1>4, <1>5, <1>12 DEF NotedInv, WithList
<1> QED
  BY <1>6, <1>7, <1>8, <1>11, <1>13, <1>14 DEF FactorInv

LEMMA EnrollKeeps ==
  ASSUME Signing!FactorAssumption, FactorInv, NEW t \in Tabs, Signing!Enroll(t) \/ Signing!RegenerateBackupCodes(t)
  PROVE  FactorInv'
<1>0. /\ FactorTypes /\ FitsTab(t) /\ t \in Signing!Callers
         /\ account \in [ secret : Nat \cup {None}, codes : SUBSET Backups ]
      /\ call[t].secret \in Nat \cup {None}
  BY FieldTypes DEF FactorInv, FactorTypes, CallTypes, StoreTypes, Signing!Callers
<1>1. CASE Signing!Enroll(t)
  <2>1. call[t].phase = "confirmed" /\ call[t].op = "enroll" /\ call[t].secret \in phone
    BY <1>0, <1>1 DEF Signing!Enroll, FitsTab, PhasesOf, FactorInv, PhoneInv
  <2> QED
    BY <1>0, <1>1, <2>1, ListKeeps DEF Signing!Enroll
<1>2. CASE Signing!RegenerateBackupCodes(t)
  <2>1. \A new : [ account EXCEPT !.codes = new ] = [ secret |-> account.secret, codes |-> new ]
    BY <1>0
  <2>2. Signing!Writes(t, [ secret |-> account.secret, codes |-> Signing!BackupCodes(call[t].no) ])
    BY <1>2, <2>1 DEF Signing!RegenerateBackupCodes
  <2>3. account.secret \in Nat \cup {None}
    BY <1>0
  <2> QED
    BY <1>0, <1>2, <2>2, <2>3, ListKeeps DEF Signing!RegenerateBackupCodes
<1> QED
  BY <1>1, <1>2

\* The factor is taken off.
LEMMA OffKeeps ==
  ASSUME FactorInv, NEW t \in Signing!Callers, Signing!Writes(t, Signing!NotEnrolled), FactorTypes', Same(t),
         t \in Tabs => call'[t].phase = "disabled" /\ call[t].phase = "valid" /\ call'[t].codes = call[t].codes,
         UNCHANGED << phone, noted, available, pendingIn, usedIn, clock, cookie, requests, turns, opened,
            reopened, unseen >>
  PROVE  FactorInv'
<1>1. Wrote(t) /\ account' = Signing!NotEnrolled
  BY WrittenStep, Zenon DEF FactorInv
<1>2. account'.secret = None /\ account'.codes = {} /\ ~ Signing!Enabled'
  BY <1>1 DEF Signing!NotEnrolled, Signing!Enabled
<1>3. ClockInv' /\ UsedInv' /\ OnceInv' /\ TellInv'
  BY <1>1, WriterFrame
<1>4. \A u \in Tabs : call'[u].op = call[u].op /\ call'[u].no = call[u].no /\ call'[u].code = call[u].code
                      /\ call'[u].codes = call[u].codes
  BY DEF Same
<1>5. \A u \in Tabs : call'[u] = call[u] \/ (call'[u].phase = "disabled" /\ call[u].phase = "valid")
  BY DEF Same
<1>6. PhoneInv'
  BY <1>2, <1>4, <1>5 DEF FactorInv, PhoneInv, Signing!PhoneVerifies
<1>7. NumberInv'
  <2>1. \A u \in Tabs : Unseen(u)' => Unseen(u)
    BY <1>4, <1>5 DEF Unseen
  <2>2. \A b : Held(b)' => Held(b)
    BY <1>2, <1>4 DEF Held
  <2>3. \A u \in Tabs : call'[u].no = call[u].no /\ (call'[u].phase # "none" => call[u].phase # "none")
    BY <1>4, <1>5
  <2> QED
    BY <2>1, <2>2, <2>3 DEF FactorInv, NumberInv
<1>8. Clean' => Clean /\ \A u \in Tabs : ~ WithList(u)' /\ call'[u].phase # "match"
  BY <1>1, <1>5 DEF Wrote, Signing!Midway, WithList, Same
<1>9. RowInv' /\ OpenInv' /\ NotedInv'
  BY <1>2, <1>8 DEF FactorInv, RowInv, OpenInv, NotedInv
<1> QED
  BY <1>3, <1>6, <1>7, <1>9 DEF FactorInv

LEMMA DisableKeeps ==
  ASSUME Signing!FactorAssumption, FactorInv, (\E t \in Tabs : Signing!DisableTotp(t)) \/ Signing!AdminDisables
  PROVE  FactorInv'
<1>0. /\ FactorTypes /\ Tabs \subseteq Signing!Callers /\ Admin \in Signing!Callers /\ Admin \notin Tabs
      /\ Signing!NotEnrolled \in [ secret : Nat \cup {None}, codes : SUBSET Backups ]
  BY DEF Signing!FactorAssumption, FactorInv, Signing!Callers, Signing!NotEnrolled
<1>1. ASSUME NEW t \in Tabs, Signing!DisableTotp(t) PROVE FactorInv'
  <2>0. /\ "disabled" \in FactorPhases /\ FitsTab(t) /\ t \in Signing!Callers
        /\ Signing!Writes(t, Signing!NotEnrolled) /\ Signing!Goes(t, "disabled") /\ call[t].op = "disable"
           /\ call[t].phase = "valid"
        /\ UNCHANGED << phone, noted, available, pendingIn, usedIn, clock, cookie, requests, turns, opened,
           reopened, unseen >>
    BY <1>0, <1>1 DEF Signing!DisableTotp, FactorPhases, FactorTypes, CallTypes
  <2>1. Moves(t, "disabled") /\ KeepsCodes(t)
    BY <1>0, <2>0, GoneStep DEF FactorTypes
  <2>2. Wrote(t) /\ account' = Signing!NotEnrolled
    BY <1>0, <2>0, WrittenStep, Zenon
  <2>3. call'[t].op = call[t].op /\ call'[t].code = call[t].code /\ call'[t].phase = "disabled"
        /\ call'[t].codes = call[t].codes
    BY <2>1 DEF Moves, KeepsCodes
  <2>4. FitsTab(t)'
    BY <2>0, <2>3 DEF FitsTab, PhasesOf
  <2>5. opened' \subseteq (Backups \X {"row"}) \cup (Totps \X { "redis", "memory" })
    BY <1>0, <2>0 DEF FactorTypes, StoreTypes
  <2>6. FactorTypes' /\ Same(t)
    BY <1>0, <2>0, <2>1, <2>2, <2>4, <2>5, WriterTypes
  <2> QED
    BY <2>0, <2>3, <2>6, OffKeeps
<1>2. ASSUME Signing!AdminDisables PROVE FactorInv'
  <2>1. /\ Signing!Writes(Admin, Signing!NotEnrolled) /\ call' = [ call EXCEPT ![Admin] = Signing!Idle ]
        /\ UNCHANGED << phone, noted, available, pendingIn, usedIn, clock, cookie, requests, turns, opened,
           reopened, unseen >>
    BY <1>2 DEF Signing!AdminDisables
  <2>2. Ends(Admin)
    BY <1>0, <2>1, EndsStep DEF FactorTypes
  <2>3. Wrote(Admin) /\ account' = Signing!NotEnrolled
    BY <1>0, <2>1, WrittenStep, Zenon
  <2>4. \A u \in Tabs : call'[u] = call[u]
    BY <1>0, <2>2 DEF Ends
  <2>5. CallTypes'
    BY <1>0, <2>2, <2>4, IdleCall DEF Ends, FactorTypes, CallTypes, FitsTab
  <2>6. StoreTypes'
    BY <1>0, <2>1, <2>3 DEF FactorTypes, StoreTypes, Wrote
  <2>7. FactorTypes' /\ Same(Admin)
    BY <1>0, <2>3, <2>4, <2>5, <2>6 DEF FactorTypes, Same, Wrote
  <2> QED
    BY <1>0, <2>1, <2>7, OffKeeps
<1> QED
  BY <1>1, <1>2
LEMMA StoreKeeps ==
  ASSUME Signing!FactorAssumption, FactorInv, NEW t \in Tabs, Signing!StoreUsedToken(t)
  PROVE  FactorInv'
<1> DEFINE code == call[t].code
<1>0. /\ FactorTypes /\ t \in Signing!Callers /\ Tabs \subseteq Signing!Callers /\ Admin \in Signing!Callers
         /\ Admin # t /\ FitsTab(t)
         /\ "signed" \in FactorPhases
      /\ call[t].op = "verify" /\ call[t].phase = "valid" /\ code \in Totps
      /\ account' = account /\ phone' = phone /\ noted' = noted /\ available' = available /\ pendingIn' = pendingIn
      /\ clock' = clock /\ tab' = tab /\ requests' = requests /\ unseen' = unseen
  BY DEF Signing!FactorAssumption, FactorInv, FactorTypes, CallTypes, Signing!Callers, FactorPhases,
     Signing!StoreUsedToken, FitsTab
<1>1. Moves(t, "signed") /\ KeepsCodes(t)
  BY <1>0, GoneStep DEF Signing!StoreUsedToken, FactorTypes
<1>2. /\ \A u \in Signing!Callers : u # t => call'[u] = call[u]
      /\ call'[t].op = "verify" /\ call'[t].no = call[t].no /\ call'[t].code = code /\ call'[t].phase = "signed"
      /\ call'[t].codes = call[t].codes
  BY <1>0, <1>1 DEF Moves, KeepsCodes
<1>s. \A u \in Tabs : Seen(u)' <=> Seen(u)
  BY <1>0, <1>1, Zenon DEF Moves, Seen
<1>3. /\ opened' = opened \cup { << code, Signing!Store >> }
      /\ << code, Signing!Store >> \notin opened => reopened' = reopened
      /\ usedIn' = [ usedIn EXCEPT ![Signing!Store] = @ \cup { << code, clock + UsedTtl >> } ]
  BY DEF Signing!StoreUsedToken, Signing!Accepts
<1>4. Signing!Store \in { "redis", "memory" } /\ Signing!Store' = Signing!Store /\ clock + UsedTtl \in Nat
      /\ clock \in Nat
  BY <1>0 DEF Signing!FactorAssumption, Signing!Store, FactorTypes, StoreTypes
<1>5. crossed' \in BOOLEAN /\ (Clean' => Clean /\ \A u \in Tabs : u # t /\ call[u].code = code => ~ Signing!Midway(u))
  <2>1. crossed' = (crossed \/ \E u \in Signing!Callers \ {t} : Signing!Midway(u) /\ call[u].code = call[t].code)
    BY Zenon DEF Signing!StoreUsedToken
  <2>2. crossed \in BOOLEAN
    BY <1>0 DEF FactorTypes, StoreTypes
  <2>3. Clean' => ~ (crossed \/ \E u \in Signing!Callers \ {t} : Signing!Midway(u) /\ call[u].code = call[t].code)
    BY <2>1, Zenon DEF Clean
  <2>4. crossed' \in BOOLEAN
    BY <2>1, Zenon
  <2> QED
    BY <1>0, <2>2, <2>3, <2>4, Zenon DEF Clean
<1>6. usedIn' \in [ { "redis", "memory" } -> SUBSET (Codes \X Nat) ]
      /\ (\A w \in { "redis", "memory" } : usedIn[w] \subseteq usedIn'[w])
      /\ << code, clock + UsedTtl >> \in usedIn'[Signing!Store]
  BY <1>0, <1>3, <1>4 DEF FactorTypes, StoreTypes, Codes
<1>7. FactorTypes'
  <2>1. FitsTab(t)'
    BY <1>0, <1>2 DEF FitsTab, PhasesOf
  <2>2. ASSUME NEW u \in Tabs, u # t PROVE FitsTab(u)'
    BY <1>0, <1>2, <2>2 DEF FitsTab, FactorTypes, CallTypes
  <2>3. CallTypes'
    BY <1>0, <1>1, <1>2, <2>1, <2>2 DEF CallTypes, FactorTypes, Moves
  <2>4. StoreTypes'
    BY <1>0, <1>3, <1>4, <1>5, <1>6 DEF StoreTypes, FactorTypes
  <2> QED
    BY <1>0, <2>3, <2>4 DEF FactorTypes, TabTypes
<1>8. \A b : << b, "row" >> \in opened' <=> << b, "row" >> \in opened
  BY <1>3, <1>4
<1>9. PhoneInv' /\ ClockInv'
  BY <1>0, <1>2 DEF FactorInv, PhoneInv, Signing!PhoneVerifies, Signing!Enabled, ClockInv
<1>10. NumberInv'
  <2>1. \A u \in Tabs : Unseen(u)' => Unseen(u)
    BY <1>0, <1>2 DEF Unseen
  <2>2. \A b : Held(b)' => Held(b)
    BY <1>0, <1>2, <1>8 DEF Held
  <2>3. \A u \in Tabs : call'[u].no = call[u].no /\ (call'[u].phase # "none" => call[u].phase # "none")
    BY <1>0, <1>2
  <2> QED
    BY <1>0, <2>1, <2>2, <2>3 DEF FactorInv, NumberInv
<1>11. RowInv'
  BY <1>0, <1>2, <1>5, <1>8 DEF FactorInv, RowInv
<1>12. OpenInv'
  BY <1>0, <1>3, <1>5 DEF FactorInv, OpenInv, OnceInv, Once
<1>13. UsedInv'
  <2>1. code[3] \in Nat /\ clock + UsedTtl >= code[3] + UsedTtl
    BY <1>0, <1>4, CodeTypes DEF Signing!FactorAssumption, FactorInv, ClockInv
  <2>2. ASSUME NEW c \in Totps, NEW w \in { "redis", "memory" }, << c, w >> \in opened'
        PROVE  \E e \in Nat : << c, e >> \in usedIn'[w] /\ e >= c[3] + UsedTtl
    <3>1. CASE << c, w >> \in opened
      BY <1>6, <3>1 DEF FactorInv, UsedInv
    <3>2. CASE c = code /\ w = Signing!Store
      BY <1>4, <1>6, <2>1, <3>2
    <3> QED
      BY <1>3, <2>2, <3>1, <3>2
  <2>3. available # "gone" => Signing!Store = "redis"
    <3>1. available # "starting"
      BY <1>0 DEF FactorInv, UsedInv
    <3>2. available \in { "starting", "up", "gone" }
      BY <1>0 DEF FactorTypes, StoreTypes
    <3> QED
      BY <3>1, <3>2 DEF Signing!Store
  <2>4. available # "gone" => \A c \in Totps : << c, "memory" >> \notin opened'
    BY <1>3, <2>3 DEF FactorInv, UsedInv
  <2>5. available = "starting" => \A u \in Tabs : tab[u].at = "account" /\ call'[u].op \notin { "login", "verify" }
    BY <1>0, <1>2 DEF FactorInv, UsedInv
  <2> QED
    BY <1>0, <2>2, <2>4, <2>5 DEF UsedInv
<1>14. OnceInv'
  <2>1. ASSUME NEW u \in Tabs, Clean' PROVE Once(u)'
    <3>1. CASE u = t
      BY <1>2, <3>1 DEF Once
    <3>2. CASE u # t /\ call[u].code = code
      BY <1>0, <1>2, <1>5, <2>1, <3>2 DEF Once, Signing!Midway
    <3>3. CASE u # t /\ call[u].code # code
      BY <1>0, <1>2, <1>3, <1>4, <1>5, <2>1, <3>3 DEF Once, FactorInv, OnceInv
    <3> QED
      BY <3>1, <3>2, <3>3
  <2> QED
    BY <2>1 DEF OnceInv
<1>15. NotedInv'
  <2>1. \A u \in Tabs : (WithList(u)' <=> WithList(u)) /\ call'[u].codes = call[u].codes
    BY <1>0, <1>2 DEF WithList
  <2>2. (Signing!Enabled' <=> Signing!Enabled) /\ (Met' => Met)
    BY <1>0 DEF Signing!Enabled, Met
  <2> QED
    BY <1>0, <1>5, <1>8, <2>1, <2>2 DEF FactorInv, NotedInv
<1>16. TellInv'
  <2>1. \A u \in Tabs : Told(u)' <=> Told(u)
    BY <1>0, <1>2, <1>s DEF Told
  <2>2. Signing!Enabled' <=> Signing!Enabled
    BY <1>0 DEF Signing!Enabled
  <2>3. \A u \in Tabs : FreshTab(u)' = FreshTab(u) /\ (Badge(u)' <=> Badge(u))
    BY <1>0 DEF FreshTab, Badge
  <2>4. \A u \in Tabs : call'[u].op = call[u].op /\ tab'[u] = tab[u]
    BY <1>0, <1>2
  <2> QED
    BY <1>s, <2>1, <2>2, <2>3, <2>4 DEF FactorInv, TellInv, TellsTab
<1> QED
  BY <1>7, <1>9, <1>10, <1>11, <1>12, <1>13, <1>14, <1>15, <1>16 DEF FactorInv

\* What the user can type.
LEMMA AtHand ==
  ASSUME Signing!FactorAssumption, FactorTypes, NEW code \in Signing!CodesAtHand
  PROVE  \/ code \in Totps /\ code[2] \in phone /\ code[3] = clock
         \/ code \in noted /\ code \in Backups
<1>1. phone \subseteq Nat /\ noted \subseteq Backups /\ clock \in Nat
  BY DEF FactorTypes, StoreTypes
<1>2. CASE \E s \in phone : code = Signing!Totp(s, clock)
  <2>1. PICK s \in phone : code = Signing!Totp(s, clock)
    BY <1>2
  <2>2. \A n \in Nat, w \in Nat : Signing!Totp(n, w) \in Totps /\ Signing!Totp(n, w)[2] = n /\ Signing!Totp(n, w)[3] = w
    BY CodeTypes
  <2> QED
    BY <1>1, <2>1, <2>2
<1>3. (\E s \in phone : code = Signing!Totp(s, clock)) \/ code \in noted
  BY Zenon DEF Signing!CodesAtHand
<1> QED
  BY <1>1, <1>2, <1>3

LEMMA CodesAsked ==
  ASSUME Signing!FactorAssumption, FactorInv, NEW t \in Tabs, NEW op \in Ops \ {"none"},
         NEW code \in Signing!CodesAtHand \cup {None}, Signing!Asks(t, op, code),
         op \in { "login", "setup" } <=> code = None,
         op = "enroll" => Signing!IsTotp(code),
         op = "setup" => tab[t].step = "idle",
         op \in { "login", "verify" } => tab[t].at # "account"
  PROVE  FactorInv'
<1>0. /\ FactorTypes /\ t \in Signing!Callers /\ Tabs \subseteq Signing!Callers /\ Admin \in Signing!Callers
         /\ Admin # t
      /\ account' = account /\ phone' = phone /\ noted' = noted /\ available' = available /\ usedIn' = usedIn
         /\ clock' = clock
      /\ pendingIn' = pendingIn /\ opened' = opened /\ reopened' = reopened /\ crossed' = crossed /\ unseen' = unseen
      /\ tab' = tab /\ requests' = requests + 1 /\ requests \in Nat
  BY DEF Signing!FactorAssumption, FactorInv, FactorTypes, StoreTypes, Signing!Callers, Signing!Asks
<1>1. code = None \/ (code \in Totps /\ code[2] \in phone /\ code[3] = clock) \/ (code \in noted /\ code \in Backups)
  BY <1>0, AtHand
<1>2. code \in Codes \cup {None} /\ (op = "enroll" => code \in Totps /\ code[2] \in phone)
      /\ (code \in Backups => code \in noted) /\ (code \in Totps => code[3] <= clock)
      /\ (op \in { "verify", "disable", "regen" } => code \in Codes)
  <2>1. None \notin Totps /\ None \notin Backups
    BY DEF Signing!FactorAssumption, Totps, Backups
  <2>2. Signing!IsTotp(code) => code \notin Backups
    BY CodeTypes DEF Signing!IsTotp
  <2>3. clock \in Nat
    BY <1>0 DEF FactorTypes, StoreTypes
  <2>4. code \in Totps => code \notin Backups
    BY CodeTypes
  <2> QED
    BY <1>1, <2>1, <2>2, <2>3, <2>4 DEF Codes
<1>3. Asked(t, op, code)
  BY <1>0, <1>2, AskedStep DEF FactorTypes
<1>4. /\ \A u \in Signing!Callers : u # t => call'[u] = call[u]
      /\ call'[t].op = op /\ call'[t].no = requests + 1 /\ call'[t].code = code /\ call'[t].phase = "sent"
      /\ call'[t].codes = {} /\ call[t].phase = "none" /\ Seen(t)'
  BY <1>3 DEF Asked
<1>5. FactorTypes'
  <2>1. FitsTab(t)'
    BY <1>2, <1>4 DEF FitsTab, PhasesOf, Ops
  <2>2. ASSUME NEW u \in Tabs, u # t PROVE FitsTab(u)'
    BY <1>0, <1>4, <2>2 DEF FitsTab, FactorTypes, CallTypes
  <2>3. CallTypes'
    BY <1>0, <1>3, <1>4, <2>1, <2>2 DEF CallTypes, FactorTypes, Asked
  <2>4. StoreTypes'
    BY <1>0 DEF StoreTypes, FactorTypes
  <2> QED
    BY <1>0, <2>3, <2>4 DEF FactorTypes, TabTypes
<1>6. PhoneInv' /\ ClockInv'
  <2>1. Signing!PhoneVerifies'
    BY <1>0 DEF FactorInv, PhoneInv, Signing!PhoneVerifies, Signing!Enabled
  <2>2. ASSUME NEW u \in Tabs
        PROVE  /\ call'[u].op = "enroll" => call'[u].code[2] \in phone
               /\ call'[u].phase = "confirmed" => call'[u].secret \in phone
               /\ call'[u].code \in Totps => call'[u].code[3] <= clock
    <3>1. CASE u = t
      BY <1>2, <1>4, <3>1
    <3>2. CASE u # t
      BY <1>0, <1>4, <3>2 DEF FactorInv, PhoneInv, ClockInv
    <3> QED
      BY <3>1, <3>2
  <2> QED
    BY <1>0, <2>1, <2>2 DEF PhoneInv, ClockInv
<1>7. NumberInv'
  <2>0. \A u \in Tabs : call[u].no \in Nat /\ call[u].no <= requests
    BY <1>0, FieldTypes DEF FactorInv, NumberInv, FactorTypes
  <2>1. \A b \in Backups : Held(b)' => Held(b)
    BY <1>0, <1>2, <1>4 DEF Held
  <2>2. \A u \in Tabs : u # t => (Unseen(u)' <=> Unseen(u))
    BY <1>0, <1>4 DEF Unseen
  <2>3. ASSUME NEW b \in Backups, Held(b)'
        PROVE  b[2] <= requests' /\ \A u \in Tabs : Unseen(u)' => b[2] # call'[u].no
    <3>1. Held(b) /\ b[2] \in Nat
      BY <2>1, <2>3, CodeTypes
    <3>2. b[2] <= requests /\ \A u \in Tabs : Unseen(u) => b[2] # call[u].no
      BY <3>1 DEF FactorInv, NumberInv
    <3> QED
      BY <1>0, <1>4, <2>2, <3>1, <3>2
  <2>4. ASSUME NEW u \in Tabs PROVE call'[u].no <= requests'
    BY <1>0, <1>4, <2>0
  <2>5. ASSUME NEW u \in Tabs, NEW v \in Tabs, u # v, call'[u].phase # "none", call'[v].phase # "none"
        PROVE  call'[u].no # call'[v].no
    <3>1. CASE u # t /\ v # t
      BY <1>0, <1>4, <2>5, <3>1 DEF FactorInv, NumberInv
    <3>2. CASE u = t \/ v = t
      BY <1>0, <1>4, <2>0, <2>5, <3>2
    <3> QED
      BY <3>1, <3>2
  <2> QED
    BY <2>3, <2>4, <2>5 DEF NumberInv
<1>8. RowInv' /\ OpenInv'
  BY <1>0, <1>4 DEF FactorInv, RowInv, OpenInv, Clean
<1>9. UsedInv'
  BY <1>0, <1>4 DEF FactorInv, UsedInv
<1>10. OnceInv'
  BY <1>0, <1>4 DEF FactorInv, OnceInv, Once, Signing!Store, Clean
<1>11. NotedInv'
  <2>1. \A u \in Tabs : (WithList(u)' <=> WithList(u)) /\ (WithList(u) => call'[u].codes = call[u].codes)
    BY <1>0, <1>4 DEF WithList
  <2>2. (Signing!Enabled' <=> Signing!Enabled) /\ (Met' <=> Met) /\ (Clean' <=> Clean)
    BY <1>0 DEF Signing!Enabled, Met, Clean
  <2> QED
    BY <1>0, <2>1, <2>2 DEF FactorInv, NotedInv
<1>12. TellInv'
  <2>1. ~ Told(t)
    BY <1>4 DEF Told
  <2>2. \A u \in Tabs : u # t => (Told(u)' <=> Told(u)) /\ (Seen(u)' <=> Seen(u)) /\ call'[u].op = call[u].op
    BY <1>0, <1>4 DEF Told, Seen
  <2>3. (Signing!Enabled' <=> Signing!Enabled) /\ \A u \in Tabs : FreshTab(u)' = FreshTab(u) /\ (Badge(u)' <=> Badge(u))
    BY <1>0 DEF Signing!Enabled, FreshTab, Badge
  <2> QED
    BY <1>0, <1>4, <2>1, <2>2, <2>3 DEF FactorInv, TellInv, TellsTab
<1> QED
  BY <1>5, <1>6, <1>7, <1>8, <1>9, <1>10, <1>11, <1>12 DEF FactorInv

\* An answer leaves the rest of the system alone.
EndFrame(t) ==
    /\ Ends(t)
    /\ account' = account /\ available' = available /\ pendingIn' = pendingIn /\ usedIn' = usedIn /\ clock' = clock
    /\ requests' = requests /\ opened' = opened /\ reopened' = reopened /\ crossed' = crossed

LEMMA Ended ==
  ASSUME Signing!FactorAssumption, FactorInv, NEW t \in Tabs, EndFrame(t), TabTypes',
         phone' \subseteq Nat, phone \subseteq phone', noted' \subseteq Backups, unseen' \in BOOLEAN,
         \A b \in noted' : b \in noted \/ b \in call[t].codes,
         available = "starting" => \A u \in Tabs : tab'[u].at = "account"
  PROVE  FactorTypes' /\ PhoneInv' /\ NumberInv' /\ RowInv' /\ ClockInv' /\ UsedInv' /\ OnceInv' /\ OpenInv'
<1>0. /\ FactorTypes /\ t \in Signing!Callers /\ Tabs \subseteq Signing!Callers /\ Admin \in Signing!Callers
         /\ Admin # t
      /\ account' = account /\ available' = available /\ pendingIn' = pendingIn /\ usedIn' = usedIn /\ clock' = clock
      /\ requests' = requests /\ opened' = opened /\ reopened' = reopened /\ crossed' = crossed
  BY DEF Signing!FactorAssumption, FactorInv, Signing!Callers, EndFrame
<1>1. /\ \A u \in Signing!Callers : u # t => call'[u] = call[u]
      /\ call'[t] = Signing!Idle
  BY DEF EndFrame, Ends
<1>2. call'[t].op = "none" /\ call'[t].phase = "none" /\ call'[t].code = None /\ call'[t].codes = {}
  BY <1>1, IdleCall, Zenon
<1>n. call'[t].no = 0 /\ requests \in Nat
  <2>1. Signing!Idle.no = 0
    BY DEF Signing!Idle
  <2> QED
    BY <1>0, <1>1, <2>1 DEF FactorTypes, StoreTypes
<1>c. None \notin Totps /\ None \notin Backups
  BY DEF Signing!FactorAssumption, Totps, Backups
<1>3. FactorTypes'
  <2>1. FitsTab(t)'
    BY <1>2 DEF FitsTab, PhasesOf
  <2>2. ASSUME NEW u \in Tabs, u # t PROVE FitsTab(u)'
    BY <1>0, <1>1, <2>2 DEF FitsTab, FactorTypes, CallTypes
  <2>3. CallTypes'
    BY <1>0, <1>1, <2>1, <2>2 DEF CallTypes, FactorTypes, EndFrame, Ends
  <2>4. StoreTypes'
    BY <1>0 DEF StoreTypes, FactorTypes
  <2> QED
    BY <1>0, <2>3, <2>4 DEF FactorTypes
<1>4. PhoneInv' /\ ClockInv'
  <2>1. Signing!PhoneVerifies'
    BY <1>0 DEF FactorInv, PhoneInv, Signing!PhoneVerifies, Signing!Enabled
  <2>2. ASSUME NEW u \in Tabs
        PROVE  /\ call'[u].op = "enroll" => call'[u].code[2] \in phone'
               /\ call'[u].phase = "confirmed" => call'[u].secret \in phone'
               /\ call'[u].code \in Totps => call'[u].code[3] <= clock
    <3>1. CASE u = t
      BY <1>2, <1>c, <3>1
    <3>2. CASE u # t
      BY <1>0, <1>1, <3>2 DEF FactorInv, PhoneInv, ClockInv
    <3> QED
      BY <3>1, <3>2
  <2> QED
    BY <1>0, <2>1, <2>2 DEF PhoneInv, ClockInv
<1>5. NumberInv'
  <2>1. \A u \in Tabs : Unseen(u)' => u # t /\ Unseen(u)
    BY <1>0, <1>1, <1>2 DEF Unseen
  <2>2. ASSUME NEW b \in Backups, Held(b)' PROVE Held(b)
    <3>1. CASE b \in account'.codes \/ << b, "row" >> \in opened'
      BY <1>0, <3>1 DEF Held
    <3>2. CASE b \in noted'
      BY <3>2 DEF Held
    <3>3. ASSUME NEW u \in Tabs, b \in call'[u].codes \/ b = call'[u].code PROVE Held(b)
      <4>1. u # t
        BY <1>2, <1>c, <3>3
      <4>2. call'[u] = call[u]
        BY <1>0, <1>1, <4>1
      <4> QED
        BY <3>3, <4>2 DEF Held
    <3> QED
      BY <2>2, <3>1, <3>2, <3>3 DEF Held
  <2>3. \A u \in Tabs : u # t => call'[u] = call[u]
    BY <1>0, <1>1
  <2> QED
    BY <1>0, <1>2, <1>n, <2>1, <2>2, <2>3 DEF FactorInv, NumberInv
<1>6. RowInv' /\ OpenInv'
  BY <1>0, <1>1, <1>2 DEF FactorInv, RowInv, OpenInv, Clean
<1>7. UsedInv'
  BY <1>0, <1>1, <1>2 DEF FactorInv, UsedInv
<1>8. OnceInv'
  BY <1>0, <1>1, <1>2 DEF FactorInv, OnceInv, Once, Signing!Store, Clean
<1> QED
  BY <1>3, <1>4, <1>5, <1>6, <1>7, <1>8

\* What a page that saw the answer shows.
Shown(t) ==
    /\ TabTypes'
    /\ \A u \in Tabs : u # t => tab'[u] = tab[u]
    /\ \/ call[t].phase = "challenged" /\ tab'[t].at = "mfa" /\ tab'[t].step = tab[t].step
       \/ call[t].phase = "signed" /\ tab'[t].at = "account" /\ tab'[t].step = "idle" /\ (Badge(t)' <=> Signing!Enabled)
       \/ call[t].phase = "set" /\ tab'[t].step = "qr" /\ tab'[t].at = tab[t].at
          /\ (Badge(t)' <=> Badge(t)) /\ (FreshTab(t)' <=> FreshTab(t))
       \/ call[t].phase = "listed" /\ call[t].op = "enroll" /\ tab'[t].step = "codes" /\ tab'[t].at = tab[t].at
       \/ call[t].phase = "disabled" /\ tab'[t].step = tab[t].step /\ tab'[t].at = "account"
          /\ (Badge(t)' <=> Signing!Enabled)
       \/ /\ call[t].phase \notin { "challenged", "signed", "set", "disabled" }
          /\ ~ (call[t].phase = "listed" /\ call[t].op = "enroll") /\ tab' = tab

LEMMA AccountPlace ==
  \A step \in { "idle", "qr", "codes" } :
    /\ Signing!Account(step) \in TabOf(BOOLEAN) /\ Signing!Account(step).at = "account"
       /\ Signing!Account(step).step = step
    /\ Signing!Account(step).badge = Signing!Enabled
<1>1. \A Flag : \A yes \in Flag, no \in Flag : \A step \in { "idle", "qr", "codes" } :
        LET l == [ at |-> "account", step |-> step, badge |-> yes, stale |-> no ]
        IN  l \in TabOf(Flag) /\ l.at = "account" /\ l.step = step /\ l.badge = yes
  BY DEF TabOf
<1>2. Signing!Enabled \in BOOLEAN /\ FALSE \in BOOLEAN
  BY Zenon DEF Signing!Enabled
<1> QED
  BY <1>1, <1>2, Zenon DEF Signing!Account

LEMMA PlaceSteps ==
  \A l \in TabOf(BOOLEAN) :
    /\ [ l EXCEPT !.at = "mfa" ] \in TabOf(BOOLEAN) /\ [ l EXCEPT !.at = "mfa" ].at = "mfa"
    /\ [ l EXCEPT !.at = "mfa" ].step = l.step
    /\ \A s \in { "idle", "qr", "codes" } :
         /\ [ l EXCEPT !.step = s ] \in TabOf(BOOLEAN) /\ [ l EXCEPT !.step = s ].at = l.at
         /\ [ l EXCEPT !.step = s ].step = s /\ [ l EXCEPT !.step = s ].badge = l.badge
         /\ [ l EXCEPT !.step = s ].stale = l.stale
<1>1. \A Flag : \A l \in TabOf(Flag) :
        /\ [ l EXCEPT !.at = "mfa" ] \in TabOf(Flag) /\ [ l EXCEPT !.at = "mfa" ].at = "mfa"
        /\ [ l EXCEPT !.at = "mfa" ].step = l.step
        /\ \A s \in { "idle", "qr", "codes" } :
             /\ [ l EXCEPT !.step = s ] \in TabOf(Flag) /\ [ l EXCEPT !.step = s ].at = l.at
             /\ [ l EXCEPT !.step = s ].step = s /\ [ l EXCEPT !.step = s ].badge = l.badge
             /\ [ l EXCEPT !.step = s ].stale = l.stale
  BY DEF TabOf
<1> QED
  BY <1>1, Zenon

LEMMA TabFields ==
  TabTypes => \A u \in Tabs : tab[u] \in TabOf(BOOLEAN) /\ tab[u].step \in { "idle", "qr", "codes" }
                              /\ tab[u].at \in { "signin", "mfa", "account" }
<1>1. \A Flag : \A f \in [ Tabs -> TabOf(Flag) ] : \A u \in Tabs :
        f[u] \in TabOf(Flag) /\ f[u].step \in { "idle", "qr", "codes" } /\ f[u].at \in { "signin", "mfa", "account" }
  BY DEF TabOf
<1> QED
  BY <1>1, Zenon DEF TabTypes

LEMMA ShowsStep ==
  ASSUME FactorTypes, NEW t \in Tabs, tab' = [ tab EXCEPT ![t] = Signing!Shows(t, call[t].phase) ]
  PROVE  Shown(t)
<1>0. /\ tab \in [ Tabs -> TabOf(BOOLEAN) ] /\ tab[t] \in TabOf(BOOLEAN) /\ tab[t].step \in { "idle", "qr", "codes" }
  BY TabFields, Zenon DEF FactorTypes, TabTypes
<1>1. \A S : \A f \in [ Tabs -> S ] : \A v \in S :
        LET g == [ f EXCEPT ![t] = v ]
        IN  g \in [ Tabs -> S ] /\ (\A u \in Tabs : u # t => g[u] = f[u]) /\ g[t] = v
  OBVIOUS
<1>w. \A v \in TabOf(BOOLEAN) : Signing!Shows(t, call[t].phase) = v =>
        TabTypes' /\ (\A u \in Tabs : u # t => tab'[u] = tab[u]) /\ tab'[t] = v
  BY <1>0, <1>1, Zenon DEF TabTypes
<1>2. CASE call[t].phase = "challenged"
  <2> DEFINE v == [ tab[t] EXCEPT !.at = "mfa" ]
  <2>1. Signing!Shows(t, call[t].phase) = v
    BY <1>2, Zenon DEF Signing!Shows
  <2>2. v \in TabOf(BOOLEAN) /\ v.at = "mfa" /\ v.step = tab[t].step
    BY <1>0, PlaceSteps, Zenon
  <2> HIDE DEF v
  <2>3. TabTypes' /\ (\A u \in Tabs : u # t => tab'[u] = tab[u]) /\ tab'[t] = v
    BY <1>w, <2>1, <2>2, Zenon
  <2> QED
    BY <1>2, <2>2, <2>3, Zenon DEF Shown
<1>3. CASE call[t].phase = "signed"
  <2>1. Signing!Shows(t, call[t].phase) = Signing!Account("idle")
    BY <1>3, Zenon DEF Signing!Shows
  <2> QED
    BY <1>0, <1>3, <1>w, <2>1, AccountPlace, Zenon DEF Shown, Badge
<1>4. CASE call[t].phase = "set"
  <2> DEFINE v == [ tab[t] EXCEPT !.step = "qr" ]
  <2>1. Signing!Shows(t, call[t].phase) = v
    BY <1>4, Zenon DEF Signing!Shows
  <2>2. v \in TabOf(BOOLEAN) /\ v.step = "qr" /\ v.at = tab[t].at
      /\ v.badge = tab[t].badge /\ v.stale = tab[t].stale
    BY <1>0, PlaceSteps, Zenon
  <2> HIDE DEF v
  <2>3. TabTypes' /\ (\A u \in Tabs : u # t => tab'[u] = tab[u]) /\ tab'[t] = v
    BY <1>w, <2>1, <2>2, Zenon
  <2> QED
    BY <1>4, <2>2, <2>3, Zenon DEF Shown, Badge, FreshTab
<1>5. CASE call[t].phase = "listed" /\ call[t].op = "enroll"
  <2> DEFINE v == [ tab[t] EXCEPT !.step = "codes" ]
  <2>1. Signing!Shows(t, call[t].phase) = v
    BY <1>5, Zenon DEF Signing!Shows
  <2>2. v \in TabOf(BOOLEAN) /\ v.step = "codes" /\ v.at = tab[t].at
    BY <1>0, PlaceSteps, Zenon
  <2> HIDE DEF v
  <2>3. TabTypes' /\ (\A u \in Tabs : u # t => tab'[u] = tab[u]) /\ tab'[t] = v
    BY <1>w, <2>1, <2>2, Zenon
  <2> QED
    BY <1>5, <2>2, <2>3, Zenon DEF Shown
<1>6. CASE call[t].phase = "disabled"
  <2>1. Signing!Shows(t, call[t].phase) = Signing!Account(tab[t].step)
    BY <1>6, Zenon DEF Signing!Shows
  <2> QED
    BY <1>0, <1>6, <1>w, <2>1, AccountPlace, Zenon DEF Shown, Badge
<1>7. CASE call[t].phase \notin { "challenged", "signed", "set", "disabled" }
      /\ ~ (call[t].phase = "listed" /\ call[t].op = "enroll")
  <2>1. Signing!Shows(t, call[t].phase) = tab[t]
    BY <1>7, Zenon DEF Signing!Shows
  <2>2. TabTypes' /\ (\A u \in Tabs : u # t => tab'[u] = tab[u]) /\ tab'[t] = tab[t]
    BY <1>0, <1>w, <2>1, Zenon
  <2>3. \A S : \A f \in [ Tabs -> S ] : [ f EXCEPT ![t] = f[t] ] = f
    OBVIOUS
  <2>4. tab' = tab
    BY <1>0, <2>1, <2>3, Zenon
  <2> QED
    BY <1>7, <2>2, <2>4, Zenon DEF Shown
<1> QED
  BY <1>2, <1>3, <1>4, <1>5, <1>6, <1>7, Zenon

LEMMA AnswerKeeps ==
  ASSUME Signing!FactorAssumption, FactorInv, NEW t \in Tabs, Signing!Answer(t)
  PROVE  FactorInv'
<1>0. /\ FactorTypes /\ t \in Signing!Callers /\ FitsTab(t) /\ call[t].phase \in Signing!Answered
      /\ phone \subseteq Nat /\ noted \subseteq Backups /\ call[t].codes \subseteq Backups
      /\ account' = account /\ available' = available /\ pendingIn' = pendingIn /\ usedIn' = usedIn /\ clock' = clock
      /\ requests' = requests /\ opened' = opened /\ reopened' = reopened /\ crossed' = crossed
  BY FieldTypes DEF FactorInv, FactorTypes, CallTypes, StoreTypes, Signing!Callers, Signing!Answer
<1>u. unseen \in BOOLEAN /\ TabTypes
  BY <1>0 DEF FactorTypes, StoreTypes
<1>1. EndFrame(t)
  <2>1. Ends(t)
    BY <1>0, EndsStep DEF FactorTypes, Signing!Answer
  <2> QED
    BY <1>0, <2>1 DEF EndFrame
<1>2. /\ \A u \in Tabs : u # t => call'[u] = call[u] /\ (Seen(u)' <=> Seen(u))
      /\ call'[t] = Signing!Idle
  <2>1. (\A u \in Tabs : u # t => call'[u] = call[u]) /\ call'[t] = Signing!Idle
    BY <1>1 DEF EndFrame, Ends, Signing!Callers
  <2> QED
    BY <2>1, Zenon DEF Seen
<1>3. call'[t].op = "none" /\ call'[t].phase = "none"
  BY <1>2, IdleCall, Zenon
<1>4. Signing!Enabled' <=> Signing!Enabled
  BY <1>0 DEF Signing!Enabled
<1>5. \A u \in Tabs : u # t => (WithList(u)' <=> WithList(u)) /\ (Told(u)' <=> Told(u))
  BY <1>2 DEF WithList, Told
<1>6. ~ WithList(t)'
  BY <1>3 DEF WithList
<1>7. CASE ~ Seen(t) /\ (Met' => Met /\ call[t].phase # "listed") /\ unseen' \in BOOLEAN
           /\ tab' = tab /\ phone' = phone /\ noted' = noted
  <2>1. available = "starting" => \A u \in Tabs : tab'[u].at = "account"
    BY <1>7 DEF FactorInv, UsedInv
  <2>2. TabTypes'
    BY <1>7, <1>u DEF TabTypes
  <2>3. /\ FactorTypes' /\ PhoneInv' /\ NumberInv' /\ RowInv' /\ ClockInv' /\ UsedInv' /\ OnceInv' /\ OpenInv'
    BY <1>0, <1>1, <1>7, <2>1, <2>2, Ended
  <2>4. NotedInv'
    <3>1. Met' => ~ WithList(t)
      BY <1>0, <1>7 DEF WithList, Signing!Answered
    <3> QED
      BY <1>0, <1>2, <1>4, <1>5, <1>6, <1>7, <3>1 DEF FactorInv, NotedInv, Clean
  <2>5. TellInv'
    <3>1. ~ Told(t)
      BY <1>7 DEF Told
    <3>2. \A u \in Tabs : (FreshTab(u)' <=> FreshTab(u)) /\ (Badge(u)' <=> Badge(u))
      BY <1>7 DEF FreshTab, Badge
    <3> QED
      BY <1>2, <1>3, <1>4, <1>5, <1>7, <3>1, <3>2 DEF FactorInv, TellInv, TellsTab
  <2> QED
    BY <2>3, <2>4, <2>5 DEF FactorInv
<1>8. CASE /\ Seen(t) /\ Shown(t) /\ unseen' = unseen
           /\ phone' = IF call[t].phase = "set" THEN phone \cup {call[t].secret} ELSE phone
           /\ noted' = IF call[t].phase = "listed" THEN call[t].codes ELSE noted
  <2>1. available = "starting" => \A u \in Tabs : tab'[u].at = "account"
    <3> SUFFICES ASSUME available = "starting", NEW u \in Tabs PROVE tab'[u].at = "account"
      OBVIOUS
    <3>1. \A v \in Tabs : tab[v].at = "account" /\ call[v].op \notin { "login", "verify" }
      BY DEF FactorInv, UsedInv
    <3>2. call[t].phase # "challenged"
      BY <1>0, <3>1 DEF FitsTab, PhasesOf
    <3> QED
      BY <1>8, <3>1, <3>2 DEF Shown
  <2>2. call[t].phase = "set" => call[t].secret \in Nat /\ call[t].op = "setup"
    BY <1>0 DEF FitsTab, PhasesOf
  <2>3. /\ FactorTypes' /\ PhoneInv' /\ NumberInv' /\ RowInv' /\ ClockInv' /\ UsedInv' /\ OnceInv' /\ OpenInv'
    <3>1. phone' \subseteq Nat /\ phone \subseteq phone' /\ noted' \subseteq Backups
          /\ (\A b \in noted' : b \in noted \/ b \in call[t].codes) /\ unseen' \in BOOLEAN
      BY <1>0, <1>u, <1>8, <2>2
    <3> QED
      BY <1>0, <1>1, <1>8, <2>1, <3>1, Ended DEF Shown
  <2>4. NotedInv'
    <3>1. Met' <=> Met
      BY <1>8 DEF Met
    <3>2. CASE call[t].phase = "listed"
      <4>1. Clean /\ Met => account.codes = call[t].codes /\ \A b \in account.codes : << b, "row" >> \notin opened
        BY <3>2 DEF FactorInv, NotedInv, RowInv, WithList
      <4> QED
        BY <1>0, <1>2, <1>5, <1>6, <1>8, <3>1, <3>2, <4>1 DEF FactorInv, NotedInv, Clean
    <3>3. CASE call[t].phase # "listed"
      <4>1. ~ WithList(t)
        BY <1>0, <3>3 DEF WithList, Signing!Answered
      <4> QED
        BY <1>0, <1>2, <1>4, <1>5, <1>6, <1>8, <3>1, <3>3, <4>1 DEF FactorInv, NotedInv, Clean
    <3> QED
      BY <3>2, <3>3
  <2>5. TellInv'
    <3>1. ASSUME NEW u \in Tabs, u # t PROVE TellsTab(u)'
      <4>1. tab'[u] = tab[u] /\ (FreshTab(u)' <=> FreshTab(u)) /\ (Badge(u)' <=> Badge(u))
        BY <1>8, <3>1 DEF Shown, FreshTab, Badge
      <4> QED
        BY <1>2, <1>4, <1>5, <3>1, <4>1 DEF FactorInv, TellInv, TellsTab
    <3>2. tab'[t].at = "account" /\ FreshTab(t)' /\ tab'[t].step # "codes" => (Badge(t)' <=> Signing!Enabled)
      <4>1. CASE call[t].phase = "set"
        <5>1. tab[t].step = "idle" /\ ~ Told(t)
          BY <1>8, <2>2, <4>1 DEF FactorInv, TellInv, TellsTab, Told
        <5>2. tab'[t].at = tab[t].at /\ (Badge(t)' <=> Badge(t)) /\ (FreshTab(t)' <=> FreshTab(t))
          BY <1>8, <4>1 DEF Shown
        <5> QED
          BY <5>1, <5>2 DEF FactorInv, TellInv, TellsTab
      <4>2. CASE call[t].phase \notin { "challenged", "signed", "set", "disabled" } /\ tab' = tab
                 /\ ~ (call[t].phase = "listed" /\ call[t].op = "enroll")
        <5>1. ~ Told(t)
          BY <1>0, <4>2 DEF Told, Signing!Answered
        <5>2. (Badge(t)' <=> Badge(t)) /\ (FreshTab(t)' <=> FreshTab(t))
          BY <4>2 DEF Badge, FreshTab
        <5> QED
          BY <4>2, <5>1, <5>2 DEF FactorInv, TellInv, TellsTab
      <4> QED
        BY <1>8, <4>1, <4>2 DEF Shown
    <3>3. TellsTab(t)'
      BY <1>3, <1>4, <3>2 DEF TellsTab
    <3> QED
      BY <3>1, <3>3 DEF TellInv
  <2> QED
    BY <2>3, <2>4, <2>5 DEF FactorInv
<1>9. CASE ~ call[t].seen
  <2>1. unseen' = (unseen \/ call[t].phase = "listed") /\ UNCHANGED << tab, phone, noted, cookie >>
    BY <1>9, Zenon DEF Signing!Answer
  <2>2. ~ Seen(t)
    BY <1>9, Zenon DEF Seen
  <2>3. Met' => Met /\ call[t].phase # "listed"
    BY <1>u, <2>1, Zenon DEF Met
  <2>4. unseen' \in BOOLEAN
    BY <2>1, Zenon
  <2>5. tab' = tab /\ phone' = phone /\ noted' = noted
    BY <2>1
  <2> QED
    BY <1>7, <2>2, <2>3, <2>4, <2>5
<1>10. CASE call[t].seen
  <2>1. /\ tab' = [ tab EXCEPT ![t] = Signing!Shows(t, call[t].phase) ]
        /\ phone' = IF call[t].phase = "set" THEN phone \cup {call[t].secret} ELSE phone
        /\ noted' = IF call[t].phase = "listed" THEN call[t].codes ELSE noted
        /\ unseen' = unseen
    BY <1>10, Zenon DEF Signing!Answer
  <2>2. Shown(t)
    BY <1>0, <2>1, ShowsStep, Zenon
  <2>3. call[t].seen \in BOOLEAN
    <3>1. \A Flag : \A f \in [ Signing!Callers -> CallOf(Flag) ] : f[t].seen \in Flag
      BY <1>0 DEF CallOf
    <3> QED
      BY <1>0, <3>1, Zenon DEF FactorTypes, CallTypes
  <2>4. Seen(t)
    BY <1>10, <2>3, Zenon DEF Seen
  <2> QED
    BY <1>8, <2>1, <2>2, <2>4, Zenon
<1> QED
  BY <1>9, <1>10, Zenon

\* An answer that the audit turned into an error: whoever it would have told is
\* left with a page that is not fresh.
LEMMA ErrorKeeps ==
  ASSUME Signing!FactorAssumption, FactorInv, NEW t \in Tabs, Signing!AuditFails(t)
  PROVE  FactorInv'
<1>0. /\ FactorTypes /\ t \in Signing!Callers /\ FitsTab(t)
      /\ call[t].phase \in { "challenged", "signed", "listed", "disabled" }
      /\ phone \subseteq Nat /\ noted \subseteq Backups
      /\ phone' = phone /\ noted' = noted
      /\ account' = account /\ available' = available /\ pendingIn' = pendingIn /\ usedIn' = usedIn /\ clock' = clock
      /\ requests' = requests /\ opened' = opened /\ reopened' = reopened /\ crossed' = crossed
  BY DEF FactorInv, FactorTypes, CallTypes, StoreTypes, Signing!Callers, Signing!AuditFails, Signing!Answered
<1>u. unseen \in BOOLEAN /\ TabTypes
  BY <1>0 DEF FactorTypes, StoreTypes
<1>1. EndFrame(t)
  <2>1. Ends(t)
    BY <1>0, EndsStep DEF FactorTypes, Signing!AuditFails
  <2> QED
    BY <1>0, <2>1 DEF EndFrame
<1>2. /\ \A u \in Tabs : u # t => call'[u] = call[u] /\ (Seen(u)' <=> Seen(u))
      /\ call'[t] = Signing!Idle
  <2>1. (\A u \in Tabs : u # t => call'[u] = call[u]) /\ call'[t] = Signing!Idle
    BY <1>1 DEF EndFrame, Ends, Signing!Callers
  <2> QED
    BY <2>1, Zenon DEF Seen
<1>3. call'[t].op = "none" /\ call'[t].phase = "none"
  BY <1>2, IdleCall, Zenon
<1>4. Signing!Enabled' <=> Signing!Enabled
  BY <1>0 DEF Signing!Enabled
<1>5. \A u \in Tabs : u # t => (WithList(u)' <=> WithList(u)) /\ (Told(u)' <=> Told(u))
  BY <1>2 DEF WithList, Told
<1>6. ~ WithList(t)'
  BY <1>3 DEF WithList
<1>7. unseen' \in BOOLEAN /\ (Met' => Met /\ call[t].phase # "listed")
  <2>1. unseen' = (unseen \/ call[t].phase = "listed")
    BY Zenon DEF Signing!AuditFails
  <2> QED
    BY <1>u, <2>1, Zenon DEF Met
<1>8. /\ TabTypes' /\ \A u \in Tabs : u # t => tab'[u] = tab[u]
      /\ tab'[t].at = tab[t].at /\ tab'[t].step = tab[t].step /\ (Badge(t)' <=> Badge(t))
      /\ FreshTab(t)' => FreshTab(t) /\ ~ Told(t)
  <2>1. CASE call[t].seen /\ Signing!TurnsFactor(t)
    <3> DEFINE Turned(Flag, yes, f, g) ==
          /\ g \in [ Tabs -> TabOf(Flag) ]
          /\ \A u \in Tabs : u # t => g[u] = f[u]
          /\ g[t].stale = yes /\ g[t].at = f[t].at /\ g[t].step = f[t].step /\ g[t].badge = f[t].badge
    <3>1. \A Flag : \A yes \in Flag : \A f \in [ Tabs -> TabOf(Flag) ] : Turned(Flag, yes, f, [ f EXCEPT ![t].stale = yes ])
      BY DEF TabOf
    <3> HIDE DEF Turned
    <3>2. tab' = [ tab EXCEPT ![t].stale = TRUE ]
      BY <2>1, Zenon DEF Signing!AuditFails
    <3>3. tab \in [ Tabs -> TabOf(BOOLEAN) ] /\ TRUE \in BOOLEAN
      BY <1>u DEF TabTypes
    <3>4. Turned(BOOLEAN, TRUE, tab, tab')
      BY <3>1, <3>2, <3>3, Zenon
    <3>5. /\ tab' \in [ Tabs -> TabOf(BOOLEAN) ]
          /\ \A u \in Tabs : u # t => tab'[u] = tab[u]
          /\ tab'[t].stale = TRUE /\ tab'[t].at = tab[t].at /\ tab'[t].step = tab[t].step /\ tab'[t].badge = tab[t].badge
      BY <3>4, Zenon DEF Turned
    <3> QED
      BY <3>5, Zenon DEF TabTypes, Badge, FreshTab
  <2>2. CASE ~ (call[t].seen /\ Signing!TurnsFactor(t))
    <3>1. tab' = tab
      BY <2>2, Zenon DEF Signing!AuditFails
    <3>2. ~ (Seen(t) /\ (call[t].phase = "disabled" \/ (call[t].phase = "listed" /\ call[t].op = "enroll")))
      BY <2>2, Zenon DEF Signing!TurnsFactor, Seen
    <3>3. ~ Told(t)
      BY <1>0, <3>2 DEF Told
    <3> QED
      BY <1>u, <3>1, <3>3, Zenon DEF TabTypes, Badge, FreshTab
  <2> QED
    BY <2>1, <2>2, Zenon
<1>9. available = "starting" => \A u \in Tabs : tab'[u].at = "account"
  BY <1>8 DEF FactorInv, UsedInv
<1>10. /\ FactorTypes' /\ PhoneInv' /\ NumberInv' /\ RowInv' /\ ClockInv' /\ UsedInv' /\ OnceInv' /\ OpenInv'
  BY <1>0, <1>1, <1>7, <1>8, <1>9, Ended
<1>11. NotedInv'
  <2>1. Met' => ~ WithList(t)
    BY <1>0, <1>7 DEF WithList
  <2> QED
    BY <1>0, <1>2, <1>4, <1>5, <1>6, <1>7, <2>1 DEF FactorInv, NotedInv, Clean
<1>12. TellInv'
  <2>1. ASSUME NEW u \in Tabs, u # t PROVE TellsTab(u)'
    <3>1. tab'[u] = tab[u] /\ (FreshTab(u)' <=> FreshTab(u)) /\ (Badge(u)' <=> Badge(u))
      BY <1>8, <2>1 DEF FreshTab, Badge
    <3> QED
      BY <1>2, <1>4, <1>5, <2>1, <3>1 DEF FactorInv, TellInv, TellsTab
  <2>2. TellsTab(t)'
    BY <1>3, <1>4, <1>8 DEF FactorInv, TellInv, TellsTab
  <2> QED
    BY <2>1, <2>2 DEF TellInv
<1> QED
  BY <1>10, <1>11, <1>12 DEF FactorInv

\* What a step that writes neither the row nor a request's fields leaves of the invariant.
KeptCalls ==
    /\ call' \in [ Signing!Callers -> CallOf(BOOLEAN) ]
    /\ \A t \in Signing!Callers : call'[t].op = call[t].op /\ call'[t].no = call[t].no /\ call'[t].code = call[t].code
                          /\ call'[t].secret = call[t].secret /\ call'[t].codes = call[t].codes
    /\ \A t \in Tabs : call'[t].phase = call[t].phase
LEMMA Around ==
  ASSUME Signing!FactorAssumption, FactorInv, KeptCalls, TabTypes',
         account' = account, phone' = phone, noted' = noted, usedIn' = usedIn, opened' = opened, reopened' = reopened,
         crossed' = crossed, unseen' = unseen, requests' \in Nat, requests' >= requests, clock' \in Nat,
            clock' >= clock,
         available' \in { "starting", "up", "gone" }, pendingIn' \in [ { "redis", "memory" } -> Nat \cup {None} ]
  PROVE  FactorTypes' /\ PhoneInv' /\ NumberInv' /\ RowInv' /\ ClockInv' /\ OpenInv' /\ NotedInv'
<1>0. FactorTypes /\ Tabs \subseteq Signing!Callers /\ Admin \in Signing!Callers /\ clock \in Nat /\ requests \in Nat
  BY DEF FactorInv, FactorTypes, StoreTypes, Signing!Callers
<1>1. \A u \in Tabs : /\ call'[u].op = call[u].op /\ call'[u].no = call[u].no /\ call'[u].code = call[u].code
                      /\ call'[u].secret = call[u].secret /\ call'[u].codes = call[u].codes
                         /\ call'[u].phase = call[u].phase
  BY <1>0 DEF KeptCalls
<1>2. FactorTypes'
  <2>1. ASSUME NEW u \in Tabs PROVE FitsTab(u)'
    BY <1>0, <1>1 DEF FitsTab, FactorTypes, CallTypes
  <2>2. CallTypes'
    BY <1>0, <2>1 DEF CallTypes, FactorTypes, KeptCalls
  <2>3. StoreTypes'
    BY <1>0 DEF StoreTypes, FactorTypes
  <2> QED
    BY <2>2, <2>3 DEF FactorTypes
<1>3. PhoneInv' /\ RowInv' /\ OpenInv'
  BY <1>1 DEF FactorInv, PhoneInv, Signing!PhoneVerifies, Signing!Enabled, RowInv, OpenInv, Clean
<1>4. ClockInv'
  <2>1. \A c \in Totps : c[3] \in Nat
    BY CodeTypes
  <2> QED
    BY <1>0, <1>1, <2>1 DEF FactorInv, ClockInv
<1>5. NumberInv'
  <2>1. \A u \in Tabs : Unseen(u)' <=> Unseen(u)
    BY <1>1 DEF Unseen
  <2>2. \A b : Held(b)' <=> Held(b)
    BY <1>1 DEF Held
  <2>3. \A u \in Tabs : call[u].no \in Nat
    BY <1>0, FieldTypes DEF FactorTypes
  <2>4. \A b \in Backups : b[2] \in Nat
    BY CodeTypes
  <2> QED
    BY <1>0, <1>1, <2>1, <2>2, <2>3, <2>4 DEF FactorInv, NumberInv
<1>6. NotedInv'
  <2>1. \A u \in Tabs : WithList(u)' <=> WithList(u)
    BY <1>1 DEF WithList
  <2>2. (Signing!Enabled' <=> Signing!Enabled) /\ (Met' <=> Met) /\ (Clean' <=> Clean)
    BY DEF Signing!Enabled, Met, Clean
  <2> QED
    BY <1>1, <2>1, <2>2 DEF FactorInv, NotedInv
<1> QED
  BY <1>2, <1>3, <1>4, <1>5, <1>6

\* What a page shows when nothing else changes.
LEMMA SamePages ==
  ASSUME FactorInv, account' = account, tab' = tab,
         \A t \in Tabs : call'[t] = call[t]
  PROVE  TellInv' /\ TabTypes'
<1>1. \A u \in Tabs : (Seen(u)' <=> Seen(u))
  BY Zenon DEF Seen
<1>2. \A u \in Tabs : (Told(u)' <=> Told(u)) /\ (FreshTab(u)' <=> FreshTab(u)) /\ (Badge(u)' <=> Badge(u))
  BY <1>1 DEF Told, FreshTab, Badge
<1>3. Signing!Enabled' <=> Signing!Enabled
  BY DEF Signing!Enabled
<1> QED
  BY <1>1, <1>2, <1>3 DEF FactorInv, FactorTypes, TabTypes, TellInv, TellsTab

LEMMA SameCalls ==
  ASSUME FactorInv, call' = call
  PROVE  KeptCalls
BY DEF FactorInv, FactorTypes, CallTypes, KeptCalls

LEMMA FinishKeeps ==
  ASSUME Signing!FactorAssumption, FactorInv, NEW t \in Tabs, Signing!FinishSetup(t)
  PROVE  FactorInv'
<1>0. /\ FactorTypes /\ tab \in [ Tabs -> TabOf(BOOLEAN) ] /\ requests \in Nat /\ clock \in Nat
      /\ available \in { "starting", "up", "gone" } /\ pendingIn \in [ { "redis", "memory" } -> Nat \cup {None} ]
      /\ account' = account /\ phone' = phone /\ noted' = noted /\ available' = available /\ usedIn' = usedIn
         /\ clock' = clock
      /\ pendingIn' = pendingIn /\ opened' = opened /\ reopened' = reopened /\ crossed' = crossed /\ unseen' = unseen
      /\ call' = call /\ requests' = requests
  BY DEF FactorInv, FactorTypes, TabTypes, StoreTypes, Signing!FinishSetup
<1>1. tab' = [ tab EXCEPT ![t] = Signing!Account("idle") ]
  BY Zenon DEF Signing!FinishSetup
<1>2. TabTypes' /\ (\A u \in Tabs : u # t => tab'[u] = tab[u]) /\ tab'[t] = Signing!Account("idle")
  <2>1. \A S : \A f \in [ Tabs -> S ] : \A v \in S :
          LET g == [ f EXCEPT ![t] = v ]
          IN  g \in [ Tabs -> S ] /\ (\A u \in Tabs : u # t => g[u] = f[u]) /\ g[t] = v
    OBVIOUS
  <2> QED
    BY <1>0, <1>1, <2>1, PlaceTypes, Zenon DEF TabTypes
<1>3. tab'[t].at = "account" /\ tab'[t].step = "idle" /\ (Badge(t)' <=> Signing!Enabled)
  BY <1>2, AccountPlace, Zenon DEF Badge
<1>4. FactorTypes' /\ PhoneInv' /\ NumberInv' /\ RowInv' /\ ClockInv' /\ OpenInv' /\ NotedInv'
  BY <1>0, <1>2, SameCalls, Around
<1>5. UsedInv' /\ OnceInv'
  <2>1. tab[t].at = "account"
    BY DEF Signing!FinishSetup
  <2>2. \A u \in Tabs : tab'[u].at = tab[u].at
    BY <1>2, <1>3, <2>1
  <2> QED
    BY <1>0, <2>2 DEF FactorInv, UsedInv, OnceInv, Once, Signing!Store, Clean
<1>6. TellInv'
  <2>1. Signing!Enabled' <=> Signing!Enabled
    BY <1>0 DEF Signing!Enabled
  <2>2. \A u \in Tabs : (Told(u)' <=> Told(u)) /\ (Seen(u)' <=> Seen(u))
    BY <1>0 DEF Told, Seen
  <2>3. \A u \in Tabs : u # t => (FreshTab(u)' <=> FreshTab(u)) /\ (Badge(u)' <=> Badge(u))
    BY <1>2 DEF FreshTab, Badge
  <2>4. ASSUME NEW u \in Tabs PROVE TellsTab(u)'
    <3>1. CASE u = t
      BY <1>3, <2>1, <3>1 DEF TellsTab
    <3>2. CASE u # t
      BY <1>0, <1>2, <2>1, <2>2, <2>3, <3>2 DEF FactorInv, TellInv, TellsTab
    <3> QED
      BY <3>1, <3>2
  <2> QED
    BY <2>4 DEF TellInv
<1> QED
  BY <1>4, <1>5, <1>6 DEF FactorInv

LEMMA LeaveKeeps ==
  ASSUME Signing!FactorAssumption, FactorInv, NEW t \in Tabs, Signing!Leave(t)
  PROVE  FactorInv'
<1>0. /\ FactorTypes /\ tab \in [ Tabs -> TabOf(BOOLEAN) ] /\ requests \in Nat /\ clock \in Nat /\ t \in Signing!Callers
      /\ available \in { "starting", "up", "gone" } /\ pendingIn \in [ { "redis", "memory" } -> Nat \cup {None} ]
      /\ account' = account /\ phone' = phone /\ noted' = noted /\ available' = available /\ usedIn' = usedIn
         /\ clock' = clock
      /\ pendingIn' = pendingIn /\ opened' = opened /\ reopened' = reopened /\ crossed' = crossed /\ unseen' = unseen
      /\ requests' = requests
  BY DEF FactorInv, FactorTypes, TabTypes, StoreTypes, Signing!Leave, Signing!Callers
<1>1. tab' = [ tab EXCEPT ![t] = IF tab[t].at = "account" THEN Signing!Account("idle") ELSE Signing!SignIn ]
  BY Zenon DEF Signing!Leave
<1>f. \A S : \A f \in [ Tabs -> S ] : \A v \in S :
        LET g == [ f EXCEPT ![t] = v ]
        IN  g \in [ Tabs -> S ] /\ (\A u \in Tabs : u # t => g[u] = f[u]) /\ g[t] = v
  OBVIOUS
<1>2. /\ TabTypes' /\ (\A u \in Tabs : u # t => tab'[u] = tab[u])
      /\ tab[t].at = "account" => tab'[t].at = "account" /\ tab'[t].step = "idle" /\ (Badge(t)' <=> Signing!Enabled)
      /\ tab[t].at # "account" => tab'[t].at = "signin"
  <2>1. CASE tab[t].at = "account"
    <3>1. TabTypes' /\ (\A u \in Tabs : u # t => tab'[u] = tab[u]) /\ tab'[t] = Signing!Account("idle")
      BY <1>0, <1>1, <1>f, <2>1, PlaceTypes, Zenon DEF TabTypes
    <3> QED
      BY <2>1, <3>1, AccountPlace, Zenon DEF Badge
  <2>2. CASE tab[t].at # "account"
    <3>1. TabTypes' /\ (\A u \in Tabs : u # t => tab'[u] = tab[u]) /\ tab'[t] = Signing!SignIn
      BY <1>0, <1>1, <1>f, <2>2, PlaceTypes, Zenon DEF TabTypes
    <3>2. Signing!SignIn.at = "signin"
      BY DEF Signing!SignIn
    <3> QED
      BY <2>2, <3>1, <3>2, Zenon
  <2> QED
    BY <2>1, <2>2, Zenon
<1>3. KeptCalls /\ ~ Seen(t)' /\ \A u \in Tabs : u # t => call'[u] = call[u]
  <2> DEFINE Turned(Flag, no, f, g) ==
        /\ g \in [ Signing!Callers -> CallOf(Flag) ]
        /\ \A u \in Signing!Callers : u # t => g[u] = f[u]
        /\ g[t].seen = no
        /\ \A u \in Signing!Callers : g[u].op = f[u].op /\ g[u].no = f[u].no /\ g[u].code = f[u].code
                              /\ g[u].secret = f[u].secret /\ g[u].codes = f[u].codes /\ g[u].phase = f[u].phase
  <2>1. \A Flag : \A no \in Flag : \A f \in [ Signing!Callers -> CallOf(Flag) ] :
          Turned(Flag, no, f, [ f EXCEPT ![t].seen = no ])
    BY <1>0 DEF CallOf
  <2> HIDE DEF Turned
  <2>2. call' = [ call EXCEPT ![t].seen = FALSE ]
    BY Zenon DEF Signing!Leave
  <2>3. Turned(BOOLEAN, FALSE, call, call')
    <3>1. call \in [ Signing!Callers -> CallOf(BOOLEAN) ]
      BY <1>0 DEF FactorTypes, CallTypes
    <3>2. FALSE \in BOOLEAN
      OBVIOUS
    <3>3. Turned(BOOLEAN, FALSE, call, [ call EXCEPT ![t].seen = FALSE ])
      BY <2>1, <3>1, <3>2, Zenon
    <3> QED
      BY <2>2, <3>3, Zenon
  <2>4. ~ Seen(t)'
    BY <2>3, Zenon DEF Turned, Seen
  <2>5. Tabs \subseteq Signing!Callers
    BY DEF Signing!Callers
  <2> QED
    BY <2>3, <2>4, <2>5, Zenon DEF KeptCalls, Turned
<1>4. FactorTypes' /\ PhoneInv' /\ NumberInv' /\ RowInv' /\ ClockInv' /\ OpenInv' /\ NotedInv'
  BY <1>0, <1>2, <1>3, Around
<1>k. \A u \in Tabs : call'[u].op = call[u].op /\ call'[u].phase = call[u].phase /\ call'[u].code = call[u].code
  BY <1>3 DEF KeptCalls, Signing!Callers
<1>5. UsedInv' /\ OnceInv'
  <2>1. available = "starting" => \A u \in Tabs : tab'[u].at = "account"
    BY <1>2 DEF FactorInv, UsedInv
  <2> QED
    BY <1>0, <1>k, <2>1 DEF FactorInv, UsedInv, OnceInv, Once, Signing!Store, Clean
<1>6. TellInv'
  <2>1. Signing!Enabled' <=> Signing!Enabled
    BY <1>0 DEF Signing!Enabled
  <2>2. \A u \in Tabs : u # t => (Told(u)' <=> Told(u)) /\ (Seen(u)' <=> Seen(u))
    BY <1>3 DEF Told, Seen
  <2>3. \A u \in Tabs : u # t => (FreshTab(u)' <=> FreshTab(u)) /\ (Badge(u)' <=> Badge(u))
    BY <1>2 DEF FreshTab, Badge
  <2>4. ASSUME NEW u \in Tabs PROVE TellsTab(u)'
    <3>1. CASE u = t
      <4>1. tab[t].at \in { "signin", "mfa", "account" }
        BY <1>0, TabFields DEF TabTypes
      <4> QED
        BY <1>2, <1>3, <2>1, <3>1, <4>1 DEF TellsTab
    <3>2. CASE u # t
      BY <1>2, <1>k, <2>1, <2>2, <2>3, <3>2 DEF FactorInv, TellInv, TellsTab
    <3> QED
      BY <3>1, <3>2
  <2> QED
    BY <2>4 DEF TellInv
<1> QED
  BY <1>4, <1>5, <1>6 DEF FactorInv

\* What happens around the requests.
LEMMA TurnsKeep ==
  ASSUME Signing!FactorAssumption, FactorInv, Signing!Tick \/ Signing!Expire \/ Signing!RedisChanges
         \/ Signing!AdminReads
  PROVE  FactorInv'
<1>0. /\ FactorTypes /\ requests \in Nat /\ clock \in Nat /\ Admin \in Signing!Callers /\ Tabs \subseteq Signing!Callers
         /\ Admin \notin Tabs
      /\ available \in { "starting", "up", "gone" } /\ pendingIn \in [ { "redis", "memory" } -> Nat \cup {None} ]
      /\ account' = account /\ phone' = phone /\ noted' = noted /\ usedIn' = usedIn /\ tab' = tab
      /\ opened' = opened /\ reopened' = reopened /\ crossed' = crossed /\ unseen' = unseen
  BY DEF Signing!FactorAssumption, FactorInv, FactorTypes, TabTypes, StoreTypes, Signing!Callers, Signing!Tick,
     Signing!Expire, Signing!RedisChanges,
     Signing!AdminReads
<1>1. \A u \in Tabs : call'[u] = call[u]
  <2>1. CASE Signing!AdminReads
    BY <1>0, <2>1 DEF Signing!AdminReads, FactorTypes, CallTypes
  <2> QED
    BY <2>1 DEF Signing!Tick, Signing!Expire, Signing!RedisChanges
<1>2. TellInv' /\ TabTypes'
  BY <1>0, <1>1, SamePages
<1>3. KeptCalls
  <2>1. CASE Signing!AdminReads
    <3>1. "valid" \in FactorPhases /\ Signing!Goes(Admin, "valid")
      BY <2>1, Zenon DEF FactorPhases, Signing!AdminReads, Signing!Goes
    <3>2. Moves(Admin, "valid") /\ KeepsCodes(Admin) /\ KeepsSecret(Admin)
      BY <1>0, <3>1, GoneStep DEF FactorTypes
    <3> QED
      BY <1>0, <1>1, <3>2 DEF Moves, KeepsCodes, KeepsSecret, KeptCalls
  <2>2. CASE call' = call
    BY <2>2, SameCalls
  <2> QED
    BY <2>1, <2>2 DEF Signing!Tick, Signing!Expire, Signing!RedisChanges
<1>4. /\ requests' \in Nat /\ requests' >= requests /\ clock' \in Nat /\ clock' >= clock
      /\ available' \in { "starting", "up", "gone" } /\ pendingIn' \in [ { "redis", "memory" } -> Nat \cup {None} ]
  BY <1>0 DEF Signing!Tick, Signing!Expire, Signing!RedisChanges, Signing!AdminReads
<1>5. FactorTypes' /\ PhoneInv' /\ NumberInv' /\ RowInv' /\ ClockInv' /\ OpenInv' /\ NotedInv'
  BY <1>0, <1>2, <1>3, <1>4, Around
<1>6. \/ available' = available
      \/ available = "starting" /\ available' = "up" /\ clock' = clock
      \/ available # "starting" /\ available' = "gone" /\ available # "gone" /\ clock' = clock
  BY DEF Signing!Tick, Signing!Expire, Signing!RedisChanges, Signing!AdminReads
<1>7. UsedInv'
  BY <1>0, <1>1, <1>6 DEF FactorInv, UsedInv
<1>8. OnceInv'
  <2>1. CASE available' = available
    <3>1. ASSUME NEW u \in Tabs, Clean PROVE Once(u)'
      <4>1. Once(u) /\ Signing!Store' = Signing!Store /\ call'[u] = call[u] /\ opened' = opened
        BY <1>0, <1>1, <2>1, <3>1 DEF FactorInv, OnceInv, Signing!Store
      <4>2. call[u].code \in Totps => call[u].code[3] + Tolerance \in Nat
        BY CodeTypes DEF Signing!FactorAssumption
      <4> QED
        BY <1>0, <1>4, <4>1, <4>2 DEF Once
    <3> QED
      BY <1>0, <3>1 DEF OnceInv, Clean
  <2>2. CASE available = "starting" /\ available' = "up"
    BY <1>1, <2>2 DEF FactorInv, UsedInv, OnceInv, Once
  <2>3. CASE available # "starting" /\ available' = "gone" /\ available # "gone"
    <3>1. Signing!Store' = "memory" /\ \A c \in Totps : << c, "memory" >> \notin opened'
      BY <1>0, <2>3 DEF FactorInv, UsedInv, Signing!Store
    <3> QED
      BY <3>1 DEF OnceInv, Once
  <2> QED
    BY <1>6, <2>1, <2>2, <2>3
<1> QED
  BY <1>2, <1>5, <1>7, <1>8 DEF FactorInv

LEMMA SubmitsKeep ==
  ASSUME Signing!FactorAssumption, FactorInv, NEW t \in Tabs,
         \/ Signing!SubmitPassword(t) \/ Signing!SubmitCode(t) \/ Signing!StartSetup(t)
            \/ Signing!SubmitEnroll(t) \/ Signing!SubmitDisable(t) \/ Signing!SubmitRegen(t)
  PROVE  FactorInv'
<1>0. \A code \in Signing!CodesAtHand : code # None
  <2>1. None \notin Totps /\ None \notin Backups /\ FactorTypes
    BY DEF Signing!FactorAssumption, Totps, Backups, FactorInv
  <2> QED
    BY <2>1, AtHand
<1>1. CASE Signing!SubmitPassword(t)
  BY <1>1, CodesAsked DEF Signing!SubmitPassword, Ops
<1>2. CASE Signing!SubmitCode(t)
  BY <1>0, <1>2, CodesAsked DEF Signing!SubmitCode, Ops
<1>3. CASE Signing!StartSetup(t)
  BY <1>3, CodesAsked DEF Signing!StartSetup, Ops
<1>4. CASE Signing!SubmitEnroll(t)
  BY <1>0, <1>4, CodesAsked DEF Signing!SubmitEnroll, Ops
<1>5. CASE Signing!SubmitDisable(t)
  BY <1>0, <1>5, CodesAsked DEF Signing!SubmitDisable, Ops
<1>6. CASE Signing!SubmitRegen(t)
  BY <1>0, <1>6, CodesAsked DEF Signing!SubmitRegen, Ops
<1> QED
  BY <1>1, <1>2, <1>3, <1>4, <1>5, <1>6

LEMMA StutterKeeps ==
  ASSUME Signing!FactorAssumption, FactorInv, UNCHANGED Signing!vars
  PROVE  FactorInv'
<1>0. /\ FactorTypes /\ requests \in Nat /\ clock \in Nat
      /\ available \in { "starting", "up", "gone" } /\ pendingIn \in [ { "redis", "memory" } -> Nat \cup {None} ]
  BY DEF FactorInv, FactorTypes, StoreTypes
<1>1. /\ account' = account /\ phone' = phone /\ noted' = noted /\ available' = available /\ pendingIn' = pendingIn
      /\ usedIn' = usedIn /\ clock' = clock /\ tab' = tab /\ call' = call /\ requests' = requests
      /\ opened' = opened /\ reopened' = reopened /\ crossed' = crossed /\ unseen' = unseen
  BY DEF Signing!vars
<1>2. TellInv' /\ TabTypes'
  BY <1>1, SamePages
<1>3. FactorTypes' /\ PhoneInv' /\ NumberInv' /\ RowInv' /\ ClockInv' /\ OpenInv' /\ NotedInv'
  BY <1>0, <1>1, <1>2, SameCalls, Around
<1>4. UsedInv' /\ OnceInv'
  BY <1>1 DEF FactorInv, UsedInv, OnceInv, Once, Signing!Store, Clean
<1> QED
  BY <1>2, <1>3, <1>4 DEF FactorInv

LEMMA NextFactor == Signing!FactorAssumption /\ FactorInv /\ [Signing!Next]_Signing!vars => FactorInv'
<1> SUFFICES ASSUME Signing!FactorAssumption, FactorInv, [Signing!Next]_Signing!vars PROVE FactorInv'
  OBVIOUS
<1>1. ASSUME NEW t \in Tabs, Signing!PageStep(t) PROVE FactorInv'
  BY <1>1, SubmitsKeep, FinishKeeps, LeaveKeeps DEF Signing!PageStep
<1>2. ASSUME NEW t \in Tabs, Signing!ServerStep(t) PROVE FactorInv'
  <2>1. CASE PassSteps(t)
    <3>1. PICK phase \in FactorPhases : Passes(t, phase)
      BY <2>1, PassesStep DEF FactorInv, FactorTypes
    <3> QED
      BY <3>1, PassesKeeps
  <2>2. CASE Signing!ConsumeBackupCode(t)
    BY <2>2, ConsumeKeeps
  <2>3. CASE Signing!StoreUsedToken(t)
    BY <2>3, StoreKeeps
  <2>4. CASE Signing!Enroll(t) \/ Signing!RegenerateBackupCodes(t)
    BY <2>4, EnrollKeeps
  <2>5. CASE Signing!DisableTotp(t)
    BY <2>5, DisableKeeps
  <2> QED
    BY <1>2, <2>1, <2>2, <2>3, <2>4, <2>5 DEF Signing!ServerStep, PassSteps
<1>3. ASSUME NEW t \in Tabs, Signing!Answer(t) \/ Signing!AuditFails(t) PROVE FactorInv'
  BY <1>3, AnswerKeeps, ErrorKeeps
<1>4. CASE Signing!AdminDisables
  BY <1>4, DisableKeeps
<1>5. CASE Signing!Tick \/ Signing!Expire \/ Signing!RedisChanges \/ Signing!AdminReads
  BY <1>5, TurnsKeep
<1>6. CASE UNCHANGED Signing!vars
  BY <1>6, StutterKeeps
<1> QED
  BY <1>1, <1>2, <1>3, <1>4, <1>5, <1>6 DEF Signing!Next

LEMMA FactorTells ==
  Signing!FactorAssumption /\ FactorInv => Signing!PhoneVerifies /\ Signing!CodesOpenOnce
     /\ Signing!NotedCodesWork /\ Signing!PageTells
<1> SUFFICES ASSUME Signing!FactorAssumption, FactorInv PROVE Signing!PhoneVerifies /\ Signing!CodesOpenOnce
      /\ Signing!NotedCodesWork /\ Signing!PageTells
  OBVIOUS
<1>1. /\ account.codes \subseteq Backups /\ noted \subseteq Backups /\ crossed \in BOOLEAN /\ unseen \in BOOLEAN
      /\ opened \subseteq (Backups \X {"row"}) \cup (Totps \X { "redis", "memory" })
  BY DEF FactorInv, FactorTypes, StoreTypes
<1>2. Signing!PhoneVerifies
  BY DEF FactorInv, PhoneInv
<1>3. Signing!CodesOpenOnce
  <2>1. crossed = FALSE => reopened = {}
    BY DEF FactorInv, OpenInv, Clean
  <2> QED
    BY <1>1, <2>1, Zenon DEF Signing!CodesOpenOnce
<1>4. Signing!NotedCodesWork
  <2>1. ASSUME Clean, Met, Signing!Enabled, \A t \in Tabs : ~ WithList(t)
        PROVE  account.codes = noted \ { m[1] : m \in opened }
    <3>1. \A b \in Backups : b \in account.codes <=> b \in noted /\ << b, "row" >> \notin opened
      BY <2>1 DEF FactorInv, NotedInv
    <3>2. \A b \in Backups : << b, "row" >> \in opened <=> \E m \in opened : b = m[1]
      <4>1. ASSUME NEW b \in Backups, NEW m \in opened, b = m[1] PROVE << b, "row" >> \in opened
        <5>1. m[1] \notin Totps
          BY <4>1, CodeTypes
        <5>2. m \in Backups \X {"row"} \/ m \in Totps \X { "redis", "memory" }
          BY <1>1
        <5>3. m = << b, "row" >>
          BY <4>1, <5>1, <5>2
        <5> QED
          BY <4>1, <5>3
      <4>2. ASSUME NEW b \in Backups, << b, "row" >> \in opened PROVE \E m \in opened : b = m[1]
        BY <4>2
      <4> QED
        BY <4>1, <4>2
    <3> DEFINE used == { m[1] : m \in opened }
    <3>3. \A b : b \in used <=> \E m \in opened : b = m[1]
      OBVIOUS
    <3> HIDE DEF used
    <3>4. \A b \in Backups : b \in account.codes <=> b \in noted /\ b \notin used
      BY <3>1, <3>2, <3>3
    <3>5. account.codes = noted \ used
      BY <1>1, <3>4
    <3> QED
      BY <3>5 DEF used
  <2>2. ~ crossed => Clean
    BY <1>1, Zenon DEF Clean
  <2>3. ~ unseen => Met
    BY <1>1, Zenon DEF Met
  <2>4. (\A t \in Tabs : call[t].phase \notin { "written", "listed" }) => \A t \in Tabs : ~ WithList(t)
    BY DEF WithList
  <2> QED
    BY <2>1, <2>2, <2>3, <2>4, Zenon DEF Signing!NotedCodesWork
<1>5. Signing!PageTells
  <2>1. ASSUME NEW t \in Tabs, call[t] = Signing!Idle, tab[t].at = "account", ~ tab[t].stale, tab[t].step # "codes"
        PROVE  tab[t].badge = Signing!Enabled
    <3>1. call[t].phase = "none"
      BY <2>1, IdleCall, Zenon
    <3>2. ~ Told(t)
      BY <3>1 DEF Told
    <3>3. tab[t].stale \in BOOLEAN /\ tab[t].badge \in BOOLEAN
      <4>1. \A Flag : \A f \in [ Tabs -> TabOf(Flag) ] : f[t].stale \in Flag /\ f[t].badge \in Flag
        BY DEF TabOf
      <4>2. TabTypes
        BY DEF FactorInv, FactorTypes
      <4> QED
        BY <4>1, <4>2, Zenon DEF TabTypes
    <3>4. FreshTab(t)
      BY <2>1, <3>3, Zenon DEF FreshTab
    <3>5. Badge(t) <=> Signing!Enabled
      BY <2>1, <3>2, <3>4 DEF FactorInv, TellInv, TellsTab
    <3>6. Signing!Enabled \in BOOLEAN
      BY Zenon DEF Signing!Enabled
    <3> QED
      BY <3>3, <3>5, <3>6, Zenon DEF Badge
  <2> QED
    BY <2>1, Zenon DEF Signing!PageTells
<1> QED
  BY <1>2, <1>3, <1>4, <1>5

LEMMA InitFactor == Signing!FactorAssumption /\ Signing!Init => FactorInv
<1> SUFFICES ASSUME Signing!FactorAssumption, Signing!Init PROVE FactorInv
  OBVIOUS
<1>0. /\ Tabs \subseteq Signing!Callers /\ Admin \in Signing!Callers /\ None \notin Nat
  BY DEF Signing!FactorAssumption, Signing!Callers
<1>c. None \notin Totps /\ None \notin Backups
  BY DEF Signing!FactorAssumption, Totps, Backups
<1>1. Signing!BackupCodes(0) \in SUBSET Backups /\ \A b \in Signing!BackupCodes(0) : b[2] = 0
  BY CodeTypes
<1>2. \/ account = [ secret |-> None, codes |-> {} ] /\ phone = {} /\ noted = {}
      \/ account = [ secret |-> 0, codes |-> Signing!BackupCodes(0) ] /\ phone = {0} /\ noted = Signing!BackupCodes(0)
  BY DEF Signing!Init, Signing!NotEnrolled
<1>3. /\ pendingIn = [ redis |-> None, memory |-> None ] /\ usedIn = [ redis |-> {}, memory |-> {} ]
      /\ clock = 0 /\ requests = 0 /\ opened = {} /\ reopened = {}
  BY DEF Signing!Init
<1>4. crossed = FALSE /\ unseen = FALSE /\ call = [ t \in Signing!Callers |-> Signing!Idle ]
  BY Zenon DEF Signing!Init
<1>5. PICK place \in { Signing!SignIn, [ Signing!SignIn EXCEPT !.at = "mfa" ], Signing!Account("idle") } :
        /\ place.at = "mfa" => Signing!Enabled
        /\ available \in IF place.at = "account" /\ ~ Signing!Enabled THEN { "starting", "up" } ELSE {"up"}
        /\ tab = [ t \in Tabs |-> place ]
  BY Zenon DEF Signing!Init
<1>6. \A t \in Signing!Callers : call[t] = Signing!Idle
  BY <1>4, Zenon
<1>7. \A t \in Signing!Callers : call[t].op = "none" /\ call[t].phase = "none" /\ call[t].code = None
      /\ call[t].codes = {}
  BY <1>6, IdleCall, Zenon
<1>8. place \in TabOf(BOOLEAN)
  BY PlaceTypes, Zenon
<1>9. TabTypes
  <2>1. \A S : \A v \in S : [ t \in Tabs |-> v ] \in [ Tabs -> S ]
    OBVIOUS
  <2> QED
    BY <1>5, <1>8, <2>1, Zenon DEF TabTypes
<1>10. CallTypes
  <2>1. \A S : \A v \in S : [ t \in Signing!Callers |-> v ] \in [ Signing!Callers -> S ]
    OBVIOUS
  <2>2. call \in [ Signing!Callers -> CallOf(BOOLEAN) ]
    BY <1>4, <2>1, IdleCall, Zenon
  <2>3. \A t \in Tabs : FitsTab(t)
    BY <1>0, <1>7 DEF FitsTab, PhasesOf
  <2> QED
    BY <1>0, <1>7, <2>2, <2>3 DEF CallTypes
<1>11. available \in { "starting", "up" } /\ (available = "starting" => place.at = "account")
  BY <1>5
<1>12. StoreTypes
  <2>1. crossed \in BOOLEAN /\ unseen \in BOOLEAN
    BY <1>4, Zenon
  <2> QED
    BY <1>1, <1>2, <1>3, <1>11, <2>1 DEF StoreTypes
<1>13. PhoneInv /\ ClockInv /\ OpenInv
  BY <1>0, <1>2, <1>3, <1>7, <1>c DEF PhoneInv, Signing!PhoneVerifies, Signing!Enabled, ClockInv, OpenInv
<1>14. NumberInv
  <2>1. \A t \in Tabs : call[t].no = 0
    <3>1. Signing!Idle.no = 0
      BY DEF Signing!Idle
    <3> QED
      BY <1>0, <1>6, <3>1
  <2>2. \A b \in Backups : Held(b) => b[2] = 0
    BY <1>0, <1>1, <1>2, <1>3, <1>7, <1>c DEF Held
  <2>3. \A t \in Tabs : ~ Unseen(t)
    BY <1>0, <1>7 DEF Unseen
  <2> QED
    BY <1>0, <1>3, <1>7, <2>1, <2>2, <2>3 DEF NumberInv
<1>15. RowInv /\ OnceInv
  BY <1>0, <1>3, <1>7 DEF RowInv, OnceInv, Once
<1>16. UsedInv
  <2>1. \A t \in Tabs : tab[t] = place
    BY <1>5, Zenon
  <2> QED
    BY <1>0, <1>3, <1>7, <1>11, <2>1 DEF UsedInv
<1>17. NotedInv
  BY <1>1, <1>2, <1>3, <1>0, <1>7 DEF NotedInv, WithList, Signing!Enabled
<1>18. TellInv
  <2>1. \A t \in Tabs : tab[t] = place
    BY <1>5, Zenon
  <2>2. place.at = "account" => place.badge = Signing!Enabled
    <3>1. CASE place = Signing!Account("idle")
      BY <3>1, AccountPlace, Zenon
    <3>2. CASE place = Signing!SignIn
      <4>1. Signing!SignIn.at = "signin"
        BY DEF Signing!SignIn
      <4> QED
        BY <3>2, <4>1
    <3>3. CASE place = [ Signing!SignIn EXCEPT !.at = "mfa" ]
      <4>1. Signing!SignIn \in TabOf(BOOLEAN)
        BY PlaceTypes
      <4>2. place.at = "mfa"
        BY <3>3, <4>1, PlaceSteps, Zenon
      <4> QED
        BY <4>2
    <3> QED
      BY <3>1, <3>2, <3>3, Zenon
  <2>3. \A t \in Tabs : tab[t].at = "account" => (Badge(t) <=> Signing!Enabled)
    BY <2>1, <2>2, Zenon DEF Badge, Signing!Enabled
  <2> QED
    BY <1>0, <1>7, <2>3 DEF TellInv, TellsTab
<1> QED
  BY <1>9, <1>10, <1>12, <1>13, <1>14, <1>15, <1>16, <1>17, <1>18 DEF FactorInv, FactorTypes

-----------------------------------------------------------------------------
(* The policies of a role: the rule with the last word decides for every   *)
(* engine, and a statement is its policy taken apart.                      *)

LEMMA RolesAssumed == Roles!PolicyAssumption
  BY AdministrationAssumption

StoredPolicies ==
    UNION { [ inverted : BOOLEAN, action : SUBSET Roles!Actions, subject : SUBSET Roles!Subjects, conditions : [ fields -> Roles!Stored ] ] :
              fields \in SUBSET Roles!Fields }

\* The rows and the statements of the visual editor.
Rows ==
    { line \in [ field : Roles!Fields, op : Roles!Operators, values : SUBSET Text ] :
        /\ line.op \in Roles!AllowedOperators(line.field)
        /\ Roles!MultiValue(line.op) \/ Roles!AtMostOne(line.values) }
Statements ==
    [ inverted : BOOLEAN, action : SUBSET Roles!Actions, subject : SUBSET Roles!Subjects, rows : Seq(Rows) ]
Forms ==
    { Roles!Closed } \cup [ mode : { "visual" }, model : Seq(Statements) ]
      \cup [ mode : { "json" }, json : Seq(StoredPolicies) ]

\* What the visual editor saved are its statements, which had no issues.
PolicyInv ==
    /\ role \in [ policies : Seq(StoredPolicies), drawn : BOOLEAN ]
    /\ form \in Forms
    /\ role.drawn => kept \in Seq(Statements) /\ Roles!Issues(kept) = {} /\ role.policies = Roles!ToPolicies(kept)

-----------------------------------------------------------------------------
\* The rule with the last word.
LEMMA LargestOf ==
  ASSUME NEW T \in SUBSET Nat, T # {}, IsFiniteSet(T)
  PROVE  \E m \in T : \A k \in T : k <= m
<1> DEFINE Above(x) == { k \in T : x < k }
           U == { Above(x) : x \in T }
           W == StrictSubsetOrdering(T)
<1>1. FiniteSubsetsOf(T) = SUBSET T
  BY FS_FiniteSubsetsOfFinite
<1>2. U \subseteq FiniteSubsetsOf(T) /\ U # {}
  <2>1. \A x \in T : Above(x) \in SUBSET T
    OBVIOUS
  <2>2. \A x \in T : Above(x) \in FiniteSubsetsOf(T)
    BY <1>1, <2>1
  <2> HIDE DEF Above
  <2> QED
    BY <2>2
<1>3. PICK m \in T : \A k \in T : ~ (<< Above(k), Above(m) >> \in W)
  <2>1. IsWellFoundedOn(W, FiniteSubsetsOf(T))
    BY FS_StrictSubsetOrderingWellFounded
  <2> HIDE DEF W, U
  <2>2. PICK x \in U : \A y \in U : ~ (<< y, x >> \in W)
    BY <1>2, <2>1, WFMin
  <2> USE DEF U
  <2> QED
    BY <2>2
<1>4. ASSUME NEW k \in T, m < k PROVE FALSE
  <2>1. \A j \in T : k < j => m < j
    BY <1>4
  <2>2. Above(k) \subseteq Above(m)
    BY <2>1
  <2>3. k \in Above(m) /\ k \notin Above(k)
    BY <1>4
  <2> HIDE DEF Above
  <2>4. Above(k) \in SUBSET T /\ Above(m) \in SUBSET T
    BY DEF Above
  <2>5. << Above(k), Above(m) >> \in W
    BY <2>2, <2>3, <2>4 DEF StrictSubsetOrdering
  <2> QED
    BY <1>3, <2>5
<1> QED
  BY <1>3, <1>4

\* A nonempty set of places of a sequence has a last one.
LEMMA LastPlace ==
  ASSUME NEW S, NEW s \in Seq(S), NEW T \in SUBSET DOMAIN s, T # {}
  PROVE  \E m \in T : \A k \in T : k <= m
<1>1. DOMAIN s = 1 .. Len(s) /\ Len(s) \in Nat
  BY LenProperties
<1>2. IsFiniteSet(1 .. Len(s))
  BY <1>1, FS_Interval
<1>3. IsFiniteSet(T) /\ T \in SUBSET Nat
  BY <1>1, <1>2, FS_Subset
<1> QED
  BY <1>3, LargestOf

-----------------------------------------------------------------------------
(* The engines                                                             *)

LEMMA AbilityIs ==
  ASSUME NEW policies \in Seq(StoredPolicies)
  PROVE  /\ DOMAIN Roles!Ability(policies) = DOMAIN policies
         /\ Roles!Ability(policies) \in Seq({ Roles!Ability(policies)[i] : i \in DOMAIN policies })
         /\ \A i \in DOMAIN policies :
              /\ Roles!Ability(policies)[i].inverted = policies[i].inverted
              /\ Roles!Ability(policies)[i].action = policies[i].action
              /\ Roles!Ability(policies)[i].subject = policies[i].subject
              /\ Roles!Ability(policies)[i].conditions =
                    [ f \in DOMAIN policies[i].conditions |->
                        [ op |-> policies[i].conditions[f].op,
                          values |-> { Roles!Interpolated(v) : v \in Roles!NormalizedValues(f, policies[i].conditions[f]) } ] ]
<1>1. DOMAIN policies = 1 .. Len(policies) /\ Len(policies) \in Nat
  BY LenProperties
<1>2. DOMAIN Roles!Ability(policies) = DOMAIN policies
  BY DEF Roles!Ability
<1> DEFINE a == Roles!Ability(policies)
           R == { a[i] : i \in DOMAIN policies }
<1>3. a \in Seq(R)
  <2>1. a = [ i \in 1 .. Len(policies) |-> a[i] ]
    BY <1>1 DEF Roles!Ability
  <2>2. \A i \in 1 .. Len(policies) : a[i] \in R
    BY <1>1
  <2> HIDE DEF a, R
  <2> QED
    BY <1>1, <2>1, <2>2
<1> QED
  BY <1>2, <1>3 DEF Roles!Ability, Roles!Policy

\* What a listing shows opens, whatever the rules and however often they contradict
\* each other.
LEMMA ListedOpens ==
  ASSUME NEW policies \in Seq(StoredPolicies), NEW action, NEW subject, NEW line,
         Roles!Lists(Roles!Ability(policies), { action }, subject, line)
  PROVE  Roles!Can(Roles!Ability(policies), action, subject, line)
<1> DEFINE ability == Roles!Ability(policies)
           rules == Roles!RulesFor(ability, action, subject)
           read == { i \in rules : \A j \in rules : i <= j => ~ Roles!Unconditional(ability[j]) }
           rest == rules \ read
           query == Roles!Query(ability, action, subject)
           matching == { i \in rules : Roles!ExactlyMatches(ability[i].conditions, line) }
<1>1. PICK S : ability \in Seq(S)
  BY AbilityIs
<1>2. Roles!Selects(query, { c \in query.or \cup query.and : Roles!ExactlyMatches(c, line) })
  BY DEF Roles!Lists
<1>3. /\ query.everything <=> \E i \in rest : ~ ability[i].inverted /\ \A j \in rest : j <= i
      /\ query.or = { ability[i].conditions : i \in { k \in read : ~ ability[k].inverted } }
      /\ query.and = { ability[i].conditions : i \in { k \in read : ability[k].inverted } }
  BY DEF Roles!Query
<1>4. rules \subseteq DOMAIN ability /\ \A i \in rules : i \in Nat
  BY <1>1, LenProperties DEF Roles!RulesFor
<1> HIDE DEF ability, query, rules
<1>5. \A i \in read : ability[i].inverted => ~ Roles!ExactlyMatches(ability[i].conditions, line)
  BY <1>2, <1>3 DEF Roles!Selects
<1>6. \A i \in rest : \E j \in rules : i <= j /\ Roles!Unconditional(ability[j])
  OBVIOUS
<1>7. ASSUME NEW i \in rules, Roles!Unconditional(ability[i]) PROVE i \in matching /\ i \in rest
  <2>1. i \in matching
    BY <1>7 DEF Roles!Unconditional, Roles!ExactlyMatches
  <2>2. i \in Nat /\ i <= i
    BY <1>4
  <2> QED
    BY <1>7, <2>1, <2>2
\* The last rule that matches forbids nothing.
<1>8. ASSUME NEW m \in matching, \A k \in matching : k <= m, ability[m].inverted PROVE FALSE
  <2>1. m \in rest
    BY <1>5, <1>8
  <2>2. CASE query.everything
    <3>1. PICK i \in rest : ~ ability[i].inverted /\ \A j \in rest : j <= i
      BY <1>3, <2>2
    <3>2. PICK j \in rules : i <= j /\ Roles!Unconditional(ability[j])
      BY <1>6, <3>1
    <3>3. j \in rest /\ j \in matching
      BY <1>7, <3>2
    <3>4. j = i /\ i <= m /\ m <= i
      BY <1>4, <1>8, <2>1, <3>1, <3>2, <3>3
    <3> QED
      BY <1>4, <1>8, <3>1, <3>4
  <2>3. CASE query.or \cap { c \in query.or \cup query.and : Roles!ExactlyMatches(c, line) } # {}
    <3>1. PICK i \in read : ~ ability[i].inverted /\ Roles!ExactlyMatches(ability[i].conditions, line)
      BY <1>3, <2>3
    <3>2. PICK j \in rules : m <= j /\ Roles!Unconditional(ability[j])
      BY <1>6, <2>1
    <3>3. i <= m
      BY <1>8, <3>1
    <3>4. i <= j
      BY <1>4, <3>2, <3>3
    <3> QED
      BY <3>1, <3>2, <3>4
  <2> QED
    BY <1>2, <2>2, <2>3 DEF Roles!Selects
<1>9. matching # {}
  <2>1. CASE query.everything
    <3>1. PICK i \in rest : TRUE
      BY <1>3, <2>1
    <3> QED
      BY <1>6, <1>7, <3>1
  <2>2. CASE query.or \cap { c \in query.or \cup query.and : Roles!ExactlyMatches(c, line) } # {}
    BY <1>3, <2>2
  <2> QED
    BY <1>2, <2>1, <2>2 DEF Roles!Selects
<1>10. PICK m \in matching : \A k \in matching : k <= m
  BY <1>1, <1>4, <1>9, LastPlace
<1>11. ~ ability[m].inverted
  BY <1>8, <1>10
<1> USE DEF rules, ability
<1> QED
  BY <1>10, <1>11 DEF Roles!Can

LEMMA Spellings ==
  /\ \A v : Roles!Trim(Roles!Trim(v)) = Roles!Trim(v) /\ Roles!NormalizeEmailAddress(Roles!Trim(v)) = Roles!NormalizeEmailAddress(v)
  /\ \A v : LET w == Roles!Interpolated(Roles!NormalizeEmailAddress(v)) IN Roles!NormalizeEmailAddress(w) = w
  /\ \A v : Roles!NormalizeEmailAddress(v) = "s1" <=> v = "s1"
  /\ \A v : Roles!NormalizeEmailAddress(v) = "s2" <=> v = "s2"
  /\ \A v : Roles!NormalizeEmailAddress(v) = "u1" <=> v = "u1"
  /\ \A v : Roles!NormalizeEmailAddress(v) = "u2" <=> v = "u2"
  BY DEF Roles!Trim, Roles!NormalizeEmailAddress, Roles!Interpolated

LEMMA MessageIs ==
  ASSUME NEW message \in Roles!Messages
  PROVE  /\ message["userEmail"] \in { "a", "A", "b" }
         /\ message["ingestionSourceId"] \in { "s1", "s2" }
         /\ message["ingestionSource.userId"] \in { "u1", "u2" }
  BY DEF Roles!Messages, Roles!SubjectFields, Roles!Owner

\* Meilisearch finds what Postgres does.
LEMMA SameMatches ==
  ASSUME NEW policies \in Seq(StoredPolicies), Roles!Fits(policies, "archive"),
         NEW message \in Roles!Messages, NEW action \in { "read", "search" },
         NEW i \in Roles!RulesFor(Roles!Ability(policies), action, "archive")
  PROVE  Roles!ExactlyMatches(Roles!Ability(policies)[i].conditions, message)
           <=> Roles!SearchMatches(Roles!Ability(policies)[i].conditions, message)
<1> DEFINE c == Roles!Ability(policies)[i].conditions
           d == policies[i].conditions
<1>1. /\ i \in DOMAIN policies /\ policies[i].subject \cap { "archive", "all" } # {}
      /\ c = [ f \in DOMAIN d |-> [ op |-> d[f].op,
                 values |-> { Roles!Interpolated(v) : v \in Roles!NormalizedValues(f, d[f]) } ] ]
  BY AbilityIs DEF Roles!RulesFor, Roles!Covers
<1>2. DOMAIN d \subseteq { "userEmail", "ingestionSourceId", "ingestionSource.userId" }
  BY <1>1 DEF Roles!Fits, Roles!SubjectFields
<1> HIDE DEF c, d
<1>3. ASSUME NEW f \in DOMAIN c
      PROVE  \A v \in c[f].values :
                 Roles!Column(message, f) = v <=> Roles!NormalizeEmailAddress(message[f]) = Roles!NormalizeEmailAddress(v)
  <2>1. CASE f = "userEmail"
    <3>1. c[f].values = { Roles!Interpolated(Roles!NormalizeEmailAddress(v)) : v \in d[f].values }
      BY <1>1, <2>1 DEF Roles!NormalizedValues
    <3>2. \A v \in c[f].values : Roles!NormalizeEmailAddress(v) = v
      BY <3>1, Spellings
    <3> QED
      BY <2>1, <3>2 DEF Roles!Column
  <2>2. CASE f # "userEmail"
    <3>1. message[f] \in { "s1", "s2", "u1", "u2" }
      BY <1>1, <1>2, <2>2, MessageIs
    <3>2. Roles!Column(message, f) = message[f] /\ Roles!NormalizeEmailAddress(message[f]) = message[f]
      BY <2>2, <3>1 DEF Roles!Column, Roles!NormalizeEmailAddress, Roles!Trim
    <3> QED
      BY <3>1, <3>2, Spellings
  <2> QED
    BY <2>1, <2>2
<1>4. \A f \in DOMAIN c : (\E v \in c[f].values : Roles!Column(message, f) = v)
          <=> (\E v \in c[f].values : Roles!NormalizeEmailAddress(message[f]) = Roles!NormalizeEmailAddress(v))
  BY <1>3
<1>5. Roles!ExactlyMatches(c, message) <=> Roles!SearchMatches(c, message)
  BY <1>4 DEF Roles!ExactlyMatches, Roles!SearchMatches, Roles!Passes
<1> QED
  BY <1>5 DEF c

LEMMA ListedIsFound ==
  ASSUME NEW policies \in Seq(StoredPolicies), Roles!Fits(policies, "archive"),
         NEW message \in Roles!Messages, NEW actions \in SUBSET { "read", "search" }
  PROVE  Roles!Lists(Roles!Ability(policies), actions, "archive", message) <=> Roles!Finds(Roles!Ability(policies), actions, message)
<1> DEFINE ability == Roles!Ability(policies)
           query(action) == Roles!Query(ability, action, "archive")
<1>1. ASSUME NEW action \in { "read", "search" }, NEW c \in query(action).or \cup query(action).and
      PROVE  Roles!ExactlyMatches(c, message) <=> Roles!SearchMatches(c, message)
  <2>1. PICK i \in Roles!RulesFor(ability, action, "archive") : c = ability[i].conditions
    BY <1>1 DEF Roles!Query
  <2> QED
    BY <2>1, SameMatches
<1> HIDE DEF query, ability
<1>2. \A action \in { "read", "search" } :
          { c \in query(action).or \cup query(action).and : Roles!ExactlyMatches(c, message) }
            = { c \in query(action).or \cup query(action).and : Roles!SearchMatches(c, message) }
  BY <1>1
<1>3. Roles!Lists(ability, actions, "archive", message) <=> \E action \in actions :
          Roles!Selects(query(action), { c \in query(action).or \cup query(action).and : Roles!ExactlyMatches(c, message) })
  BY DEF Roles!Lists, query
<1>4. Roles!Finds(ability, actions, message) <=> \E action \in actions :
          Roles!Selects(query(action), { c \in query(action).or \cup query(action).and : Roles!SearchMatches(c, message) })
  BY DEF Roles!Finds, query
<1>5. Roles!Lists(ability, actions, "archive", message) <=> Roles!Finds(ability, actions, message)
  BY <1>2, <1>3, <1>4
<1> QED
  BY <1>5 DEF ability

-----------------------------------------------------------------------------
(* Between stored policies and statements                                  *)

LEMMA FieldsAre ==
  /\ Roles!Fields = { "userEmail", "ingestionSourceId", "ingestionSource.userId", "id", "userId" }
  /\ \A subjects : Roles!Catalog(subjects) \subseteq Roles!Fields
<1>1. DOMAIN Roles!SubjectFields = { "archive", "ingestion" }
  BY DEF Roles!SubjectFields
<1>2. \A s \in DOMAIN Roles!SubjectFields : Roles!SubjectFields[s] \subseteq Roles!Fields
  BY DEF Roles!Fields
<1>3. ASSUME NEW subjects PROVE Roles!Catalog(subjects) \subseteq Roles!Fields
  BY <1>2 DEF Roles!Catalog, Roles!Bearing
<1>4. Roles!Fields = Roles!SubjectFields["archive"] \cup Roles!SubjectFields["ingestion"]
  BY <1>1 DEF Roles!Fields
<1> QED
  BY <1>3, <1>4 DEF Roles!SubjectFields

LEMMA FilledIs ==
  ASSUME NEW values \in SUBSET Text
  PROVE  /\ Roles!Filled(values) \in SUBSET Text
         /\ Roles!Filled(Roles!Filled(values)) = Roles!Filled(values)
         /\ Roles!AtMostOne(values) => Roles!AtMostOne(Roles!Filled(values))
<1>1. \A v \in Text : Roles!Trim(v) \in Text /\ Roles!Trim(Roles!Trim(v)) = Roles!Trim(v)
  BY RolesAssumed DEF Roles!PolicyAssumption, Roles!Trim
<1>2. Roles!Filled(values) \in SUBSET Text
  BY <1>1 DEF Roles!Filled
<1>3. Roles!Filled(Roles!Filled(values)) = Roles!Filled(values)
  BY <1>1 DEF Roles!Filled
<1>4. Roles!AtMostOne(values) => Roles!AtMostOne(Roles!Filled(values))
  BY DEF Roles!Filled, Roles!AtMostOne
<1> QED
  BY <1>2, <1>3, <1>4

LEMMA RowIs ==
  ASSUME NEW line \in Rows
  PROVE  /\ line.field \in Roles!Fields /\ line.op \in Roles!Operators /\ line.values \in SUBSET Text
         /\ line = [ field |-> line.field, op |-> line.op, values |-> line.values ]
         /\ line.op \in Roles!AllowedOperators(line.field)
         /\ Roles!MultiValue(line.op) \/ Roles!AtMostOne(line.values)
  BY DEF Rows

LEMMA TestIsStored ==
  ASSUME NEW line \in Rows
  PROVE  Roles!Test(line) \in Roles!Stored /\ Roles!Test(line).op = line.op
<1>1. Roles!Filled(line.values) \in SUBSET Text /\ (Roles!AtMostOne(line.values) => Roles!AtMostOne(Roles!Filled(line.values)))
  BY RowIs, FilledIs
<1>2. Roles!Test(line).op = line.op
  BY DEF Roles!Test
<1>3. Roles!Test(line) \in [ op : Roles!Operators, values : SUBSET Text ]
  BY <1>1, RolesAssumed, RowIs DEF Roles!PolicyAssumption, Roles!Test
<1>4. ~ Roles!MultiValue(line.op) => Roles!Test(line).values # {} /\ Roles!AtMostOne(Roles!Test(line).values)
  BY <1>1, RowIs DEF Roles!Test, Roles!AtMostOne
<1> QED
  BY <1>2, <1>3, <1>4 DEF Roles!Stored

LEMMA LastRowIs ==
  ASSUME NEW S, NEW rows \in Seq(S), NEW f \in { rows[n].field : n \in DOMAIN rows }
  PROVE  Roles!LastRow(rows, f) \in DOMAIN rows /\ rows[Roles!LastRow(rows, f)].field = f
<1> DEFINE T == { n \in DOMAIN rows : rows[n].field = f }
<1>1. T # {} /\ T \in SUBSET DOMAIN rows
  OBVIOUS
<1>2. PICK m \in T : \A k \in T : k <= m
  BY <1>1, LastPlace
<1> QED
  BY <1>2 DEF Roles!LastRow

LEMMA WritesStored ==
  ASSUME NEW model \in Seq(Statements)
  PROVE  /\ Roles!ToPolicies(model) \in Seq(StoredPolicies)
         /\ DOMAIN Roles!ToPolicies(model) = DOMAIN model
         /\ \A i \in DOMAIN model :
              /\ Roles!ToPolicies(model)[i].inverted = model[i].inverted
              /\ Roles!ToPolicies(model)[i].action = model[i].action
              /\ Roles!ToPolicies(model)[i].subject = model[i].subject
              /\ DOMAIN Roles!ToPolicies(model)[i].conditions = { model[i].rows[n].field : n \in DOMAIN model[i].rows }
              /\ \A f \in DOMAIN Roles!ToPolicies(model)[i].conditions :
                    \E n \in DOMAIN model[i].rows :
                        /\ n = Roles!LastRow(model[i].rows, f) /\ model[i].rows[n].field = f
                        /\ Roles!ToPolicies(model)[i].conditions[f] = Roles!Test(model[i].rows[n])
<1>1. DOMAIN model = 1 .. Len(model) /\ Len(model) \in Nat /\ \A i \in DOMAIN model : model[i] \in Statements
  BY LenProperties
<1> DEFINE p == Roles!ToPolicies(model)
           fields(i) == { model[i].rows[n].field : n \in DOMAIN model[i].rows }
<1>2. DOMAIN p = DOMAIN model
  BY DEF Roles!ToPolicies
<1>3. ASSUME NEW i \in DOMAIN model
      PROVE  p[i] = [ inverted |-> model[i].inverted, action |-> model[i].action, subject |-> model[i].subject,
                      conditions |-> [ f \in fields(i) |-> Roles!Test(model[i].rows[Roles!LastRow(model[i].rows, f)]) ] ]
  BY DEF Roles!ToPolicies, Roles!Policy
<1> HIDE DEF p
<1>4. ASSUME NEW i \in DOMAIN model, NEW f \in fields(i)
      PROVE  /\ Roles!LastRow(model[i].rows, f) \in DOMAIN model[i].rows
             /\ model[i].rows[Roles!LastRow(model[i].rows, f)] \in Rows
             /\ model[i].rows[Roles!LastRow(model[i].rows, f)].field = f
  <2>1. model[i].rows \in Seq(Rows)
    BY <1>1 DEF Statements
  <2>2. \A n \in DOMAIN model[i].rows : model[i].rows[n] \in Rows
    BY <2>1, LenProperties
  <2> QED
    BY <2>1, <2>2, LastRowIs
<1>5. ASSUME NEW i \in DOMAIN model PROVE p[i] \in StoredPolicies
  <2>1. [ f \in fields(i) |-> Roles!Test(model[i].rows[Roles!LastRow(model[i].rows, f)]) ] \in [ fields(i) -> Roles!Stored ]
    BY <1>4, TestIsStored
  <2>2. fields(i) \in SUBSET Roles!Fields
    <3>1. \A n \in DOMAIN model[i].rows : model[i].rows[n] \in Rows
      BY <1>1, LenProperties DEF Statements
    <3> QED
      BY <3>1, RowIs
  <2>3. model[i].inverted \in BOOLEAN /\ model[i].action \in SUBSET Roles!Actions /\ model[i].subject \in SUBSET Roles!Subjects
    BY <1>1 DEF Statements
  <2> DEFINE c == [ f \in fields(i) |-> Roles!Test(model[i].rows[Roles!LastRow(model[i].rows, f)]) ]
  <2>5. p[i] = [ inverted |-> model[i].inverted, action |-> model[i].action, subject |-> model[i].subject, conditions |-> c ]
    BY <1>3
  <2>6. c \in [ fields(i) -> Roles!Stored ]
    BY <2>1
  <2> HIDE DEF fields, c
  <2>4. p[i] \in [ inverted : BOOLEAN, action : SUBSET Roles!Actions, subject : SUBSET Roles!Subjects, conditions : [ fields(i) -> Roles!Stored ] ]
    BY <2>3, <2>5, <2>6
  <2> QED
    BY <2>2, <2>4 DEF StoredPolicies
<1>6. p \in Seq(StoredPolicies)
  <2>1. p = [ i \in 1 .. Len(model) |-> p[i] ]
    BY <1>1 DEF p, Roles!ToPolicies
  <2> QED
    BY <1>1, <1>5, <2>1
<1>7. ASSUME NEW i \in DOMAIN model
      PROVE  /\ p[i].inverted = model[i].inverted /\ p[i].action = model[i].action
             /\ p[i].subject = model[i].subject /\ DOMAIN p[i].conditions = fields(i)
             /\ \A f \in DOMAIN p[i].conditions : \E n \in DOMAIN model[i].rows :
                    /\ n = Roles!LastRow(model[i].rows, f) /\ model[i].rows[n].field = f
                    /\ p[i].conditions[f] = Roles!Test(model[i].rows[n])
  <2> DEFINE c == [ f \in fields(i) |-> Roles!Test(model[i].rows[Roles!LastRow(model[i].rows, f)]) ]
  <2>1. p[i] = [ inverted |-> model[i].inverted, action |-> model[i].action, subject |-> model[i].subject, conditions |-> c ]
    BY <1>3
  <2>2. DOMAIN c = fields(i) /\ \A f \in DOMAIN c : c[f] = Roles!Test(model[i].rows[Roles!LastRow(model[i].rows, f)])
    OBVIOUS
  <2> HIDE DEF fields, c
  <2> QED
    BY <1>4, <2>1, <2>2
<1> QED
  BY <1>2, <1>6, <1>7 DEF p

LEMMA Enumerated ==
  ASSUME NEW S, IsFiniteSet(S)
  PROVE  /\ Roles!Cardinality(S) \in Nat
         /\ Roles!SetToSeq(S) \in [ 1 .. Roles!Cardinality(S) -> S ]
         /\ \A e \in S : \E n \in 1 .. Roles!Cardinality(S) : Roles!SetToSeq(S)[n] = e
<1>1. Roles!Cardinality(S) = Cardinality(S)
  BY DEF Cardinality, Roles!Cardinality
<1>2. Cardinality(S) \in Nat /\ ExistsBijection(1 .. Cardinality(S), S)
  BY FS_CardinalityType
<1>3. PICK g \in [ 1 .. Cardinality(S) -> S ] : IsInjective(g)
  BY <1>2 DEF ExistsBijection, Bijection, Injection
<1>4. \A h : IsInjective(h) <=> Roles!IsInjective(h)
  BY DEF IsInjective, Roles!IsInjective
<1>5. Roles!SetToSeq(S) \in [ 1 .. Cardinality(S) -> S ] /\ Roles!IsInjective(Roles!SetToSeq(S))
  BY <1>1, <1>3, <1>4 DEF Roles!SetToSeq
<1>6. Roles!SetToSeq(S) \in Injection(1 .. Cardinality(S), S)
  BY <1>4, <1>5 DEF Injection
<1>7. IsFiniteSet(1 .. Cardinality(S)) /\ Cardinality(1 .. Cardinality(S)) = Cardinality(S)
  BY <1>2, FS_Interval
<1>8. Roles!SetToSeq(S) \in Surjection(1 .. Cardinality(S), S)
  BY <1>6, <1>7, FS_Injection
<1> QED
  BY <1>1, <1>2, <1>5, <1>8 DEF Surjection

\* A stored policy, taken apart.
LEMMA PolicyIs ==
  ASSUME NEW policy \in StoredPolicies
  PROVE  /\ policy.inverted \in BOOLEAN /\ policy.action \in SUBSET Roles!Actions /\ policy.subject \in SUBSET Roles!Subjects
         /\ DOMAIN policy.conditions \in SUBSET Roles!Fields /\ IsFiniteSet(DOMAIN policy.conditions)
         /\ \A f \in DOMAIN policy.conditions : policy.conditions[f] \in Roles!Stored
         /\ \A f \in DOMAIN policy.conditions :
              /\ policy.conditions[f].op \in Roles!Operators /\ policy.conditions[f].values \in SUBSET Text
              /\ Roles!MultiValue(policy.conditions[f].op) \/ Roles!AtMostOne(policy.conditions[f].values)
<1>1. PICK fields \in SUBSET Roles!Fields :
        policy \in [ inverted : BOOLEAN, action : SUBSET Roles!Actions, subject : SUBSET Roles!Subjects, conditions : [ fields -> Roles!Stored ] ]
  BY DEF StoredPolicies
<1>2. DOMAIN policy.conditions = fields /\ \A f \in fields : policy.conditions[f] \in Roles!Stored
  BY <1>1
<1>3. IsFiniteSet(Roles!Fields)
  <2>1. Roles!Fields = ((({ "userEmail" } \cup { "ingestionSourceId" }) \cup { "ingestionSource.userId" }) \cup { "id" }) \cup { "userId" }
    BY FieldsAre
  <2> QED
    BY <2>1, FS_EmptySet, FS_Singleton, FS_Union
<1>4. IsFiniteSet(DOMAIN policy.conditions)
  BY <1>2, <1>3, FS_Subset
<1> QED
  BY <1>1, <1>2, <1>4 DEF Roles!Stored

\* The row of a condition.
RowOf(c, f) == [ field |-> f, op |-> c[f].op, values |-> c[f].values ]
RowsOf(c) == { RowOf(c, f) : f \in DOMAIN c }

\* The statement of a policy has one row for each of its conditions.
LEMMA Shows ==
  ASSUME NEW policies \in Seq(StoredPolicies), NEW i \in DOMAIN policies
  PROVE  /\ Roles!ToUiModel(policies)[i] =
              [ inverted |-> policies[i].inverted, action |-> policies[i].action,
                subject |-> policies[i].subject, rows |-> Roles!ToUiModel(policies)[i].rows ]
         /\ Roles!ToUiModel(policies)[i].inverted = policies[i].inverted
         /\ Roles!ToUiModel(policies)[i].action = policies[i].action
         /\ Roles!ToUiModel(policies)[i].subject = policies[i].subject
         /\ Roles!ToUiModel(policies)[i].rows \in Seq(RowsOf(policies[i].conditions))
         /\ \A f \in DOMAIN policies[i].conditions : \E n \in DOMAIN Roles!ToUiModel(policies)[i].rows :
                Roles!ToUiModel(policies)[i].rows[n] = RowOf(policies[i].conditions, f)
<1> DEFINE c == policies[i].conditions
           s == Roles!SetToSeq(DOMAIN c)
           N == Roles!Cardinality(DOMAIN c)
           rows == [ n \in 1 .. N |-> RowOf(c, s[n]) ]
<1>1. policies[i] \in StoredPolicies
  BY LenProperties
<1>2. N \in Nat /\ s \in [ 1 .. N -> DOMAIN c ] /\ \A f \in DOMAIN c : \E n \in 1 .. N : s[n] = f
  BY <1>1, PolicyIs, Enumerated
<1>3. Roles!ToUiModel(policies)[i] = [ inverted |-> policies[i].inverted, action |-> policies[i].action,
                                 subject |-> policies[i].subject, rows |-> rows ]
  BY DEF Roles!ToUiModel, RowOf
<1> HIDE DEF s, N, c
<1>4. rows \in Seq(RowsOf(c)) /\ DOMAIN rows = 1 .. N
  BY <1>2 DEF RowsOf
<1>5. ASSUME NEW f \in DOMAIN c PROVE \E n \in DOMAIN rows : rows[n] = RowOf(c, f)
  <2>1. PICK n \in 1 .. N : s[n] = f
    BY <1>2
  <2> QED
    BY <2>1
<1> HIDE DEF rows
<1>6. /\ Roles!ToUiModel(policies)[i].rows = rows /\ Roles!ToUiModel(policies)[i].inverted = policies[i].inverted
      /\ Roles!ToUiModel(policies)[i].action = policies[i].action /\ Roles!ToUiModel(policies)[i].subject = policies[i].subject
  BY <1>3
<1> QED
  BY <1>3, <1>4, <1>5, <1>6 DEF c

LEMMA ShownIsStatements ==
  ASSUME NEW policies \in Seq(StoredPolicies), Roles!CanDraw(policies)
  PROVE  /\ Roles!ToUiModel(policies) \in Seq(Statements)
         /\ DOMAIN Roles!ToUiModel(policies) = DOMAIN policies
<1>1. DOMAIN policies = 1 .. Len(policies) /\ Len(policies) \in Nat /\ \A i \in DOMAIN policies : policies[i] \in StoredPolicies
  BY LenProperties
<1> DEFINE model == Roles!ToUiModel(policies)
<1>2. ASSUME NEW i \in DOMAIN policies PROVE model[i] \in Statements
  <2> DEFINE c == policies[i].conditions
             rows == model[i].rows
  <2>1. ASSUME NEW f \in DOMAIN c PROVE RowOf(c, f) \in Rows
    <3>1. c[f].op \in Roles!AllowedOperators(f)
      BY <1>2, <2>1 DEF Roles!CanDraw, Roles!Drawable
    <3>2. f \in Roles!Fields /\ c[f].op \in Roles!Operators /\ c[f].values \in SUBSET Text
          /\ (Roles!MultiValue(c[f].op) \/ Roles!AtMostOne(c[f].values))
      BY <1>1, <2>1, PolicyIs
    <3> QED
      BY <3>1, <3>2 DEF Rows, RowOf
  <2>2. rows \in Seq(RowsOf(c))
    BY Shows
  <2>3. model[i] = [ inverted |-> policies[i].inverted, action |-> policies[i].action,
                     subject |-> policies[i].subject, rows |-> rows ]
    BY Shows
  <2> HIDE DEF rows, c, model
  <2>4. RowsOf(c) \subseteq Rows
    BY <2>1 DEF RowsOf
  <2>5. rows \in Seq(Rows)
    <3>1. DOMAIN rows = 1 .. Len(rows) /\ \A n \in DOMAIN rows : rows[n] \in RowsOf(c)
      BY <2>2, LenProperties
    <3> QED
      BY <2>2, <2>4, <3>1
  <2>6. policies[i].inverted \in BOOLEAN /\ policies[i].action \in SUBSET Roles!Actions /\ policies[i].subject \in SUBSET Roles!Subjects
    BY <1>1, PolicyIs
  <2> QED
    BY <2>3, <2>5, <2>6 DEF Statements
<1>3. DOMAIN model = DOMAIN policies
  BY DEF Roles!ToUiModel
<1>4. model = [ i \in 1 .. Len(policies) |-> model[i] ]
  BY <1>1 DEF Roles!ToUiModel
<1> HIDE DEF model
<1>5. model \in Seq(Statements)
  BY <1>1, <1>2, <1>4
<1> QED
  BY <1>3, <1>5 DEF model

LEMMA StatementIs ==
  ASSUME NEW model \in Seq(Statements), NEW i \in DOMAIN model
  PROVE  /\ model[i] \in Statements
         /\ model[i].rows \in Seq(Rows)
         /\ \A n \in DOMAIN model[i].rows : model[i].rows[n] \in Rows
<1>1. model[i] \in Statements
  BY LenProperties
<1>2. model[i].rows \in Seq(Rows)
  BY <1>1 DEF Statements
<1>3. \A n \in DOMAIN model[i].rows : model[i].rows[n] \in Rows
  BY <1>2, LenProperties
<1> QED
  BY <1>1, <1>2, <1>3

LEMMA TestIs ==
  ASSUME NEW line, Roles!Filled(line.values) # {}
  PROVE  /\ Roles!Test(line) = [ op |-> line.op, values |-> Roles!Filled(line.values) ]
         /\ Roles!Test(line).op = line.op /\ Roles!Test(line).values = Roles!Filled(line.values)
  BY DEF Roles!Test

\* What passed the form can be drawn again, and every engine can test it.
LEMMA SavedIsDrawable ==
  ASSUME NEW model \in Seq(Statements), Roles!Issues(model) = {}, NEW i \in DOMAIN model
  PROVE  LET c == Roles!ToPolicies(model)[i].conditions
         IN \A f \in DOMAIN c :
              /\ f \in Roles!Catalog(model[i].subject) /\ c[f].op \in Roles!AllowedOperators(f)
              /\ c[f].values # {}
<1> DEFINE c == Roles!ToPolicies(model)[i].conditions
<1>1. ASSUME NEW f \in DOMAIN c
      PROVE  f \in Roles!Catalog(model[i].subject) /\ c[f].op \in Roles!AllowedOperators(f) /\ c[f].values # {}
  <2>1. PICK n \in DOMAIN model[i].rows : model[i].rows[n].field = f /\ c[f] = Roles!Test(model[i].rows[n])
    BY <1>1, WritesStored
  <2>2. model[i].rows[n] \in Rows
    BY StatementIs
  <2>3. Roles!RowIsFine(model[i], model[i].rows[n])
    BY DEF Roles!Issues
  <2>4. c[f].op = model[i].rows[n].op /\ c[f].op \in Roles!AllowedOperators(f)
    BY <2>1, <2>2, TestIsStored, RowIs
  <2>5. Roles!Filled(model[i].rows[n].values) # {}
    BY <2>3 DEF Roles!RowIsFine, Roles!Entered
  <2>6. c[f].values # {}
    <3>1. Roles!Test(model[i].rows[n]).values = Roles!Filled(model[i].rows[n].values)
      BY <2>5, TestIs
    <3> QED
      BY <2>1, <2>5, <3>1
  <2> QED
    BY <2>1, <2>3, <2>4, <2>6 DEF Roles!RowIsFine
<1> QED
  BY <1>1

LEMMA SavedCanBeDrawn ==
  ASSUME NEW model \in Seq(Statements), Roles!Issues(model) = {}
  PROVE  Roles!CanDraw(Roles!ToPolicies(model))
<1>1. \A i \in DOMAIN model : Roles!ToPolicies(model)[i].subject = model[i].subject
  BY WritesStored
<1>2. DOMAIN Roles!ToPolicies(model) = DOMAIN model
  BY WritesStored
<1> QED
  BY <1>1, <1>2, SavedIsDrawable DEF Roles!CanDraw, Roles!Drawable

LEMMA SearchedFields ==
  ASSUME NEW subjects, subjects \cap { "archive", "all" } # {}
  PROVE  Roles!Catalog(subjects) \subseteq Roles!SubjectFields.archive
<1>1. CASE "all" \in subjects
  BY <1>1 DEF Roles!Catalog
<1>2. CASE "archive" \in subjects
  <2>1. "archive" \in Roles!Bearing(subjects)
    BY <1>2 DEF Roles!Bearing, Roles!SubjectFields
  <2> QED
    BY <2>1 DEF Roles!Catalog
<1> QED
  BY <1>1, <1>2

LEMMA SavedIsSearched ==
  ASSUME NEW model \in Seq(Statements), Roles!Issues(model) = {}
  PROVE  ~ Roles!SearchFails(Roles!Ability(Roles!ToPolicies(model)))
<1> DEFINE policies == Roles!ToPolicies(model)
           ability == Roles!Ability(policies)
<1>1. policies \in Seq(StoredPolicies) /\ DOMAIN policies = DOMAIN model
  BY WritesStored
<1>2. DOMAIN ability = DOMAIN policies
  BY <1>1, AbilityIs
<1>3. ASSUME NEW action \in { "read", "search" }, NEW i \in Roles!RulesFor(ability, action, "archive"),
             NEW f \in DOMAIN ability[i].conditions
      PROVE  f \in Roles!SubjectFields.archive /\ (f = "ingestionSource.userId" => ability[i].conditions[f].op = "eq")
  <2> DEFINE c == policies[i].conditions
  <2>1. i \in DOMAIN ability /\ ability[i].subject \cap { "archive", "all" } # {}
    BY <1>3 DEF Roles!RulesFor, Roles!Covers
  <2>6. i \in DOMAIN model /\ ability[i].subject = policies[i].subject
    BY <1>1, <1>2, <2>1, AbilityIs
  <2>2. i \in DOMAIN model /\ ability[i].subject = policies[i].subject /\ policies[i].subject = model[i].subject
    BY <2>6, WritesStored
  <2>3. ability[i].conditions = [ g \in DOMAIN c |-> [ op |-> c[g].op,
                                    values |-> { Roles!Interpolated(v) : v \in Roles!NormalizedValues(g, c[g]) } ] ]
    BY <1>1, <1>2, <2>1, AbilityIs
  <2> HIDE DEF ability
  <2>4. f \in DOMAIN c /\ ability[i].conditions[f].op = c[f].op
    BY <1>3, <2>3
  <2>5. f \in Roles!Catalog(model[i].subject) /\ c[f].op \in Roles!AllowedOperators(f)
    BY <2>2, <2>4, SavedIsDrawable
  <2> QED
    BY <2>1, <2>2, <2>4, <2>5, SearchedFields DEF Roles!AllowedOperators
<1> HIDE DEF ability
<1>4. ASSUME NEW action \in { "read", "search" },
             NEW c \in Roles!Query(ability, action, "archive").or \cup Roles!Query(ability, action, "archive").and
      PROVE  \E i \in Roles!RulesFor(ability, action, "archive") : c = ability[i].conditions
  BY DEF Roles!Query
<1>5. ~ Roles!SearchFails(ability)
  BY <1>3, <1>4 DEF Roles!SearchFails
<1> QED
  BY <1>5 DEF ability

LEMMA EnginesAgreeNow ==
  ASSUME PolicyInv
  PROVE  Roles!EnginesAgree
<1> DEFINE ability == Roles!Ability(role.policies)
<1>1. role.policies \in Seq(StoredPolicies)
  BY DEF PolicyInv
<1>2. \A message \in Roles!Messages : Roles!Fits(role.policies, "archive") =>
          \A actions \in { {"read"}, {"read", "search"} } :
              Roles!Lists(ability, actions, "archive", message) <=> Roles!Finds(ability, actions, message)
  BY <1>1, ListedIsFound
<1>3. \A subject, line : Roles!Lists(ability, {"read"}, subject, line) => Roles!Can(ability, "read", subject, line)
  BY <1>1, ListedOpens
<1>4. role.drawn => ~ Roles!SearchFails(ability)
  BY SavedIsSearched DEF PolicyInv
<1> QED
  BY <1>2, <1>3, <1>4 DEF Roles!EnginesAgree

\* A row that was written is shown as the same test.
LEMMA ShownAgain ==
  ASSUME NEW model \in Seq(Statements), Roles!Issues(model) = {}, NEW i \in DOMAIN model,
         Roles!OneRowPerField(model[i].rows)
  PROVE  Roles!Tests(Roles!ToUiModel(Roles!ToPolicies(model))[i].rows) = Roles!Tests(model[i].rows)
<1> DEFINE policies == Roles!ToPolicies(model)
           c == policies[i].conditions
           rows == model[i].rows
           shown == Roles!ToUiModel(policies)[i].rows
           test(line) == [ field |-> line.field, op |-> line.op, values |-> Roles!Test(line).values ]
<1>1. policies \in Seq(StoredPolicies) /\ i \in DOMAIN policies /\ DOMAIN c = { rows[n].field : n \in DOMAIN rows }
  BY WritesStored
<1>2. \A n \in DOMAIN rows : rows[n] \in Rows
  BY StatementIs
<1>3. ASSUME NEW n \in DOMAIN rows PROVE c[rows[n].field] = Roles!Test(rows[n]) /\ test(RowOf(c, rows[n].field)) = test(rows[n])
  <2>1. PICK m \in DOMAIN rows : rows[m].field = rows[n].field /\ c[rows[n].field] = Roles!Test(rows[m])
    BY <1>1, WritesStored
  <2>2. m = n
    BY <2>1 DEF Roles!OneRowPerField
  <2>3. c[rows[n].field] = Roles!Test(rows[n])
    BY <2>1, <2>2
  <2>4. Roles!Filled(rows[n].values) # {}
    BY DEF Roles!Issues, Roles!RowIsFine, Roles!Entered
  <2>5. Roles!Test(rows[n]) = [ op |-> rows[n].op, values |-> Roles!Filled(rows[n].values) ]
    BY <2>4, TestIs
  <2>6. Roles!Filled(Roles!Filled(rows[n].values)) = Roles!Filled(rows[n].values)
    BY <1>2, RowIs, FilledIs
  <2>7. RowOf(c, rows[n].field) = [ field |-> rows[n].field, op |-> rows[n].op, values |-> Roles!Filled(rows[n].values) ]
    BY <2>3, <2>5 DEF RowOf
  <2>8. Roles!Test(RowOf(c, rows[n].field)).values = Roles!Filled(rows[n].values)
    <3>1. RowOf(c, rows[n].field).values = Roles!Filled(rows[n].values) /\ Roles!Filled(Roles!Filled(rows[n].values)) # {}
      BY <2>4, <2>6, <2>7
    <3> QED
      BY <2>6, <3>1, TestIs
  <2> HIDE DEF rows, c
  <2> QED
    BY <2>3, <2>5, <2>7, <2>8
<1>4. /\ \A k \in DOMAIN shown : \E f \in DOMAIN c : shown[k] = RowOf(c, f)
      /\ \A f \in DOMAIN c : \E k \in DOMAIN shown : shown[k] = RowOf(c, f)
  <2>1. shown \in Seq(RowsOf(c)) /\ \A f \in DOMAIN c : \E k \in DOMAIN shown : shown[k] = RowOf(c, f)
    BY <1>1, Shows
  <2> HIDE DEF shown, c
  <2>2. \A k \in DOMAIN shown : shown[k] \in RowsOf(c)
    BY <2>1, LenProperties
  <2> QED
    BY <2>1, <2>2 DEF RowsOf
<1>5. Roles!Tests(shown) = { test(shown[k]) : k \in DOMAIN shown } /\ Roles!Tests(rows) = { test(rows[n]) : n \in DOMAIN rows }
  BY DEF Roles!Tests
<1> HIDE DEF shown, c, rows, test
<1>6. Roles!Tests(shown) = Roles!Tests(rows)
  BY <1>1, <1>3, <1>4, <1>5
<1> QED
  BY <1>6 DEF shown, rows

\* Padding and blanks make no difference to what is found.
LEMMA FoundAgain ==
  ASSUME NEW message \in Roles!Messages, NEW f \in { "userEmail", "ingestionSourceId", "ingestionSource.userId" },
         NEW test, NEW again, again.values = Roles!Filled(test.values)
  PROVE  (\E v \in { Roles!Interpolated(w) : w \in Roles!NormalizedValues(f, again) } : Roles!Column(message, f) = v)
           <=> (\E v \in { Roles!Interpolated(w) : w \in Roles!NormalizedValues(f, test) } : Roles!Column(message, f) = v)
<1>1. CASE f = "userEmail"
  <2>1. /\ Roles!NormalizedValues(f, again) = { Roles!NormalizeEmailAddress(w) : w \in Roles!Filled(test.values) }
        /\ Roles!NormalizedValues(f, test) = { Roles!NormalizeEmailAddress(w) : w \in test.values }
    BY <1>1 DEF Roles!NormalizedValues
  <2>2. Roles!Column(message, f) \in { "a", "b" }
    BY <1>1, MessageIs DEF Roles!Column, Roles!NormalizeEmailAddress, Roles!Trim
  <2>3. \A w : Roles!Trim(w) = "empty" => Roles!Interpolated(Roles!NormalizeEmailAddress(w)) = "empty"
    BY DEF Roles!Interpolated, Roles!NormalizeEmailAddress
  <2>4. ASSUME NEW w \in Roles!Filled(test.values)
        PROVE  \E u \in test.values : Roles!NormalizeEmailAddress(u) = Roles!NormalizeEmailAddress(w)
    <3>1. PICK u \in test.values : w = Roles!Trim(u)
      BY <2>4 DEF Roles!Filled
    <3> QED
      BY <3>1, Spellings
  <2>5. ASSUME NEW u \in test.values, Roles!Column(message, f) = Roles!Interpolated(Roles!NormalizeEmailAddress(u))
        PROVE  \E w \in Roles!Filled(test.values) : Roles!NormalizeEmailAddress(w) = Roles!NormalizeEmailAddress(u)
    <3>1. Roles!Trim(u) # "empty"
      BY <2>2, <2>3, <2>5
    <3>2. Roles!Trim(u) \in Roles!Filled(test.values)
      BY <3>1 DEF Roles!Filled
    <3> QED
      BY <3>2, Spellings
  <2> QED
    BY <2>1, <2>4, <2>5
<1>2. CASE f # "userEmail"
  <2>1. Roles!NormalizedValues(f, again) = Roles!Filled(test.values) /\ Roles!NormalizedValues(f, test) = test.values
    BY <1>2 DEF Roles!NormalizedValues
  <2>2. Roles!Column(message, f) \in { "s1", "s2", "u1", "u2" }
    BY <1>2, MessageIs DEF Roles!Column
  <2>3. ASSUME NEW v, Roles!Interpolated(v) \in { "s1", "s2", "u1", "u2" }
        PROVE  v \in { "s1", "s2", "u1", "u2", "me" }
    BY <2>3 DEF Roles!Interpolated
  <2>4. \A v \in { "s1", "s2", "u1", "u2", "me" } : v \in Roles!Filled(test.values) <=> v \in test.values
    BY DEF Roles!Filled, Roles!Trim
  <2>5. \A values : (\E v \in { Roles!Interpolated(w) : w \in values } : Roles!Column(message, f) = v)
                      <=> \E w \in values : Roles!Column(message, f) = Roles!Interpolated(w)
    OBVIOUS
  <2>6. (\E w \in Roles!Filled(test.values) : Roles!Column(message, f) = Roles!Interpolated(w))
          <=> (\E w \in test.values : Roles!Column(message, f) = Roles!Interpolated(w))
    BY <2>2, <2>3, <2>4
  <2> QED
    BY <2>1, <2>5, <2>6
<1> QED
  BY <1>1, <1>2

\* What the editor draws it writes back.
LEMMA WritesBack ==
  ASSUME NEW policies \in Seq(StoredPolicies), Roles!CanDraw(policies), Roles!Issues(Roles!ToUiModel(policies)) = {},
         NEW i \in DOMAIN policies
  PROVE  LET again == Roles!ToPolicies(Roles!ToUiModel(policies))
         IN /\ i \in DOMAIN again
            /\ again[i].inverted = policies[i].inverted
            /\ again[i].action = policies[i].action
            /\ again[i].subject = policies[i].subject
            /\ DOMAIN again[i].conditions = DOMAIN policies[i].conditions
            /\ \A f \in DOMAIN policies[i].conditions :
                  /\ again[i].conditions[f].op = policies[i].conditions[f].op
                  /\ again[i].conditions[f].values = Roles!Filled(policies[i].conditions[f].values)
<1> DEFINE model == Roles!ToUiModel(policies)
           again == Roles!ToPolicies(model)
           c == policies[i].conditions
           rows == model[i].rows
<1>1. model \in Seq(Statements) /\ DOMAIN model = DOMAIN policies
  BY ShownIsStatements
<1>2. /\ i \in DOMAIN again /\ again[i].inverted = model[i].inverted
      /\ again[i].action = model[i].action /\ again[i].subject = model[i].subject
      /\ DOMAIN again[i].conditions = { rows[n].field : n \in DOMAIN rows }
      /\ \A f \in DOMAIN again[i].conditions : \E n \in DOMAIN rows :
            rows[n].field = f /\ again[i].conditions[f] = Roles!Test(rows[n])
  BY <1>1, WritesStored
<1>3. model[i].inverted = policies[i].inverted /\ model[i].action = policies[i].action /\ model[i].subject = policies[i].subject
  BY Shows
<1>4. /\ \A k \in DOMAIN rows : \E f \in DOMAIN c : rows[k] = RowOf(c, f)
      /\ \A f \in DOMAIN c : \E k \in DOMAIN rows : rows[k] = RowOf(c, f)
  <2>1. rows \in Seq(RowsOf(c)) /\ \A f \in DOMAIN c : \E k \in DOMAIN rows : rows[k] = RowOf(c, f)
    BY Shows
  <2> HIDE DEF rows, c
  <2>2. \A k \in DOMAIN rows : rows[k] \in RowsOf(c)
    BY <2>1, LenProperties
  <2> QED
    BY <2>1, <2>2 DEF RowsOf
<1>5. \A n \in DOMAIN rows : Roles!Filled(rows[n].values) # {}
  BY <1>1 DEF Roles!Issues, Roles!RowIsFine, Roles!Entered
<1>6. \A f : RowOf(c, f).field = f /\ RowOf(c, f).op = c[f].op /\ RowOf(c, f).values = c[f].values
  BY DEF RowOf
<1> HIDE DEF rows, c, again, model
<1>7. DOMAIN again[i].conditions = DOMAIN c
  <2>1. { rows[n].field : n \in DOMAIN rows } \subseteq DOMAIN c
    BY <1>4, <1>6
  <2>2. DOMAIN c \subseteq { rows[n].field : n \in DOMAIN rows }
    BY <1>4, <1>6
  <2> QED
    BY <1>2, <2>1, <2>2
<1>8. ASSUME NEW f \in DOMAIN c
      PROVE  again[i].conditions[f].op = c[f].op /\ again[i].conditions[f].values = Roles!Filled(c[f].values)
  <2>1. PICK n \in DOMAIN rows : rows[n].field = f /\ again[i].conditions[f] = Roles!Test(rows[n])
    BY <1>2, <1>7
  <2>2. rows[n] = RowOf(c, f)
    BY <1>4, <1>6, <2>1
  <2>3. Roles!Test(rows[n]) = [ op |-> rows[n].op, values |-> Roles!Filled(rows[n].values) ]
    BY <1>5, TestIs
  <2> QED
    BY <1>6, <2>1, <2>2, <2>3
<1> QED
  BY <1>2, <1>3, <1>7, <1>8 DEF again, c, model

LEMMA OpensAgain ==
  ASSUME NEW policies \in Seq(StoredPolicies), Roles!CanDraw(policies), Roles!Issues(Roles!ToUiModel(policies)) = {},
         Roles!Fits(policies, "archive"), NEW message \in Roles!Messages, NEW action
  PROVE  Roles!Can(Roles!Ability(Roles!ToPolicies(Roles!ToUiModel(policies))), action, "archive", message)
           <=> Roles!Can(Roles!Ability(policies), action, "archive", message)
<1> DEFINE again == Roles!ToPolicies(Roles!ToUiModel(policies))
           before == Roles!Ability(policies)
           after == Roles!Ability(again)
           rules == Roles!RulesFor(before, action, "archive")
<1>1. again \in Seq(StoredPolicies) /\ DOMAIN again = DOMAIN policies
  BY ShownIsStatements, WritesStored
<1>2. DOMAIN before = DOMAIN policies /\ DOMAIN after = DOMAIN policies
  BY <1>1, AbilityIs
<1>3. \A i \in DOMAIN policies :
        /\ after[i].inverted = before[i].inverted /\ after[i].action = before[i].action
        /\ after[i].subject = before[i].subject
  <2> SUFFICES ASSUME NEW i \in DOMAIN policies
               PROVE  /\ after[i].inverted = before[i].inverted /\ after[i].action = before[i].action
                      /\ after[i].subject = before[i].subject
    OBVIOUS
  <2>1. before[i].inverted = policies[i].inverted /\ before[i].action = policies[i].action /\ before[i].subject = policies[i].subject
    BY AbilityIs
  <2>2. after[i].inverted = again[i].inverted /\ after[i].action = again[i].action /\ after[i].subject = again[i].subject
    BY <1>1, AbilityIs
  <2>3. again[i].inverted = policies[i].inverted /\ again[i].action = policies[i].action /\ again[i].subject = policies[i].subject
    BY WritesBack
  <2> HIDE DEF before, after, again
  <2> QED
    BY <2>1, <2>2, <2>3
<1>4. Roles!RulesFor(after, action, "archive") = rules
  BY <1>2, <1>3 DEF Roles!RulesFor, Roles!Covers
<1>5. ASSUME NEW i \in rules
      PROVE  Roles!ExactlyMatches(after[i].conditions, message) <=> Roles!ExactlyMatches(before[i].conditions, message)
  <2> DEFINE c == policies[i].conditions
             d == again[i].conditions
             values(e, f) == { Roles!Interpolated(v) : v \in Roles!NormalizedValues(f, e[f]) }
  <2>1. i \in DOMAIN policies /\ before[i].subject \cap { "archive", "all" } # {}
    BY <1>2, <1>5 DEF Roles!RulesFor, Roles!Covers
  <2>2. before[i].subject = policies[i].subject
    BY <2>1, AbilityIs
  <2>3. DOMAIN c \subseteq { "userEmail", "ingestionSourceId", "ingestionSource.userId" }
    BY <2>1, <2>2 DEF Roles!Fits, Roles!SubjectFields
  <2>4. before[i].conditions = [ f \in DOMAIN c |-> [ op |-> c[f].op, values |-> values(c, f) ] ]
    BY <2>1, AbilityIs
  <2>5. after[i].conditions = [ f \in DOMAIN d |-> [ op |-> d[f].op, values |-> values(d, f) ] ]
    BY <1>1, <2>1, AbilityIs
  <2>6. DOMAIN d = DOMAIN c /\ \A f \in DOMAIN c : d[f].op = c[f].op /\ d[f].values = Roles!Filled(c[f].values)
    BY <2>1, WritesBack
  <2> HIDE DEF before, after, c, d
  <2>7. \A f \in DOMAIN c : (\E v \in values(d, f) : Roles!Column(message, f) = v)
                                <=> (\E v \in values(c, f) : Roles!Column(message, f) = v)
    BY <2>3, <2>6, FoundAgain
  <2> HIDE DEF values
  <2> QED
    BY <2>4, <2>5, <2>6, <2>7 DEF Roles!ExactlyMatches, Roles!Passes
<1>6. \A i \in rules : after[i].inverted = before[i].inverted
  BY <1>2, <1>3 DEF Roles!RulesFor
<1> HIDE DEF before, after, rules
<1>7. { i \in rules : Roles!ExactlyMatches(after[i].conditions, message) }
        = { i \in rules : Roles!ExactlyMatches(before[i].conditions, message) }
  BY <1>5
<1>8. Roles!Can(after, action, "archive", message) <=> Roles!Can(before, action, "archive", message)
  BY <1>4, <1>6, <1>7 DEF Roles!Can, rules
<1> QED
  BY <1>8 DEF after, before

LEMMA EditorKeepsPolicyNow ==
  ASSUME PolicyInv
  PROVE  Roles!EditorKeepsPolicy
<1>1. role.policies \in Seq(StoredPolicies)
  BY DEF PolicyInv
<1>2. ASSUME role.drawn
      PROVE  /\ Roles!CanDraw(role.policies)
             /\ \A i \in DOMAIN kept : Roles!OneRowPerField(kept[i].rows) =>
                  LET shown == Roles!ToUiModel(role.policies)[i]
                  IN /\ << shown.inverted, shown.action, shown.subject >> = << kept[i].inverted, kept[i].action, kept[i].subject >>
                     /\ Roles!Tests(shown.rows) = Roles!Tests(kept[i].rows)
  <2>1. kept \in Seq(Statements) /\ Roles!Issues(kept) = {} /\ role.policies = Roles!ToPolicies(kept)
    BY <1>2 DEF PolicyInv
  <2>2. Roles!CanDraw(role.policies)
    BY <2>1, SavedCanBeDrawn
  <2>3. ASSUME NEW i \in DOMAIN kept
        PROVE  LET shown == Roles!ToUiModel(role.policies)[i]
               IN shown.inverted = kept[i].inverted /\ shown.action = kept[i].action /\ shown.subject = kept[i].subject
    <3>1. /\ i \in DOMAIN role.policies /\ role.policies[i].inverted = kept[i].inverted
          /\ role.policies[i].action = kept[i].action /\ role.policies[i].subject = kept[i].subject
      BY <2>1, WritesStored
    <3> QED
      BY <1>1, <3>1, Shows
  <2>4. \A i \in DOMAIN kept : Roles!OneRowPerField(kept[i].rows) =>
            Roles!Tests(Roles!ToUiModel(role.policies)[i].rows) = Roles!Tests(kept[i].rows)
    BY <2>1, ShownAgain
  <2> QED
    BY <2>2, <2>3, <2>4
<1>3. ASSUME Roles!CanDraw(role.policies), Roles!Issues(Roles!ToUiModel(role.policies)) = {}
      PROVE  LET again == Roles!Ability(Roles!ToPolicies(Roles!ToUiModel(role.policies)))
             IN \A message \in Roles!Messages, action \in { "read", "search" } :
                  Roles!Fits(role.policies, "archive") =>
                    (Roles!Can(again, action, "archive", message) <=> Roles!Can(Roles!Ability(role.policies), action, "archive", message))
  BY <1>1, <1>3, OpensAgain
<1> QED
  BY <1>2, <1>3 DEF Roles!EditorKeepsPolicy

-----------------------------------------------------------------------------
(* The steps                                                               *)

LEMMA GivenPolicies ==
  Presets \cup Written \subseteq Seq(StoredPolicies)
<1> SUFFICES ASSUME NEW policies \in Presets \cup Written
             PROVE  policies \in Seq(StoredPolicies)
  OBVIOUS
<1>1. policies \in Seq(Roles!ToSet(policies)) /\ \A policy \in Roles!ToSet(policies) : Roles!IsPolicy(policy)
  BY RolesAssumed DEF Roles!PolicyAssumption
<1>2. Roles!ToSet(policies) \subseteq StoredPolicies
  BY <1>1 DEF Roles!IsPolicy, StoredPolicies
<1>3. DOMAIN policies = 1 .. Len(policies) /\ \A i \in DOMAIN policies : policies[i] \in Roles!ToSet(policies)
  BY <1>1, LenProperties DEF Roles!ToSet
<1> HIDE DEF Roles!ToSet
<1> QED
  BY <1>1, <1>2, <1>3

\* The dialog in either mode.
LEMMA FormIs ==
  ASSUME PolicyInv
  PROVE  /\ form.mode = "visual" => form.model \in Seq(Statements)
         /\ form.mode = "json" => form.json \in Seq(StoredPolicies)
  BY DEF PolicyInv, Forms, Roles!Closed

LEMMA FormsAre ==
  /\ Roles!Closed \in Forms
  /\ \A model \in Seq(Statements) : Roles!Visual(model) \in Forms
  /\ \A policies \in Seq(StoredPolicies) : Roles!Json(policies) \in Forms
  BY DEF Forms, Roles!Visual, Roles!Json

LEMMA WithoutOne ==
  ASSUME NEW S, NEW s \in Seq(S), NEW i \in DOMAIN s
  PROVE  Roles!RemoveAt(s, i) \in Seq(S)
<1>1. Len(s) \in Nat /\ i \in 1 .. Len(s)
  BY LenProperties
<1>2. SubSeq(s, 1, i - 1) \in Seq(S)
  BY <1>1, SubSeqProperties
<1>3. SubSeq(s, i + 1, Len(s)) \in Seq(S)
  BY <1>1, SubSeqProperties
<1> QED
  BY <1>2, <1>3, ConcatProperties DEF Roles!RemoveAt

\* A dialog that changes leaves the role alone.
LEMMA ChangeKeeps ==
  ASSUME PolicyInv, NEW model \in Seq(Statements), Roles!Changes(model)
  PROVE  PolicyInv'
<1>1. form' \in Forms
  BY FormsAre DEF Roles!Changes
<1> QED
  BY <1>1 DEF Roles!Changes, PolicyInv

LEMMA StatementKeeps ==
  ASSUME PolicyInv, form.mode = "visual", NEW i \in DOMAIN form.model, NEW statement \in Statements,
         Roles!ChangesStatement(i, statement)
  PROVE  PolicyInv'
<1>1. form.model \in Seq(Statements)
  BY FormIs
<1>2. [ form.model EXCEPT ![i] = statement ] \in Seq(Statements)
  BY <1>1, ExceptSeq
<1> QED
  BY <1>2, ChangeKeeps DEF Roles!ChangesStatement

LEMMA RowKeeps ==
  ASSUME PolicyInv, form.mode = "visual", NEW i \in DOMAIN form.model, NEW n \in DOMAIN form.model[i].rows,
         NEW line \in Rows, Roles!ChangesStatement(i, [ form.model[i] EXCEPT !.rows[n] = line ])
  PROVE  PolicyInv'
<1>1. form.model[i] \in Statements /\ form.model[i].rows \in Seq(Rows)
  BY FormIs, StatementIs
<1>2. [ form.model[i].rows EXCEPT ![n] = line ] \in Seq(Rows)
  BY <1>1, ExceptSeq
<1>3. [ form.model[i] EXCEPT !.rows[n] = line ] \in Statements
  BY <1>1, <1>2 DEF Statements
<1> QED
  BY <1>3, StatementKeeps

LEMMA EditStatementKeeps ==
  ASSUME PolicyInv, form.mode = "visual", NEW i \in DOMAIN form.model, Roles!EditStatement(i)
  PROVE  PolicyInv'
<1> DEFINE statement == form.model[i]
<1>1. statement \in Statements
  BY FormIs, StatementIs
<1>2. ASSUME NEW action \in Roles!Actions,
             Roles!ChangesStatement(i, [ statement EXCEPT !.action = Roles!Toggled(@, action) ])
      PROVE  PolicyInv'
  <2>1. [ statement EXCEPT !.action = Roles!Toggled(@, action) ] \in Statements
    BY <1>1 DEF Statements, Roles!Toggled
  <2> QED
    BY <1>2, <2>1, StatementKeeps
<1>3. ASSUME NEW subject \in Roles!Subjects,
             Roles!ChangesStatement(i, [ statement EXCEPT !.subject = Roles!Toggled(@, subject) ])
      PROVE  PolicyInv'
  <2>1. [ statement EXCEPT !.subject = Roles!Toggled(@, subject) ] \in Statements
    BY <1>1 DEF Statements, Roles!Toggled
  <2> QED
    BY <1>3, <2>1, StatementKeeps
<1>4. ASSUME Roles!ChangesStatement(i, [ statement EXCEPT !.inverted = ~ @ ])
      PROVE  PolicyInv'
  <2>1. [ statement EXCEPT !.inverted = ~ @ ] \in Statements
    BY <1>1 DEF Statements
  <2> QED
    BY <1>4, <2>1, StatementKeeps
<1> QED
  BY <1>2, <1>3, <1>4 DEF Roles!EditStatement

LEMMA AddConditionKeeps ==
  ASSUME PolicyInv, form.mode = "visual", NEW i \in DOMAIN form.model, Roles!AddCondition(i)
  PROVE  PolicyInv'
<1>1. form.model[i] \in Statements /\ form.model[i].rows \in Seq(Rows)
  BY FormIs, StatementIs
<1>2. PICK f \in Roles!Catalog(form.model[i].subject) :
        Roles!ChangesStatement(i, [ form.model[i] EXCEPT !.rows = Append(@, [ field |-> f, op |-> "eq", values |-> {} ]) ])
  BY DEF Roles!AddCondition
<1>3. [ field |-> f, op |-> "eq", values |-> {} ] \in Rows
  BY FieldsAre DEF Rows, Roles!AllowedOperators, Roles!Operators, Roles!AtMostOne
<1>4. Append(form.model[i].rows, [ field |-> f, op |-> "eq", values |-> {} ]) \in Seq(Rows)
  BY <1>1, <1>3, AppendProperties
<1>5. [ form.model[i] EXCEPT !.rows = Append(@, [ field |-> f, op |-> "eq", values |-> {} ]) ] \in Statements
  BY <1>1, <1>4 DEF Statements
<1> QED
  BY <1>2, <1>5, StatementKeeps

LEMMA EditRowKeeps ==
  ASSUME PolicyInv, form.mode = "visual", NEW i \in DOMAIN form.model, NEW n \in DOMAIN form.model[i].rows,
         Roles!EditRow(i, n)
  PROVE  PolicyInv'
<1> DEFINE line == form.model[i].rows[n]
<1>1. form.model[i] \in Statements /\ form.model[i].rows \in Seq(Rows) /\ line \in Rows
  BY FormIs, StatementIs
<1>2. ASSUME NEW f, Roles!ChangeField(i, n, f) PROVE PolicyInv'
  <2> DEFINE new == [ field |-> f, op |-> IF line.op \in Roles!AllowedOperators(f) THEN line.op ELSE "eq", values |-> {} ]
  <2>1. f \in Roles!Fields
    BY <1>2, FieldsAre DEF Roles!ChangeField
  <2>2. new \in Rows
    BY <1>1, <2>1, RowIs DEF Rows, Roles!AllowedOperators, Roles!Operators, Roles!AtMostOne
  <2>3. Roles!ChangesStatement(i, [ form.model[i] EXCEPT !.rows[n] = new ])
    BY <1>2 DEF Roles!ChangeField
  <2> QED
    BY <2>2, <2>3, RowKeeps
<1>3. ASSUME NEW op \in Roles!Operators, Roles!ChangeOperator(i, n, op) PROVE PolicyInv'
  <2>1. PICK values \in Roles!Retained(line, op) :
          Roles!ChangesStatement(i, [ form.model[i] EXCEPT !.rows[n] = [ field |-> line.field, op |-> op, values |-> values ] ])
    BY <1>3 DEF Roles!ChangeOperator
  <2>2. op \in Roles!AllowedOperators(line.field)
    BY <1>3 DEF Roles!ChangeOperator
  <2>3. values \in SUBSET Text /\ (Roles!MultiValue(op) \/ Roles!AtMostOne(values))
    BY <1>1, RowIs DEF Roles!Retained, Roles!AtMostOne
  <2>5. [ field |-> line.field, op |-> op, values |-> values ] \in Rows
    BY <1>1, <2>2, <2>3, RowIs DEF Rows
  <2> QED
    BY <2>1, <2>5, RowKeeps
<1>4. ASSUME NEW values \in SUBSET Text, Roles!MultiValue(line.op) \/ Roles!AtMostOne(values), Roles!SetValues(i, n, values)
      PROVE  PolicyInv'
  <2>1. [ line EXCEPT !.values = values ] = [ field |-> line.field, op |-> line.op, values |-> values ]
    BY <1>1, RowIs
  <2>2. [ line EXCEPT !.values = values ] \in Rows
    BY <1>1, <1>4, <2>1, RowIs DEF Rows
  <2>3. Roles!ChangesStatement(i, [ form.model[i] EXCEPT !.rows[n] = [ line EXCEPT !.values = values ] ])
    BY <1>4 DEF Roles!SetValues
  <2> QED
    BY <2>2, <2>3, RowKeeps
<1>5. ASSUME NEW v \in Roles!Values(line.field),
             Roles!SetValues(i, n, IF Roles!MultiValue(line.op) THEN line.values \cup {v} ELSE {v})
      PROVE  PolicyInv'
  <2>1. v \in Text
    BY RolesAssumed DEF Roles!PolicyAssumption, Roles!Values
  <2>2. (IF Roles!MultiValue(line.op) THEN line.values \cup {v} ELSE {v}) \in SUBSET Text
    BY <1>1, <2>1, RowIs
  <2>3. Roles!MultiValue(line.op) \/ Roles!AtMostOne(IF Roles!MultiValue(line.op) THEN line.values \cup {v} ELSE {v})
    BY DEF Roles!AtMostOne
  <2> QED
    BY <1>4, <1>5, <2>2, <2>3
<1>6. ASSUME NEW v, Roles!SetValues(i, n, line.values \ {v}) PROVE PolicyInv'
  <2>1. line.values \ {v} \in SUBSET Text /\ (Roles!MultiValue(line.op) \/ Roles!AtMostOne(line.values \ {v}))
    BY <1>1, RowIs DEF Roles!AtMostOne
  <2> QED
    BY <1>4, <1>6, <2>1
<1>7. ASSUME Roles!RemoveCondition(i, n) PROVE PolicyInv'
  <2>1. Roles!RemoveAt(form.model[i].rows, n) \in Seq(Rows)
    BY <1>1, WithoutOne
  <2>2. [ form.model[i] EXCEPT !.rows = Roles!RemoveAt(@, n) ] \in Statements
    BY <1>1, <2>1 DEF Statements
  <2> QED
    BY <1>7, <2>2, StatementKeeps DEF Roles!RemoveCondition
<1> QED
  BY <1>2, <1>3, <1>5, <1>6, <1>7 DEF Roles!EditRow

LEMMA PoliciesBegin ==
  ASSUME Roles!Init
  PROVE  PolicyInv
  BY GivenPolicies, FormsAre DEF Roles!Init, PolicyInv

LEMMA PoliciesStep ==
  ASSUME PolicyInv, Roles!Next
  PROVE  PolicyInv'
<1>1. role.policies \in Seq(StoredPolicies) /\ role.drawn \in BOOLEAN
  BY DEF PolicyInv
<1>2. CASE Roles!Open
  <2>1. form' \in Forms
    BY <1>1, <1>2, FormsAre, ShownIsStatements DEF Roles!Open
  <2> QED
    BY <1>2, <2>1 DEF Roles!Open, PolicyInv
<1>3. CASE Roles!Close
  BY <1>3, FormsAre DEF Roles!Close, PolicyInv
<1>4. CASE Roles!ShowVisual
  <2>1. form' \in Forms
    BY <1>4, FormIs, FormsAre, ShownIsStatements DEF Roles!ShowVisual
  <2> QED
    BY <1>4, <2>1 DEF Roles!ShowVisual, PolicyInv
<1>5. CASE Roles!ShowJson
  <2>1. form' \in Forms
    BY <1>5, FormIs, FormsAre, WritesStored DEF Roles!ShowJson
  <2> QED
    BY <1>5, <2>1 DEF Roles!ShowJson, PolicyInv
<1>6. ASSUME NEW policies \in Written, Roles!TypeJson(policies) PROVE PolicyInv'
  <2>1. form' \in Forms
    BY <1>6, FormsAre, GivenPolicies DEF Roles!TypeJson
  <2> QED
    BY <1>6, <2>1 DEF Roles!TypeJson, PolicyInv
<1>7. CASE form.mode = "visual" /\ Roles!AddStatement
  <2>1. [ inverted |-> FALSE, action |-> {}, subject |-> {}, rows |-> << >> ] \in Statements
    BY DEF Statements
  <2>2. Append(form.model, [ inverted |-> FALSE, action |-> {}, subject |-> {}, rows |-> << >> ]) \in Seq(Statements)
    BY <1>7, <2>1, FormIs, AppendProperties
  <2> QED
    BY <1>7, <2>2, ChangeKeeps DEF Roles!AddStatement
<1>8. ASSUME NEW policies \in Presets, Roles!ApplyPreset(policies) PROVE PolicyInv'
  <2>1. Roles!ToUiModel(policies) \in Seq(Statements)
    BY <1>8, GivenPolicies, ShownIsStatements DEF Roles!ApplyPreset
  <2> QED
    BY <1>8, <2>1, ChangeKeeps DEF Roles!ApplyPreset
<1>9. ASSUME form.mode = "visual", NEW i \in DOMAIN form.model, Roles!RemoveStatement(i) PROVE PolicyInv'
  <2>1. Roles!RemoveAt(form.model, i) \in Seq(Statements)
    BY <1>9, FormIs, WithoutOne
  <2> QED
    BY <1>9, <2>1, ChangeKeeps DEF Roles!RemoveStatement
<1>10. ASSUME form.mode = "visual", NEW i \in DOMAIN form.model,
              Roles!EditStatement(i) \/ Roles!AddCondition(i) \/ \E n \in DOMAIN form.model[i].rows : Roles!EditRow(i, n)
       PROVE  PolicyInv'
  BY <1>10, EditStatementKeeps, AddConditionKeeps, EditRowKeeps
<1>11. CASE Roles!SaveStatements
  <2>1. form.model \in Seq(Statements) /\ Roles!Issues(form.model) = {}
    BY <1>11, FormIs DEF Roles!SaveStatements
  <2>2. Roles!ToPolicies(form.model) \in Seq(StoredPolicies)
    BY <2>1, WritesStored
  <2>3. role' = [ policies |-> Roles!ToPolicies(form.model), drawn |-> TRUE ] /\ kept' = form.model /\ form' = Roles!Closed
    BY <1>11 DEF Roles!SaveStatements, Roles!UpdateRole
  <2> QED
    BY <2>1, <2>2, <2>3, FormsAre DEF PolicyInv
<1>12. CASE Roles!SaveJson
  <2>1. role' = [ policies |-> form.json, drawn |-> FALSE ] /\ form' = Roles!Closed
    BY <1>12 DEF Roles!SaveJson, Roles!UpdateRole
  <2>2. form.json \in Seq(StoredPolicies)
    BY <1>12, FormIs DEF Roles!SaveJson
  <2> QED
    BY <2>1, <2>2, FormsAre DEF PolicyInv
<1> QED
  BY <1>2, <1>3, <1>4, <1>5, <1>6, <1>7, <1>8, <1>9, <1>10, <1>11, <1>12 DEF Roles!Next

-----------------------------------------------------------------------------
(* The sides together.                                                       *)

\* No step leaves its side, and each side keeps its own invariant.
SidesInv ==
    /\ side = "commands" => CommandInv
    /\ side = "form" => FormInv
    /\ side = "audit" => WInv
    /\ side = "signing" => FactorInv
    /\ side = "policies" => PolicyInv

LEMMA InitSides == Init => SidesInv
<1> SUFFICES ASSUME Init PROVE SidesInv
  OBVIOUS
<1>1. CASE side = "commands"
  <2>1. Commands!Init
    BY <1>1 DEF Init
  <2> QED
    BY <1>1, <2>1, InitCommandInv DEF SidesInv
<1>2. CASE side = "audit"
  <2>1. Audit!Init /\ Audit!AuditAssumption
    BY <1>2, AdministrationAssumption DEF Init
  <2>2. WInv
    BY <2>1, InitWInv
  <2> QED
    BY <1>2, <2>2 DEF SidesInv
<1>3. CASE side = "form"
  <2>1. Form!Init
    BY <1>3 DEF Init
  <2> QED
    BY <1>3, <2>1, InitForm DEF SidesInv
<1>4. CASE side = "signing"
  <2>1. Signing!Init /\ Signing!FactorAssumption
    BY <1>4, AdministrationAssumption DEF Init
  <2> QED
    BY <1>4, <2>1, InitFactor DEF SidesInv
<1>5. CASE side = "policies"
  <2>1. Roles!Init
    BY <1>5 DEF Init
  <2> QED
    BY <1>5, <2>1, PoliciesBegin DEF SidesInv
<1> QED
  BY <1>1, <1>2, <1>3, <1>4, <1>5 DEF SidesInv

LEMMA NextSides == SidesInv /\ [Next]_vars => SidesInv'
<1> SUFFICES ASSUME SidesInv, [Next]_vars PROVE SidesInv'
  OBVIOUS
<1>1. side' = side
  BY DEF Next, CommandStep, FormStep, PolicyStep, AuditStep, FactorStep, vars
<1>2. CASE side = "commands"
  <2>1. [Commands!Next]_Commands!vars
    BY <1>2 DEF Next, CommandStep, FormStep, PolicyStep, AuditStep, FactorStep, vars, commandVars, Commands!vars
  <2> QED
    BY <1>1, <1>2, <2>1, NextCommandInv DEF SidesInv
<1>3. CASE side = "audit"
  <2>1. Audit!Next \/ UNCHANGED auditVars
    BY <1>3 DEF Next, CommandStep, FormStep, PolicyStep, AuditStep, FactorStep, vars
  <2>2. [Audit!Next]_Audit!vars
    BY <2>1 DEF auditVars, Audit!vars
  <2> QED
    BY <1>1, <1>3, <2>2, AdministrationAssumption, NextWInv DEF SidesInv
<1>4. CASE side = "form"
  <2>1. Form!Next \/ UNCHANGED << source, entry >>
    BY <1>4 DEF Next, CommandStep, FormStep, PolicyStep, AuditStep, FactorStep, vars, formVars
  <2>2. CASE UNCHANGED << source, entry >>
    BY <1>1, <1>4, <2>2 DEF SidesInv, FormInv, FormShape, Form!StillConnects, Form!RequiredOAuth,
       Form!MissingFields, Form!IsBlank, Form!Value
  <2> QED
    BY <1>1, <1>4, <2>1, <2>2, FormSteps DEF SidesInv
<1>5. CASE side = "signing"
  <2>1. Signing!Next \/ UNCHANGED factorVars
    BY <1>5 DEF Next, CommandStep, FormStep, PolicyStep, AuditStep, FactorStep, vars
  <2>2. [Signing!Next]_Signing!vars
    BY <2>1 DEF factorVars, Signing!vars
  <2> QED
    BY <1>1, <1>5, <2>2, AdministrationAssumption, NextFactor DEF SidesInv
<1>6. CASE side = "policies"
  <2>1. Roles!Next \/ UNCHANGED policyVars
    BY <1>6 DEF Next, CommandStep, FormStep, PolicyStep, AuditStep, FactorStep, vars
  <2>2. CASE UNCHANGED policyVars
    BY <1>1, <1>6, <2>2 DEF SidesInv, PolicyInv, policyVars
  <2> QED
    BY <1>1, <1>6, <2>1, <2>2, PoliciesStep DEF SidesInv
<1> QED
  BY <1>1, <1>2, <1>3, <1>4, <1>5, <1>6 DEF SidesInv

LEMMA SidesHold == Spec => []SidesInv
  BY InitSides, NextSides, PTL DEF Spec

\* However creation, sign-ins, refreshes and edits of one source interleave, its
\* stored tokens and its pending authorisation are those of the connection
\* stored beside them (OAuthMailboxService.persistTokens, IngestionService.update).
THEOREM TokensFitAlways == Spec => []TokensFit
<1>1. SidesInv => TokensFit
  BY CommandInvHolds DEF SidesInv, TokensFit
<1> QED
  BY <1>1, SidesHold, PTL

\* A source in auth_success has a request about to start its import, a queued
\* import job or a running cycle (IngestionService.update, triggerInitialImport).
THEOREM AuthorizedHasImportAlways == Spec => []AuthorizedHasImport
<1>1. SidesInv => AuthorizedHasImport
  BY CommandInvHolds DEF SidesInv, AuthorizedHasImport
<1> QED
  BY <1>1, SidesHold, PTL

\* However blank the form was that edited it, a source that could connect still
\* can, and no stored input is lost that nobody emptied
\* (mergeProviderCredentials, mergeOAuthCredentials, IngestionSourceForm).
THEOREM EditKeepsConnectionAlways == Spec => EditKeepsConnection
<1>1. SidesInv /\ [Next]_vars => [side = "form" => Form!StillConnects' /\ Form!KeepsSettings]_vars
  <2> SUFFICES ASSUME SidesInv, Next, side = "form"
               PROVE  Form!StillConnects' /\ Form!KeepsSettings
    OBVIOUS
  <2>1. Form!Next /\ FormInv
    BY DEF Next, CommandStep, FormStep, PolicyStep, AuditStep, FactorStep, SidesInv
  <2> QED
    BY <2>1, FormSteps DEF FormInv
<1> QED
  BY <1>1, SidesHold, PTL DEF Spec, EditKeepsConnection

\* Whatever writers do, and however often they die, the unaltered log is one
\* chain, and a verification's answer is true of the table it walked
\* (AuditService.createAuditLog, verifyAuditLog).
THEOREM LogHoldsAlways == Spec => []LogHolds
<1>1. SidesInv => LogHolds
  BY WInvHolds DEF SidesInv, LogHolds
<1> QED
  BY <1>1, SidesHold, PTL

\* However the requests of any number of tabs and an administrator's interleave
\* at every await, while time passes and Redis comes and goes: the phone makes
\* the codes the row verifies, a code opens something once unless two requests
\* cross, the codes noted last work unless a page was left, and the account page
\* tells whether the factor is on (MfaService, MfaRedisStore, the account page).
THEOREM FactorHoldsAlways == Spec => []FactorHolds
<1>1. SidesInv => FactorHolds
  BY AdministrationAssumption, FactorTells DEF SidesInv, FactorHolds
<1> QED
  BY <1>1, SidesHold, PTL

\* Whatever is stored for a role and however its policies contradict each other:
\* the listing and the search show the same messages and only what opens; no
\* policy that the visual editor wrote makes the search fail, and the editor
\* shows what it saved and writes back what it was shown
\* (AuthorizationService, FilterBuilder, PolicyBuilder, role-builder.ts).
THEOREM PoliciesHoldAlways == Spec => []PoliciesHold
<1>1. SidesInv => PoliciesHold
  BY EnginesAgreeNow, EditorKeepsPolicyNow DEF SidesInv, PoliciesHold
<1> QED
  BY <1>1, SidesHold, PTL
=============================================================================
