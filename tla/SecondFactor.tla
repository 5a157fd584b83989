---------------------------- MODULE SecondFactor ----------------------------
(***************************************************************************)
(* Signing in to one account, and its second factor: the sign-in page and  *)
(* its challenge, the account page that enrolls, disables and renews       *)
(* backup codes, an administrator who disables it for the user.  Requests  *)
(* of several tabs interleave at every await of MfaService, and the        *)
(* ephemeral store of MfaRedisStore moves between Redis and memory.        *)
(***************************************************************************)
EXTENDS Naturals

CONSTANTS
    Tabs,           \* browser tabs of the user
    Admin,          \* an administrator's page
    BackupCount,    \* BACKUP_CODE_COUNT
    Tolerance,      \* windows a TOTP code stays valid after its own
    UsedTtl,        \* windows USED_TOKEN_TTL_S spans
    MaxAsks, MaxTurns, None

VARIABLES
    account,        \* totpSecret and totpBackupCodes of the row; totpEnabled is a secret being there
    phone,          \* secrets in the user's authenticator
    noted,          \* the backup codes the user was shown last
    available,      \* the store's Redis client: "starting", "up", "gone" for good
    pendingIn,      \* mfa:setup: in Redis and in memory
    usedIn,         \* mfa:used: in Redis and in memory, with the window each expires in
    clock,          \* the TOTP window
    cookie,         \* the browser has an unexpired mfaPending cookie
    tab,            \* what each tab shows
    call,           \* the request of each page that is under way
    requests,          \* requests sent so far, which also names secrets and codes
    turns,          \* what happened around them so far: time, expiry, Redis, a page left, an audit that failed
    opened,         \* codes accepted, and where their use is remembered
    reopened,       \* those accepted once more
    crossed,        \* a request wrote the row while another stood between its own steps
    unseen          \* an answer with codes reached nobody, or an error in its place

vars == << account, phone, noted, available, pendingIn, usedIn, clock, cookie, tab,
           call, requests, turns, opened, reopened, crossed, unseen >>

FactorAssumption ==
    /\ Tabs # {} /\ Admin \notin Tabs
    /\ BackupCount \in Nat \ {0} /\ Tolerance \in Nat /\ UsedTtl \in Nat /\ UsedTtl > Tolerance
    /\ None \notin Nat /\ None \notin {"totp", "backup"} \X Nat \X Nat
    /\ MaxTurns \in Nat /\ MaxAsks \in Nat

Callers == Tabs \cup {Admin}
Idle == [ op |-> "none", phase |-> "none", no |-> 0, code |-> None, secret |-> None, codes |-> {}, seen |-> TRUE ]

\* generateBackupCodesInternal: codes no other list has.
BackupCodes(no) == { << "backup", no, i >> : i \in 1..BackupCount }
Totp(secret, window) == << "totp", secret, window >>
IsTotp(code) == code[1] = "totp"
\* verifySync
Verifies(code, secret) == IsTotp(code) /\ code[2] = secret /\ clock <= code[3] + Tolerance

NotEnrolled == [ secret |-> None, codes |-> {} ]
Enabled == account.secret # None
SignIn == [ at |-> "signin", step |-> "idle", badge |-> FALSE, stale |-> FALSE ]
Account(step) == [ at |-> "account", step |-> step, badge |-> Enabled, stale |-> FALSE ]

\* The account is enrolled since long ago, with every code noted, or is not;
\* Redis may still be starting where nothing is enrolled yet (a bound).
Init ==
    /\ \/ account = NotEnrolled /\ phone = {} /\ noted = {}
       \/ account = [ secret |-> 0, codes |-> BackupCodes(0) ] /\ phone = {0} /\ noted = BackupCodes(0)
    /\ pendingIn = [ redis |-> None, memory |-> None ]
    /\ usedIn = [ redis |-> {}, memory |-> {} ]
    /\ clock = 0
    /\ \E place \in { SignIn, [ SignIn EXCEPT !.at = "mfa" ], Account("idle") } :
        /\ place.at = "mfa" => Enabled
        /\ available \in IF place.at = "account" /\ ~Enabled THEN {"starting", "up"} ELSE {"up"}
        /\ tab = [ t \in Tabs |-> place ]
        /\ cookie = (place.at = "mfa")
    /\ call = [ t \in Callers |-> Idle ] /\ requests = 0 /\ turns = 0
    /\ opened = {} /\ reopened = {} /\ crossed = FALSE /\ unseen = FALSE

\* The store a request would use now.
Store == IF available = "up" THEN "redis" ELSE "memory"

-----------------------------------------------------------------------------
\* The pages: one request each, its button disabled until the answer.
CodesAtHand == { Totp(s, clock) : s \in phone } \cup noted
Asks(t, op, code) ==
    /\ call[t] = Idle /\ requests < MaxAsks
    /\ call' = [ call EXCEPT ![t] = [ Idle EXCEPT !.op = op, !.phase = "sent", !.no = requests + 1, !.code = code ] ]
    /\ requests' = requests + 1
    /\ UNCHANGED << account, phone, noted, available, pendingIn, usedIn, clock, cookie, tab,
                    turns, opened, reopened, crossed, unseen >>

SubmitPassword(t) == tab[t].at = "signin" /\ Asks(t, "login", None)
SubmitCode(t) == \E code \in CodesAtHand : tab[t].at = "mfa" /\ cookie /\ Asks(t, "verify", code)
StartSetup(t) ==
    /\ tab[t].at = "account" /\ ~tab[t].badge /\ tab[t].step = "idle"
    /\ Asks(t, "setup", None)
SubmitEnroll(t) ==
    \E code \in CodesAtHand :
        /\ tab[t].at = "account" /\ ~tab[t].badge /\ tab[t].step = "qr"
        /\ IsTotp(code) /\ Asks(t, "enroll", code)
SubmitDisable(t) == \E code \in CodesAtHand : tab[t].at = "account" /\ tab[t].badge /\ Asks(t, "disable", code)
SubmitRegen(t) == \E code \in CodesAtHand : tab[t].at = "account" /\ tab[t].badge /\ Asks(t, "regen", code)

\* The request goes on to its next phase, or to its answer.
Goes(t, phase) == call' = [ call EXCEPT ![t].phase = phase ]
Refused(t) == Goes(t, "refused")

\* A write to the row, and whether it crosses another request.
Midway(t) == call[t].phase \notin {"none", "sent", "refused"}
Writes(t, row) ==
    /\ account' = row
    /\ crossed' = (crossed \/ \E u \in Callers \ {t} : Midway(u))
    /\ tab' = [ u \in Tabs |-> IF u = t /\ call[t].seen THEN tab[u] ELSE [ tab[u] EXCEPT !.stale = TRUE ] ]

\* A code was accepted, and where that is remembered.
Accepts(code, where) ==
    /\ opened' = opened \cup { << code, where >> }
    /\ reopened' = IF << code, where >> \in opened THEN reopened \cup {code} ELSE reopened

-----------------------------------------------------------------------------
\* AuthService.login: the password, then isMfaRequired.
Login(t) ==
    /\ call[t].op = "login" /\ call[t].phase = "sent"
    /\ Goes(t, IF Enabled THEN "challenged" ELSE "signed") \/ Refused(t)
    /\ UNCHANGED << account, phone, noted, available, pendingIn, usedIn, clock, cookie, tab, requests,
                    turns, opened, reopened, crossed, unseen >>

\* verifyTotp: a TOTP code used before is refused; backup codes go straight on.
IsTokenUsed(code) == \E m \in usedIn[Store] : m[1] = code /\ clock < m[2]
Verify(t) ==
    /\ call[t].op = "verify" /\ call[t].phase = "sent"
    /\ IF IsTotp(call[t].code) /\ IsTokenUsed(call[t].code) THEN Refused(t) ELSE Goes(t, "check")
    /\ UNCHANGED << account, phone, noted, available, pendingIn, usedIn, clock, cookie, tab, requests,
                    turns, opened, reopened, crossed, unseen >>

\* checkCode: reads the row; a TOTP code verifies, a backup code is found in it.
Examines(t) ==
    \/ call[t].phase = "check"
    \/ call[t].op \in {"disable", "regen"} /\ call[t].phase = "sent"
CheckCode(t) ==
    /\ Examines(t)
    /\ \/ Enabled /\ Verifies(call[t].code, account.secret) /\ Goes(t, "valid")
       \/ /\ Enabled /\ call[t].code \in account.codes
          /\ call' = [ call EXCEPT ![t].phase = "match", ![t].codes = account.codes ]
       \/ ~(Enabled /\ (Verifies(call[t].code, account.secret) \/ call[t].code \in account.codes)) /\ Refused(t)
    /\ UNCHANGED << account, phone, noted, available, pendingIn, usedIn, clock, cookie, tab, requests,
                    turns, opened, reopened, crossed, unseen >>

\* A code that stays in the list.
Remaining_Fault(codes, code) == codes
\* The rest of the list that was read replaces the list.
Remaining(codes, code) == codes \ {code}
ConsumeBackupCode(t) ==
    /\ call[t].phase = "match"
    /\ Writes(t, [ account EXCEPT !.codes = Remaining(call[t].codes, call[t].code) ])
    /\ Accepts(call[t].code, "row")
    /\ Goes(t, IF call[t].op = "verify" THEN "signed" ELSE "valid")
    /\ UNCHANGED << phone, noted, available, pendingIn, usedIn, clock, cookie, requests, turns, unseen >>

\* storeUsedToken, and generateFullAccessToken.
StoreUsedToken(t) ==
    /\ call[t].op = "verify" /\ call[t].phase = "valid"
    /\ usedIn' = [ usedIn EXCEPT ![Store] = @ \cup { << call[t].code, clock + UsedTtl >> } ]
    /\ Accepts(call[t].code, Store)
    /\ crossed' = (crossed \/ \E u \in Callers \ {t} : Midway(u) /\ call[u].code = call[t].code)
    /\ Goes(t, "signed")
    /\ UNCHANGED << account, phone, noted, available, pendingIn, clock, cookie, tab, requests, turns, unseen >>

\* generateSetupData: one pending secret per user, the newest.
GenerateSetupData(t) ==
    /\ call[t].op = "setup" /\ call[t].phase = "sent"
    /\ pendingIn' = [ pendingIn EXCEPT ![Store] = call[t].no ]
    /\ call' = [ call EXCEPT ![t].phase = "set", ![t].secret = call[t].no ]
    /\ UNCHANGED << account, phone, noted, available, usedIn, clock, cookie, tab, requests,
                    turns, opened, reopened, crossed, unseen >>

\* enrollTotp: the pending secret is fetched and the code checked against it ...
FetchPending(t) ==
    /\ call[t].op = "enroll" /\ call[t].phase = "sent"
    /\ IF pendingIn[Store] # None /\ Verifies(call[t].code, pendingIn[Store])
       THEN call' = [ call EXCEPT ![t].phase = "confirmed", ![t].secret = pendingIn[Store] ]
       ELSE Refused(t)
    /\ UNCHANGED << account, phone, noted, available, pendingIn, usedIn, clock, cookie, tab, requests,
                    turns, opened, reopened, crossed, unseen >>

\* ... then the row is written, and whatever secret is pending by then is deleted.
Enroll(t) ==
    /\ call[t].phase = "confirmed"
    /\ Writes(t, [ secret |-> call[t].secret, codes |-> BackupCodes(call[t].no) ])
    /\ call' = [ call EXCEPT ![t].phase = "written", ![t].codes = BackupCodes(call[t].no) ]
    /\ UNCHANGED << phone, noted, available, pendingIn, usedIn, clock, cookie, requests, turns, opened, reopened, unseen >>

DeletePending(t) ==
    /\ call[t].phase = "written"
    /\ pendingIn' = [ pendingIn EXCEPT ![Store] = None ]
    /\ Goes(t, "listed")
    /\ UNCHANGED << account, phone, noted, available, usedIn, clock, cookie, tab, requests,
                    turns, opened, reopened, crossed, unseen >>

DisableTotp(t) ==
    /\ call[t].op = "disable" /\ call[t].phase = "valid"
    /\ Writes(t, NotEnrolled)
    /\ Goes(t, "disabled")
    /\ UNCHANGED << phone, noted, available, pendingIn, usedIn, clock, cookie, requests, turns, opened, reopened, unseen >>

RegenerateBackupCodes(t) ==
    /\ call[t].op = "regen" /\ call[t].phase = "valid"
    /\ Writes(t, [ account EXCEPT !.codes = BackupCodes(call[t].no) ])
    /\ call' = [ call EXCEPT ![t].phase = "listed", ![t].codes = BackupCodes(call[t].no) ]
    /\ UNCHANGED << phone, noted, available, pendingIn, usedIn, clock, cookie, requests, turns, opened, reopened, unseen >>

\* adminDisableTotp: totpEnabled is read, then everything cleared.
AdminReads ==
    /\ call[Admin] = Idle /\ requests < MaxAsks /\ requests' = requests + 1
    /\ Enabled /\ call' = [ call EXCEPT ![Admin].phase = "valid" ]
    /\ UNCHANGED << account, phone, noted, available, pendingIn, usedIn, clock, cookie, tab, turns,
                    opened, reopened, crossed, unseen >>
AdminDisables ==
    /\ call[Admin].phase = "valid"
    /\ Writes(Admin, NotEnrolled)
    /\ call' = [ call EXCEPT ![Admin] = Idle ]
    /\ UNCHANGED << phone, noted, available, pendingIn, usedIn, clock, cookie, requests, turns, opened, reopened, unseen >>

-----------------------------------------------------------------------------
\* What the page does with an answer.
Shows(t, phase) ==
    CASE phase = "challenged" -> [ tab[t] EXCEPT !.at = "mfa" ]
      [] phase = "signed" -> Account("idle")
      [] phase = "set" -> [ tab[t] EXCEPT !.step = "qr" ]
      [] phase = "listed" /\ call[t].op = "enroll" -> [ tab[t] EXCEPT !.step = "codes" ]
      [] phase = "disabled" -> Account(tab[t].step)
      [] OTHER -> tab[t]

Answered == {"refused", "challenged", "signed", "set", "listed", "disabled"}
Answer(t) ==
    /\ call[t].phase \in Answered
    /\ call' = [ call EXCEPT ![t] = Idle ]
    /\ IF ~call[t].seen
       THEN unseen' = (unseen \/ call[t].phase = "listed") /\ UNCHANGED << tab, phone, noted, cookie >>
       ELSE /\ tab' = [ tab EXCEPT ![t] = Shows(t, call[t].phase) ]
            /\ phone' = IF call[t].phase = "set" THEN phone \cup {call[t].secret} ELSE phone
            /\ noted' = IF call[t].phase = "listed" THEN call[t].codes ELSE noted
            /\ cookie' = \/ call[t].phase = "challenged"
                         \/ cookie /\ ~(call[t].op = "verify" /\ call[t].phase = "signed")
            /\ UNCHANGED unseen
    /\ UNCHANGED << account, available, pendingIn, usedIn, clock, requests, turns, opened, reopened, crossed >>

Turns == turns < MaxTurns /\ turns' = turns + 1

\* The audit append between a request's last write and its answer throws: what was
\* done stands, and the page hears of an error and shows what it showed.
TurnsFactor(t) == call[t].phase = "disabled" \/ (call[t].phase = "listed" /\ call[t].op = "enroll")
AuditFails(t) ==
    /\ Turns /\ call[t].phase \in Answered \ { "refused", "set" }
    /\ call' = [ call EXCEPT ![t] = Idle ]
    /\ unseen' = (unseen \/ call[t].phase = "listed")
    /\ IF call[t].seen /\ TurnsFactor(t) THEN tab' = [ tab EXCEPT ![t].stale = TRUE ] ELSE UNCHANGED tab
    /\ UNCHANGED << account, phone, noted, available, pendingIn, usedIn, clock, cookie, requests,
                    opened, reopened, crossed >>

\* finishSetup
FinishSetup(t) ==
    /\ tab[t].at = "account" /\ tab[t].step = "codes" /\ ~tab[t].badge
    /\ tab' = [ tab EXCEPT ![t] = Account("idle") ]
    /\ UNCHANGED << account, phone, noted, available, pendingIn, usedIn, clock, cookie, call, requests,
                    turns, opened, reopened, crossed, unseen >>

\* The user reloads the page while it waits; the answer is not seen.
Leave(t) ==
    /\ Turns /\ tab[t].at # "signin" /\ call[t] # Idle /\ call[t].seen
    /\ tab' = [ tab EXCEPT ![t] = IF tab[t].at = "account" THEN Account("idle") ELSE SignIn ]
    /\ call' = [ call EXCEPT ![t].seen = FALSE ]
    /\ UNCHANGED << account, phone, noted, available, pendingIn, usedIn, clock, cookie, requests,
                    opened, reopened, crossed, unseen >>

Tick ==
    /\ Turns /\ clock' = clock + 1
    /\ UNCHANGED << account, phone, noted, available, pendingIn, usedIn, cookie, tab, call, requests,
                    opened, reopened, crossed, unseen >>

\* The pending secret or the cookie expires.
Expire ==
    /\ Turns
    /\ \/ \E s \in {"redis", "memory"} :
            /\ pendingIn[s] # None /\ pendingIn' = [ pendingIn EXCEPT ![s] = None ]
            /\ UNCHANGED cookie
       \/ cookie /\ cookie' = FALSE /\ UNCHANGED pendingIn
    /\ UNCHANGED << account, phone, noted, available, usedIn, clock, tab, call, requests,
                    opened, reopened, crossed, unseen >>

\* The client becomes ready once; after an error it never tries again.
RedisChanges ==
    /\ Turns /\ available # "gone"
    /\ available' = IF available = "starting" THEN "up" ELSE "gone"
    /\ UNCHANGED << account, phone, noted, pendingIn, usedIn, clock, cookie, tab, call, requests,
                    opened, reopened, crossed, unseen >>

PageStep(t) ==
    \/ SubmitPassword(t) \/ SubmitCode(t) \/ StartSetup(t) \/ SubmitEnroll(t)
    \/ SubmitDisable(t) \/ SubmitRegen(t) \/ FinishSetup(t) \/ Leave(t)
ServerStep(t) ==
    \/ Login(t) \/ Verify(t) \/ CheckCode(t) \/ ConsumeBackupCode(t) \/ StoreUsedToken(t)
    \/ GenerateSetupData(t) \/ FetchPending(t) \/ Enroll(t) \/ DeletePending(t)
    \/ DisableTotp(t) \/ RegenerateBackupCodes(t)

Next ==
    \/ \E t \in Tabs : PageStep(t) \/ ServerStep(t) \/ Answer(t) \/ AuditFails(t)
    \/ AdminReads \/ AdminDisables
    \/ Tick \/ Expire \/ RedisChanges

Spec == Init /\ [][Next]_vars

-----------------------------------------------------------------------------
\* The authenticator of whoever is enrolled makes the codes the row verifies,
\* whatever setups overlapped (MfaService.ts:97-123).
PhoneVerifies == Enabled => account.secret \in phone

\* A code opens something once in the store that remembers it, unless two
\* requests stood between its check and its record (MfaService.ts:180-192, 213-236).
CodesOpenOnce == reopened = {} \/ crossed

\* The codes the user was shown last are those of the row and the ones used
\* since (MfaService.ts:180-192, 326-328).
NotedCodesWork ==
    Enabled /\ ~crossed /\ ~unseen /\ (\A t \in Tabs : call[t].phase \notin {"written", "listed"})
        => account.codes = noted \ { m[1] : m \in opened }

\* The account page tells whether the factor is on, unless it changed elsewhere,
\* its own change was answered with an error, or the page still shows the codes
\* of its own enrollment.
PageTells ==
    \A t \in Tabs :
        tab[t].at = "account" /\ ~tab[t].stale /\ tab[t].step # "codes" /\ call[t] = Idle
            => tab[t].badge = Enabled
=============================================================================
