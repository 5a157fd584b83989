--------------------------- MODULE Administration ---------------------------
(***************************************************************************)
(* What administrators do, seen from five sides that share no state.       *)
(* Commands on one ingestion source: requests side by side that create,    *)
(* authorise, edit, pause and delete it, each reading the row and writing  *)
(* it later, with a connection as one value.  Its form: one edit after the *)
(* other, field by field.  The policies of a role, edited and enforced.    *)
(* The audit log that all of it is written to, and its verification.       *)
(* Signing in with a second factor, which an administrator may disable.    *)
(***************************************************************************)
EXTENDS Naturals

CONSTANTS
    Requests, Connections, Providers, None, MaxAttempts, Budget, CommandEnv,
    Types, MaxFills, MaxEdits,
    Presets, Written, Text, MaxChanges,
    Writers, Payloads, NoHash, ChunkSize, MaxEntries,
    Tabs, Admin, BackupCount, Tolerance, UsedTtl, MaxAsks, MaxTurns

VARIABLES
    side,                                               \* the side looked at
    row, req, attempts, import, stranded, faults,       \* of the commands
    source, entry,                                      \* of the form
    role, form, kept, changes,                          \* of the policies
    log, writer, verifier, altered,                     \* of the audit log
    account, phone, noted, available, pendingIn, usedIn, clock, cookie, tab, call, requests,
    turns, opened, reopened, crossed, unseen            \* of signing in

commandVars == << row, req, attempts, import, stranded, faults >>
formVars == << source, entry >>
policyVars == << role, form, kept, changes >>
auditVars == << log, writer, verifier, altered >>
factorVars == << account, phone, noted, available, pendingIn, usedIn, clock, cookie, tab, call, requests,
                 turns, opened, reopened, crossed, unseen >>
vars == << side, commandVars, formVars, policyVars, auditVars, factorVars >>

Commands == INSTANCE SourceCommands
Form == INSTANCE CredentialMerge WITH form <- entry
Roles == INSTANCE Policies
Audit == INSTANCE AuditLog
Signing == INSTANCE SecondFactor

ASSUME AdministrationAssumption ==
    /\ Commands!CommandAssumption /\ Form!MergeAssumption
    /\ Roles!PolicyAssumption /\ Audit!AuditAssumption
    /\ Signing!FactorAssumption

\* The state of the sides that are not looked at.
NoCommands == row = 0 /\ req = 0 /\ attempts = 0 /\ import = 0 /\ stranded = 0 /\ faults = 0
NoForm == source = 0 /\ entry = 0
NoPolicies == role = 0 /\ form = 0 /\ kept = 0 /\ changes = 0
NoAudit == log = 0 /\ writer = 0 /\ verifier = 0 /\ altered = 0
NoSigning ==
    /\ account = 0 /\ phone = 0 /\ noted = 0 /\ available = 0 /\ pendingIn = 0 /\ usedIn = 0
    /\ clock = 0 /\ cookie = 0 /\ tab = 0 /\ call = 0 /\ requests = 0 /\ turns = 0
    /\ opened = 0 /\ reopened = 0 /\ crossed = 0 /\ unseen = 0

Init ==
    /\ side \in { "commands", "form", "policies", "audit", "signing" }
    /\ IF side = "commands" THEN Commands!Init ELSE NoCommands
    /\ IF side = "form" THEN Form!Init ELSE NoForm
    /\ IF side = "policies" THEN Roles!Init ELSE NoPolicies
    /\ IF side = "audit" THEN Audit!Init ELSE NoAudit
    /\ IF side = "signing" THEN Signing!Init ELSE NoSigning

CommandStep ==
    /\ side = "commands" /\ Commands!Next
    /\ UNCHANGED << side, formVars, policyVars, auditVars, factorVars >>

FormStep ==
    /\ side = "form" /\ Form!Next
    /\ UNCHANGED << side, commandVars, policyVars, auditVars, factorVars >>

PolicyStep ==
    /\ side = "policies" /\ Roles!Next
    /\ UNCHANGED << side, commandVars, formVars, auditVars, factorVars >>

AuditStep ==
    /\ side = "audit" /\ Audit!Next
    /\ UNCHANGED << side, commandVars, formVars, policyVars, factorVars >>

FactorStep ==
    /\ side = "signing" /\ Signing!Next
    /\ UNCHANGED << side, commandVars, formVars, policyVars, auditVars >>

Next == CommandStep \/ FormStep \/ PolicyStep \/ AuditStep \/ FactorStep

Spec == Init /\ [][Next]_vars

-----------------------------------------------------------------------------
\* The tokens and the pending authorisation of a source belong to the
\* connection beside them, whoever wrote the credentials last (SourceCommands).
TokensFit == side = "commands" => Commands!TokensFit

\* A source that an authorisation left in auth_success is on its way to its
\* import (SourceCommands).
AuthorizedHasImport == side = "commands" => Commands!AuthorizedHasImport

\* However blank the forms were that edited it, a source has all that it takes to
\* connect, and what its form could not show is kept: all but the settings that
\* the dialog sends untouched, its boxes and its preset (CredentialMerge).
EditKeepsConnection == [][side = "form" => Form!StillConnects' /\ Form!KeepsSettings]_vars

\* A role's listing, its search and its checks of single records let a user see
\* the same messages; and the policy editor shows what it saved and writes back
\* what it was shown (Policies).
PoliciesHold == side = "policies" => Roles!EnginesAgree /\ Roles!EditorKeepsPolicy

\* The log that nobody altered is one chain, and a verification tells the truth
\* about it, but for a walk that went on behind a page that was not full
\* (AuditLog).
LogHolds == side = "audit" => Audit!OneChain /\ Audit!VerdictIsTrue

\* A failed verification tells of an altered table (AuditLog).
BrokenMeansAltered == side = "audit" => Audit!BrokenMeansAltered

\* The second factor: the phone makes its codes, each code opens once, the codes
\* noted work but for answers that were lost or replaced by an error, and the
\* account page tells what it was told (SecondFactor).
FactorHolds ==
    side = "signing" =>
        Signing!PhoneVerifies /\ Signing!CodesOpenOnce /\ Signing!NotedCodesWork /\ Signing!PageTells
=============================================================================
