-------------------------- MODULE CredentialMerge ---------------------------
(***************************************************************************)
(* The credentials of an ingestion source under the form that edits them.  *)
(* The form never shows what is stored: it opens blank but for the         *)
(* defaults it sets itself, and sends what was filled in since.  The       *)
(* server merges that over the stored fields.                              *)
(***************************************************************************)
EXTENDS Naturals

CONSTANTS
    Types,          \* providers whose sources are looked at
    MaxFills,       \* bound: inputs filled in while a form is open
    MaxEdits        \* bound: forms submitted

MergeAssumption ==
    /\ Types \subseteq { "generic_imap", "microsoft_365", "google_workspace", "oauth_mailbox", "pst_import" }
    /\ MaxFills \in Nat /\ MaxEdits \in Nat

VARIABLES
    source,     \* the stored row: its credentials, and whether it holds tokens
    form        \* the dialog, or Closed

vars == << source, form >>

\* What a field may hold.  A value typed may be new or the one stored.
Blank == ""
Typed == { "v1", "v2", Blank }

\* An object with one key, and the spread of an object over another one.
Only(f, v) == [ g \in {f} |-> v ]
Over(values, config) ==
    [ f \in DOMAIN values \cup DOMAIN config |-> IF f \in DOMAIN values THEN values[f] ELSE config[f] ]

ProviderFields(type) ==
    CASE type = "generic_imap" -> { "host", "port", "secure", "allowInsecureCert", "username", "password" }
      [] type = "microsoft_365" -> { "clientId", "clientSecret", "tenantId" }
      [] type = "google_workspace" -> { "serviceAccountKeyJson", "impersonatedAdminEmail" }
      [] type = "pst_import" -> { "uploadedFilePath", "localFilePath" }

RequiredFields(type) ==
    CASE type = "generic_imap" -> { "host", "username", "password" }
      [] type = "microsoft_365" -> { "clientId", "clientSecret", "tenantId" }
      [] type = "google_workspace" -> { "serviceAccountKeyJson", "impersonatedAdminEmail" }
      [] type = "pst_import" -> {}

\* A field without a key reads as undefined; either way it is blank.
Value(config, f) == IF f \in DOMAIN config THEN config[f] ELSE Blank
IsBlank(config, f) == Value(config, f) = Blank
MissingFields(config, type) == { f \in RequiredFields(type) : IsBlank(config, f) }

-----------------------------------------------------------------------------
(* mergeProviderCredentials, for every provider but OAuth mailboxes.  The   *)
(* form cannot change the type of a source.                                 *)

\* A fault: what was sent wins, though it is blank.
KeepsBlank_Fault(original, incoming, f) == IF f \in DOMAIN incoming THEN incoming[f] ELSE Value(original, f)

KeepsBlank(original, incoming, f) == IF IsBlank(incoming, f) THEN Value(original, f) ELSE incoming[f]

MergeProviderCredentials(original, incoming, type) ==
    LET present == { f \in ProviderFields(type) : f \in DOMAIN original \/ ~ IsBlank(incoming, f) }
        merged == [ f \in present |-> KeepsBlank(original, incoming, f) ]
    IN [ ok |-> MissingFields(merged, type) = {}, merged |-> merged ]

-----------------------------------------------------------------------------
(* mergeOAuthCredentials and validateOAuthMailboxConfig.                    *)

ConnectionFields ==
    { "email", "clientId", "authorizationEndpoint", "tokenEndpoint", "deviceAuthorizationEndpoint", "scopes",
      "transport" }

RequiredOAuth(config) ==
    { "email", "clientId", "authorizationEndpoint", "tokenEndpoint", "scopes" }
    \cup (IF Value(config, "transport") = "graph" THEN {} ELSE { "imapHost" })
    \cup (IF Value(config, "flow") = "device_code" THEN { "deviceAuthorizationEndpoint" } ELSE {})

ValidateOAuth(config) == \A f \in RequiredOAuth(config) : ~ IsBlank(config, f)

\* What was sent replaces what was stored, a blank included; only the secret
\* survives a blank, for it can never be shown.
MergeOAuth(original, incoming) ==
    [ f \in DOMAIN original \cup DOMAIN incoming |->
        IF f = "clientSecret" THEN KeepsBlank(original, incoming, f)
        ELSE IF f \in DOMAIN incoming THEN incoming[f] ELSE original[f] ]

ConnectionChanged(original, merged) ==
    \E f \in ConnectionFields \cup { "clientSecret" } : Value(merged, f) # Value(original, f)

-----------------------------------------------------------------------------
(* The form. *)

Closed == [ open |-> FALSE ]

Checkboxes == { "secure", "allowInsecureCert" }

\* The dialog's own defaults, whatever the provider and whatever is stored.
FormDefaults == Over(Only("secure", "on"), Only("allowInsecureCert", "off"))

\* applyOauthPreset: a Microsoft preset fills in all but the mailbox and the client.
Preset(config, preset) ==
    LET values == IF preset = "custom" THEN Only("transport", "imap")
                  ELSE [ f \in { "transport", "authorizationEndpoint", "tokenEndpoint", "deviceAuthorizationEndpoint",
                                 "scopes", "imapHost" } |-> IF f = "transport" THEN "graph" ELSE preset ]
    IN Over(values, Over(Only("preset", preset), config))

\* seedOauthDefaults.
Seeded(config) == Preset(Over(Only("flow", "auth_code"), config), "outlook")

OpeningConfig(type) == IF type = "oauth_mailbox" THEN Seeded(FormDefaults) ELSE FormDefaults

Credentialed(type) == type # "pst_import"

\* The inputs of a provider's section.
Inputs(type) ==
    IF type = "oauth_mailbox"
    THEN (ConnectionFields \ { "transport" }) \cup { "clientSecret", "imapHost" }
    ELSE ProviderFields(type) \ Checkboxes

\* A source as it was created: complete, by a preset or by hand, its boxes ticked
\* or not, and authorised if that takes a sign-in.
Created(type) ==
    CASE type = "oauth_mailbox" ->
           { Preset(Over([ f \in { "email", "clientId" } |-> "v1" ], Only("flow", flow)), "outlook") :
               flow \in { "auth_code", "device_code" } }
           \cup { Over([ f \in Inputs(type) |-> "v1" ], Preset(Only("flow", "auth_code"), "custom")) }
      [] type = "pst_import" -> { Only(f, "v1") : f \in ProviderFields(type) }
      [] type \notin { "oauth_mailbox", "pst_import" } ->
           { Over([ f \in RequiredFields(type) \cup Inputs(type) |-> "v1" ], boxes) :
               boxes \in [ Checkboxes -> { "on", "off" } ] }

Init ==
    /\ \E type \in Types : \E config \in Created(type) :
        source = [ type |-> type, config |-> config, authorized |-> type = "oauth_mailbox", edits |-> 0 ]
    /\ form = Closed

Open ==
    /\ ~ form.open
    /\ source.edits < MaxEdits
    /\ form' = [ open |-> TRUE, connection |-> FALSE, touched |-> {}, fills |-> 0, config |-> OpeningConfig(source.type) ]
    /\ UNCHANGED source

Close ==
    /\ form.open
    /\ form' = Closed
    /\ UNCHANGED source

\* editConnection: a credentialed provider's section is folded away at first.
ShowConnection ==
    /\ form.open /\ Credentialed(source.type) /\ ~ form.connection
    /\ form' = [ form EXCEPT !.connection = TRUE ]
    /\ UNCHANGED source

ShowsConnection == ~ Credentialed(source.type) \/ form.connection

\* A preset hides the endpoints, a device code the secret.
Offers(f) ==
    source.type = "oauth_mailbox" =>
        \/ f \in { "email", "clientId" }
        \/ f = "clientSecret" /\ form.config["flow"] # "device_code"
        \/ f \in Inputs(source.type) \ { "clientSecret" } /\ form.config["preset"] = "custom"

Fill(f, v) ==
    /\ form.open /\ ShowsConnection /\ Offers(f)
    /\ form.fills < MaxFills
    /\ form' = [ form EXCEPT !.config = Over(Only(f, v), @), !.touched = @ \cup {f}, !.fills = @ + 1 ]
    /\ UNCHANGED source

\* A box can be ticked; it is never blank.
Toggle(f) ==
    /\ form.open /\ ShowsConnection /\ source.type = "generic_imap" /\ f \in Checkboxes
    /\ form.fills < MaxFills
    /\ form' = [ form EXCEPT !.config[f] = IF @ = "on" THEN "off" ELSE "on", !.touched = @ \cup {f},
                             !.fills = @ + 1 ]
    /\ UNCHANGED source

ChoosePreset(preset) ==
    /\ form.open /\ ShowsConnection /\ source.type = "oauth_mailbox"
    /\ form.config["preset"] # preset
    /\ form.fills < MaxFills
    /\ form' = [ form EXCEPT !.config = Preset(@, preset), !.fills = @ + 1 ]
    /\ UNCHANGED source

ChooseFlow(flow) ==
    /\ form.open /\ ShowsConnection /\ source.type = "oauth_mailbox"
    /\ form.config["flow"] # flow
    /\ form.fills < MaxFills
    /\ form' = [ form EXCEPT !.config["flow"] = flow, !.fills = @ + 1 ]
    /\ UNCHANGED source

\* importMethod: a local path and an upload exclude each other in the form.
ChooseFile(f, v) ==
    /\ form.open /\ source.type = "pst_import" /\ f \in ProviderFields("pst_import")
    /\ form.fills < MaxFills
    /\ form' = [ form EXCEPT !.config = Over(Only(f, v), FormDefaults), !.touched = @ \cup {f}, !.fills = @ + 1 ]
    /\ UNCHANGED source

\* handleSubmit: a folded section is not sent at all.
SubmitRename ==
    /\ form.open /\ ~ ShowsConnection
    /\ form' = Closed
    /\ source' = [ source EXCEPT !.edits = @ + 1 ]

\* update: the merge may refuse; then the dialog stays open.
SubmitConfig ==
    /\ form.open /\ ShowsConnection /\ source.type # "oauth_mailbox"
    /\ LET result == MergeProviderCredentials(source.config, form.config, source.type)
       IN /\ result.ok
          /\ source' = [ source EXCEPT !.config = result.merged, !.edits = @ + 1 ]
          /\ form' = Closed

SubmitOAuth ==
    /\ form.open /\ ShowsConnection /\ source.type = "oauth_mailbox"
    /\ LET merged == MergeOAuth(source.config, form.config)
           changed == ConnectionChanged(source.config, merged)
       IN /\ changed => ValidateOAuth(merged)
          /\ source' = [ source EXCEPT !.config = merged, !.authorized = @ /\ ~ changed, !.edits = @ + 1 ]
          /\ form' = Closed

\* The sign-in that an edit of the connection made necessary.
Authorize ==
    /\ source.type = "oauth_mailbox" /\ ~ source.authorized
    /\ source' = [ source EXCEPT !.authorized = TRUE ]
    /\ UNCHANGED form

Next ==
    \/ Open \/ Close \/ ShowConnection
    \/ \E f \in Inputs(source.type), v \in Typed :
        IF source.type = "pst_import" THEN ChooseFile(f, v) ELSE Fill(f, v)
    \/ \E f \in Checkboxes : Toggle(f)
    \/ \E preset \in { "outlook", "microsoft_work", "custom" } : ChoosePreset(preset)
    \/ \E flow \in { "auth_code", "device_code" } : ChooseFlow(flow)
    \/ SubmitRename \/ SubmitConfig \/ SubmitOAuth
    \/ Authorize

Spec == Init /\ [][Next]_vars

-----------------------------------------------------------------------------
\* A source can still connect.  (An OAuth mailbox stores a host cleared on
\* purpose, and a device code flow without its endpoint: nothing checks the merged
\* fields when none of ConnectionFields has changed.)
StillConnects ==
    IF source.type = "oauth_mailbox"
    THEN \A f \in RequiredOAuth(source.config) \ { "imapHost", "deviceAuthorizationEndpoint" } : ~ IsBlank(source.config, f)
    ELSE /\ MissingFields(source.config, source.type) = {}
         /\ source.type = "pst_import" => \E f \in ProviderFields("pst_import") : ~ IsBlank(source.config, f)

\* Whatever a source of this type has stored for its connection.
Settings(type) ==
    IF type = "oauth_mailbox" THEN ConnectionFields \cup { "clientSecret", "imapHost", "flow", "preset" }
    ELSE ProviderFields(type)

\* What the dialog sends though nobody touched it: its boxes, and for an OAuth
\* mailbox the Outlook preset.  These do not survive an unfolded section, for the
\* dialog does not know what is stored.
Resent(type) == IF type = "oauth_mailbox" THEN DOMAIN Seeded(FormDefaults) ELSE Checkboxes

\* However blank the form was, an edit changes no other setting than those that
\* somebody touched, and where a blank means "not shown" none that was left blank.
KeepsSettings ==
    \A f \in Settings(source.type) \ Resent(source.type) :
        \/ Value(source'.config, f) = Value(source.config, f)
        \/ f \in form.touched /\ (IsBlank(form.config, f) => source.type = "oauth_mailbox" /\ f # "clientSecret")
=============================================================================
