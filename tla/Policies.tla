------------------------------ MODULE Policies ------------------------------
(***************************************************************************)
(* The policies of one role: the dialog that edits them, as statements or  *)
(* as JSON, and the three engines that enforce them.  CASL decides about   *)
(* one record, Postgres lists the records, Meilisearch searches them.      *)
(***************************************************************************)
EXTENDS Naturals, Sequences, SequencesExt

CONSTANTS
    Presets,        \* the predefined roles and the templates
    Written,        \* policies that somebody writes as JSON
    Text,           \* what a tested value may say
    MaxChanges      \* bound: changes made in dialogs

VARIABLES
    role,       \* the stored policies, and whether the visual editor wrote them
    form,       \* the dialog, or Closed
    kept,       \* history: the statements that the visual editor saved last
    changes     \* counts towards MaxChanges

vars == << role, form, kept, changes >>

Actions == { "read", "search", "manage" }
Subjects == { "archive", "ingestion", "roles", "all" }
Operators == { "eq", "ne", "in", "nin" }

\* SUBJECT_FIELDS: only what every engine can test may condition an archive rule.
SubjectFields ==
    [ archive |-> { "userEmail", "ingestionSourceId", "ingestionSource.userId" }, ingestion |-> { "id", "userId" } ]

MultiValue(op) == op \in { "in", "nin" }

\* A policy has at most one test per field; without conditions it has none at all.
\* A test looks for one value or for any of several, whatever their order.
\* ${user.id} is written "me".
Policy(inverted, action, subject, conditions) ==
    [ inverted |-> inverted, action |-> action, subject |-> subject, conditions |-> conditions ]

AtMostOne(values) == \A v, w \in values : v = w
Fields == UNION { SubjectFields[s] : s \in DOMAIN SubjectFields }
Stored == { test \in [ op : Operators, values : SUBSET Text ] :
              ~ MultiValue(test.op) => test.values # {} /\ AtMostOne(test.values) }
IsPolicy(policy) ==
    \E fields \in SUBSET Fields :
        policy \in [ inverted : BOOLEAN, action : SUBSET Actions, subject : SUBSET Subjects, conditions : [ fields -> Stored ] ]

PolicyAssumption ==
    /\ MaxChanges \in Nat /\ { "a", "A", " a", " ", "empty", "me", "u2", "s1" } \subseteq Text
    /\ \A policies \in Presets \cup Written :
        policies \in Seq(ToSet(policies)) /\ \A policy \in ToSet(policies) : IsPolicy(policy)

-----------------------------------------------------------------------------
(* Text.  An address is written in any case and padding; "empty" is the    *)
(* text of no letters.                                                     *)

Trim(v) == IF v = " a" THEN "a" ELSE IF v = " " THEN "empty" ELSE v
NormalizeEmailAddress(v) == IF Trim(v) = "A" THEN "a" ELSE Trim(v)

-----------------------------------------------------------------------------
(* The engines.                                                            *)

\* interpolatePolicies: the placeholder becomes the user who is asking.
Interpolated(v) == IF v = "me" THEN "u1" ELSE v

\* A fault: the values of a list are left as they were written.
NormalizedValues_Fault(field, test) ==
    IF field = "userEmail" /\ ~ MultiValue(test.op)
    THEN { NormalizeEmailAddress(v) : v \in test.values }
    ELSE test.values

\* normalizeEmailOperand.
NormalizedValues(field, test) ==
    IF field = "userEmail" THEN { NormalizeEmailAddress(v) : v \in test.values } ELSE test.values

\* getAbilityForUser.
Ability(policies) ==
    [ i \in DOMAIN policies |->
        LET written == policies[i].conditions
        IN Policy(policies[i].inverted, policies[i].action, policies[i].subject,
                  [ f \in DOMAIN written |->
                      [ op |-> written[f].op, values |-> { Interpolated(v) : v \in NormalizedValues(f, written[f]) } ] ]) ]

Covers(rule, action, subject) ==
    /\ rule.action \cap { action, "manage" } # {}
    /\ rule.subject \cap { subject, "all" } # {}

\* rulesFor, by their places: the last written has the first say.
RulesFor(ability, action, subject) == { i \in DOMAIN ability : Covers(ability[i], action, subject) }

Unconditional(rule) == DOMAIN rule.conditions = {}

\* One test of a row, in which the engine found a written value or did not.
Passes(test, found) == IF test.op \in { "eq", "in" } THEN found ELSE ~ found

\* The stored side, #normalizeSubject and lower(btrim(column)).
Column(row, field) == IF field = "userEmail" THEN NormalizeEmailAddress(row[field]) ELSE row[field]

ExactlyMatches(conditions, row) ==
    \A f \in DOMAIN conditions :
        Passes(conditions[f], \E v \in conditions[f].values : Column(row, f) = v)

\* Meilisearch folds case and padding itself; an owner is looked up as a list of his sources.
SearchMatches(conditions, row) ==
    \A f \in DOMAIN conditions :
        Passes(conditions[f],
               \E v \in conditions[f].values : NormalizeEmailAddress(row[f]) = NormalizeEmailAddress(v))

\* can: the last rule that matches the record decides.
Can(ability, action, subject, row) ==
    LET matching == { i \in RulesFor(ability, action, subject) : ExactlyMatches(ability[i].conditions, row) }
    IN \E i \in matching : ~ ability[i].inverted /\ \A j \in matching : j <= i

\* rulesToQuery: back to the last unconditional rule, what may be seen and what not.
Query(ability, action, subject) ==
    LET rules == RulesFor(ability, action, subject)
        read == { i \in rules : \A j \in rules : i <= j => ~ Unconditional(ability[j]) }
        rest == rules \ read
    IN [ everything |-> \E i \in rest : ~ ability[i].inverted /\ \A j \in rest : j <= i,
         or |-> { ability[i].conditions : i \in { k \in read : ~ ability[k].inverted } },
         and |-> { ability[i].conditions : i \in { k \in read : ability[k].inverted } } ]

Selects(query, matching) ==
    /\ query.everything \/ query.or \cap matching # {}
    /\ query.and \cap matching = {}

\* FilterBuilder.create, for a listing and for a search.
Lists(ability, actions, subject, row) ==
    \E action \in actions :
        LET query == Query(ability, action, subject)
        IN Selects(query, { c \in query.or \cup query.and : ExactlyMatches(c, row) })

Finds(ability, actions, row) ==
    \E action \in actions :
        LET query == Query(ability, action, "archive")
        IN Selects(query, { c \in query.or \cup query.and : SearchMatches(c, row) })

\* An attribute that Meilisearch does not know fails the whole search.
SearchFails(ability) ==
    \E action \in { "read", "search" } :
        LET query == Query(ability, action, "archive")
        IN \E conditions \in query.or \cup query.and : \E f \in DOMAIN conditions :
            \/ f \notin SubjectFields.archive
            \/ f = "ingestionSource.userId" /\ conditions[f].op # "eq"

-----------------------------------------------------------------------------
(* Between stored policies and statements.                                 *)

\* catalogForSubjects: the fields that all the subjects with conditions share.
Bearing(subjects) == subjects \cap DOMAIN SubjectFields
Catalog(subjects) ==
    IF "all" \in subjects \/ Bearing(subjects) = {} THEN {}
    ELSE { f \in UNION { SubjectFields[s] : s \in Bearing(subjects) } : \A s \in Bearing(subjects) : f \in SubjectFields[s] }

AllowedOperators(field) == IF field = "ingestionSource.userId" THEN { "eq" } ELSE Operators

\* policiesToUiModel: what it cannot draw it reports.
Drawable(policy) ==
    \A f \in DOMAIN policy.conditions :
        /\ f \in Catalog(policy.subject)
        /\ policy.conditions[f].op \in AllowedOperators(f)
        /\ policy.conditions[f].values # {}

ToUiModel(policies) ==
    [ i \in DOMAIN policies |->
        [ inverted |-> policies[i].inverted, action |-> policies[i].action, subject |-> policies[i].subject,
          rows |-> [ n \in 1 .. Cardinality(DOMAIN policies[i].conditions) |->
                     LET f == SetToSeq(DOMAIN policies[i].conditions)[n]
                     IN [ field |-> f, op |-> policies[i].conditions[f].op, values |-> policies[i].conditions[f].values ] ] ] ]

CanDraw(policies) == \A i \in DOMAIN policies : Drawable(policies[i])

\* The values without their padding and without blanks.
Filled(values) == { Trim(v) : v \in values } \ { "empty" }

\* uiModelToPolicies: the last row of a field is the one that is written.
Test(row) ==
    [ op |-> row.op,
      values |-> IF ~ MultiValue(row.op) /\ Filled(row.values) = {} THEN { "empty" } ELSE Filled(row.values) ]

LastRow(rows, f) == CHOOSE n \in DOMAIN rows : rows[n].field = f /\ \A m \in DOMAIN rows : rows[m].field = f => m <= n

ToPolicies(model) ==
    [ i \in DOMAIN model |->
        LET rows == model[i].rows
        IN Policy(model[i].inverted, model[i].action, model[i].subject,
                  [ f \in { rows[n].field : n \in DOMAIN rows } |-> Test(rows[LastRow(rows, f)]) ]) ]

Entered(row) == Filled(row.values) # {} /\ (MultiValue(row.op) \/ AtMostOne(Filled(row.values)))

\* A fault: a row is not looked at again when the subjects change.
RowIsFine_Fault(statement, row) == Entered(row)

\* validateUiModel.
RowIsFine(statement, row) == row.field \in Catalog(statement.subject) /\ Entered(row)

Issues(model) ==
    { i \in DOMAIN model :
        \/ model[i].action = {} \/ model[i].subject = {}
        \/ \E n \in DOMAIN model[i].rows : ~ RowIsFine(model[i], model[i].rows[n]) }

-----------------------------------------------------------------------------
(* The dialog.                                                             *)

Closed == [ mode |-> "closed" ]
Visual(model) == [ mode |-> "visual", model |-> model ]
Json(policies) == [ mode |-> "json", json |-> policies ]

Init ==
    /\ role \in [ policies : Presets, drawn : {FALSE} ]
    /\ form = Closed
    /\ kept = << >>
    /\ changes = 0

\* The visual tab comes first, unless it cannot draw the policies.
Open ==
    /\ form.mode = "closed"
    /\ form' = IF CanDraw(role.policies) THEN Visual(ToUiModel(role.policies)) ELSE Json(role.policies)
    /\ UNCHANGED << role, kept, changes >>

Close ==
    /\ form.mode # "closed"
    /\ form' = Closed
    /\ UNCHANGED << role, kept, changes >>

ShowVisual ==
    /\ form.mode = "json" /\ CanDraw(form.json)
    /\ form' = Visual(ToUiModel(form.json))
    /\ UNCHANGED << role, kept, changes >>

ShowJson ==
    /\ form.mode = "visual"
    /\ form' = Json(ToPolicies(form.model))
    /\ UNCHANGED << role, kept, changes >>

TypeJson(policies) ==
    /\ form.mode = "json" /\ changes < MaxChanges
    /\ form' = Json(policies)
    /\ changes' = changes + 1
    /\ UNCHANGED << role, kept >>

Changes(model) ==
    /\ form.mode = "visual" /\ changes < MaxChanges
    /\ form' = Visual(model)
    /\ changes' = changes + 1
    /\ UNCHANGED << role, kept >>

ChangesStatement(i, statement) == Changes([ form.model EXCEPT ![i] = statement ])

Toggled(set, e) == (set \ {e}) \cup ({e} \ set)

AddStatement == Changes(Append(form.model, [ inverted |-> FALSE, action |-> {}, subject |-> {}, rows |-> << >> ]))

RemoveStatement(i) == Changes(RemoveAt(form.model, i))

\* A template, offered while there is no statement.
ApplyPreset(policies) == form.model = << >> /\ CanDraw(policies) /\ Changes(ToUiModel(policies))

EditStatement(i) ==
    LET statement == form.model[i]
    IN \/ \E action \in Actions : ChangesStatement(i, [ statement EXCEPT !.action = Toggled(@, action) ])
       \/ \E subject \in Subjects : ChangesStatement(i, [ statement EXCEPT !.subject = Toggled(@, subject) ])
       \/ ChangesStatement(i, [ statement EXCEPT !.inverted = ~ @ ])

\* A new row names the first field that is offered.
FirstFields == { "userEmail", "id" }

AddCondition(i) ==
    \E f \in Catalog(form.model[i].subject) \cap FirstFields :
        ChangesStatement(i, [ form.model[i] EXCEPT !.rows = Append(@, [ field |-> f, op |-> "eq", values |-> {} ]) ])

ChangeField(i, n, f) ==
    /\ f \in Catalog(form.model[i].subject)
    /\ ChangesStatement(i, [ form.model[i] EXCEPT !.rows[n] =
                             [ field |-> f, op |-> IF @.op \in AllowedOperators(f) THEN @.op ELSE "eq", values |-> {} ] ])

\* From a list to one value, the first entry stays, and any may be the first.
Retained(row, op) ==
    IF MultiValue(row.op) /\ ~ MultiValue(op) /\ row.values # {} THEN { {v} : v \in row.values } ELSE { row.values }

ChangeOperator(i, n, op) ==
    LET row == form.model[i].rows[n]
    IN /\ op \in AllowedOperators(row.field)
       /\ \E values \in Retained(row, op) :
            ChangesStatement(i, [ form.model[i] EXCEPT !.rows[n] = [ field |-> row.field, op |-> op, values |-> values ] ])

Values(field) ==
    IF field = "userEmail" THEN { "a", "A", " a", " " }
    ELSE IF field \in { "ingestionSource.userId", "userId" } THEN { "me", "u2" }
    ELSE { "s1" }

SetValues(i, n, values) ==
    ChangesStatement(i, [ form.model[i] EXCEPT !.rows[n].values = values ])

RemoveCondition(i, n) == ChangesStatement(i, [ form.model[i] EXCEPT !.rows = RemoveAt(@, n) ])

EditRow(i, n) ==
    LET row == form.model[i].rows[n]
    IN \/ \E f \in Catalog(form.model[i].subject) \ { row.field } : ChangeField(i, n, f)
       \/ \E op \in Operators \ { row.op } : ChangeOperator(i, n, op)
       \/ \E v \in Values(row.field) : SetValues(i, n, IF MultiValue(row.op) THEN row.values \cup {v} ELSE {v})
       \/ \E v \in row.values : SetValues(i, n, row.values \ {v})
       \/ RemoveCondition(i, n)

\* updateRole stores the policies as they come, and the dialog closes.
UpdateRole(policies, drawn, model) ==
    /\ role' = [ policies |-> policies, drawn |-> drawn ]
    /\ kept' = model
    /\ form' = Closed
    /\ UNCHANGED changes

\* handleSubmit: statements with issues stay in the dialog.
SaveStatements == form.mode = "visual" /\ Issues(form.model) = {} /\ UpdateRole(ToPolicies(form.model), TRUE, form.model)

SaveJson == form.mode = "json" /\ UpdateRole(form.json, FALSE, << >>)

Next ==
    \/ Open \/ Close \/ ShowVisual \/ ShowJson
    \/ \E policies \in Written : TypeJson(policies)
    \/ form.mode = "visual" /\ (AddStatement \/ \E policies \in Presets : ApplyPreset(policies))
    \/ /\ form.mode = "visual"
       /\ \E i \in DOMAIN form.model :
            RemoveStatement(i) \/ EditStatement(i) \/ AddCondition(i) \/ \E n \in DOMAIN form.model[i].rows : EditRow(i, n)
    \/ SaveStatements \/ SaveJson

Spec == Init /\ [][Next]_vars

-----------------------------------------------------------------------------
\* Archived messages: of every spelling of an address, in the sources of two owners.
Owner(source) == IF source = "s1" THEN "u1" ELSE "u2"
Messages ==
    { [ f \in SubjectFields.archive |->
          IF f = "userEmail" THEN email ELSE IF f = "ingestionSourceId" THEN source ELSE Owner(source) ] :
        email \in { "a", "A", "b" }, source \in { "s1", "s2" } }

Sources == { [ f \in SubjectFields.ingestion |-> IF f = "id" THEN id ELSE Owner(id) ] : id \in { "s1", "s2" } }

\* The fields of a rule belong to the subject it is asked about.
Fits(policies, subject) ==
    \A i \in DOMAIN policies :
        policies[i].subject \cap { subject, "all" } # {} => DOMAIN policies[i].conditions \subseteq SubjectFields[subject]

\* What one engine lets a user see, the others do: the listing and the search
\* show the same messages, both show only what opens, and no policy that the
\* visual editor wrote makes the search fail.  (Only a dialog that closes changes
\* the role.)
EnginesAgree ==
    form.mode = "closed" =>
    LET ability == Ability(role.policies)
    IN /\ Fits(role.policies, "archive") /\ ~ SearchFails(ability) =>
            \A message \in Messages :
                /\ \A actions \in { {"read"}, {"read", "search"} } :
                    Lists(ability, actions, "archive", message) <=> Finds(ability, actions, message)
                /\ Lists(ability, {"read"}, "archive", message) => Can(ability, "read", "archive", message)
       /\ Fits(role.policies, "ingestion") =>
            \A source \in Sources :
                Lists(ability, {"read"}, "ingestion", source) => Can(ability, "read", "ingestion", source)
       /\ role.drawn => ~ SearchFails(ability)

\* Which tests a list of rows makes.
Tests(rows) == { [ field |-> rows[n].field, op |-> rows[n].op, values |-> Test(rows[n]).values ] : n \in DOMAIN rows }
OneRowPerField(rows) == \A m, n \in DOMAIN rows : rows[m].field = rows[n].field => m = n

\* What the visual editor saves it can open again, and shows as it was saved
\* (but for two rows of one field, of which only the last is written); what it
\* opens it writes back as the same policies.
EditorKeepsPolicy ==
    form.mode = "closed" =>
    /\ role.drawn =>
        /\ CanDraw(role.policies)
        /\ \A i \in DOMAIN kept : OneRowPerField(kept[i].rows) =>
            LET shown == ToUiModel(role.policies)[i]
            IN /\ << shown.inverted, shown.action, shown.subject >> = << kept[i].inverted, kept[i].action, kept[i].subject >>
               /\ Tests(shown.rows) = Tests(kept[i].rows)
    /\ CanDraw(role.policies) /\ Issues(ToUiModel(role.policies)) = {} =>
        LET again == Ability(ToPolicies(ToUiModel(role.policies)))
        IN \A message \in Messages, action \in { "read", "search" } :
            Fits(role.policies, "archive") =>
                (Can(again, action, "archive", message) <=> Can(Ability(role.policies), action, "archive", message))
=============================================================================
