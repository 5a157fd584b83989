----------------------------- MODULE SearchPage -----------------------------
(***************************************************************************)
(* The search page: the form and its filters, the URL that carries a       *)
(* search, the page's load, the controller that validates it, the query    *)
(* that Meilisearch is given, and what the page shows.                     *)
(***************************************************************************)
EXTENDS Naturals, Sequences, FiniteSets, Functions, SequencesExt

CONSTANTS
    Emails,         \* the documents of the index
    RootOf,         \* of each ingestion source, the root of its merge group
    Limit,          \* hits on a page
    MaxTotalHits,   \* pagination.maxTotalHits, which the code leaves at 1000
    Entered,        \* of each field, what is entered into it
    Typed,          \* searches that are typed into the address bar, or bookmarked
    Accesses,       \* what FilterBuilder makes of a user's policies
    MaxEdits        \* bound: fields changed

VARIABLES
    access,     \* the asking user's
    form,       \* the fields of the mounted page
    url,        \* the address it is at
    view,       \* what it shows
    asked,      \* history: the form that was submitted, if the address comes from one
    edits       \* counts towards MaxEdits

vars == << access, form, url, view, asked, edits >>

Sources == DOMAIN RootOf
Lists == { "sources", "excludeSources", "from", "notFrom", "to", "notTo", "mailboxes", "searchIn" }

\* The state of a page that is opened without parameters.  A day is a number, 0
\* is none, and InvalidDay is no day of any calendar.
Blank ==
    [ f \in Lists |-> {} ] @@ [ keywords |-> << >>, matchingStrategy |-> "last", dateFrom |-> 0, dateTo |-> 0,
                                 hasAttachments |-> "any", sort |-> "date_desc" ]
Fields == DOMAIN Blank
InvalidDay == 99

SearchAssumption ==
    /\ \A s \in Sources : RootOf[s] \in Sources /\ RootOf[RootOf[s]] = RootOf[s]
    /\ Limit \in Nat \ {0} /\ MaxTotalHits \in Nat \ {0} /\ MaxEdits \in Nat
    /\ DOMAIN Entered = Fields
    /\ \A params \in Typed : DOMAIN params \subseteq Fields

TypeOK ==
    /\ access \in Accesses
    /\ DOMAIN form = Fields
    /\ DOMAIN url = { "params", "page" } /\ url.page \in Nat
    /\ view.shows \in { "prompt", "error", "failure", "hits" }
    /\ edits \in 0 .. MaxEdits

-----------------------------------------------------------------------------
(* Text: a comma-separated list is split, trimmed and loses its blanks.    *)

Trim(v) == CASE v = " a" -> "a" [] v = " " -> "" [] OTHER -> v
NormalizeEmailAddress(v) == IF Trim(v) = "A" THEN "a" ELSE Trim(v)
Csv(values) == { Trim(v) : v \in values } \ {""}

-----------------------------------------------------------------------------
(* Meilisearch, as far as the query is concerned                           *)

Searchable == << "subject", "body", "from", "to", "cc", "userEmail" >>
Attributes == Range(Searchable)

\* The attributes are listed in the order in which a match in them ranks.
Rank(attribute) == CHOOSE i \in DOMAIN Searchable : Searchable[i] = attribute

\* "all" wants every word, "last" drops words from the end.
Found(email, words, attributes, strategy) ==
    LET wanted == IF strategy = "all" THEN DOMAIN words ELSE { 1 } \cap DOMAIN words
    IN \A i \in wanted : \E a \in attributes : words[i] \in email.words[a]

\* Equally good matches come in the order of the sort, or else by relevance alone.
Bucket(email, words, attributes) ==
    LET ranks == { Rank(a) : a \in { b \in attributes : Range(words) \cap email.words[b] # {} } }
    IN IF ranks = {} THEN 0 ELSE CHOOSE r \in ranks : \A q \in ranks : r <= q

Before(a, b, query) ==
    LET ra == Bucket(a, query.words, query.attributes)
        rb == Bucket(b, query.words, query.attributes)
        sooner == CASE query.sort = "timestamp:asc" -> a.timestamp < b.timestamp
                    [] query.sort = "timestamp:desc" -> a.timestamp > b.timestamp
                    [] OTHER -> a.id < b.id
    IN ra < rb \/ (ra = rb /\ sooner)

Least(m, n) == IF m < n THEN m ELSE n

\* However many match, no more than the first MaxTotalHits are counted or returned.
MeiliSearch(query) ==
    LET matching == { e \in Emails : Found(e, query.words, query.attributes, query.strategy) /\ query.filter[e] }
        sorted == SetToSortSeq(matching, LAMBDA a, b : Before(a, b, query))
        total == Least(Len(sorted), MaxTotalHits)
    IN [ total |-> total,
         hits |-> SubSeq(sorted, query.offset + 1, Least(query.offset + query.limit, total)) ]

-----------------------------------------------------------------------------
(* SearchService                                                           *)

FindGroupSourceIds(id) == { s \in Sources : RootOf[s] = RootOf[id] }

\* An id that no source has stays as it is.
ExpandSourceGroups(ids) == UNION { IF id \in Sources THEN FindGroupSourceIds(id) ELSE {id} : id \in ids }

UtcDayRange(day) == [ start |-> 2 * day, end |-> 2 * day + 1 ]

\* A fault: an address among those copied on the message is not excluded.
BuildEmailSearchFilter_Fault(filters, email) ==
    /\ ("sources" \in DOMAIN filters => email.ingestionSourceId \in filters.sources)
    /\ ("excludeSources" \in DOMAIN filters => email.ingestionSourceId \notin filters.excludeSources)
    /\ ("from" \in DOMAIN filters => email.from \in filters.from)
    /\ ("notFrom" \in DOMAIN filters => email.from \notin filters.notFrom)
    /\ ("to" \in DOMAIN filters => filters.to \cap (email.to \cup email.cc) # {})
    /\ ("notTo" \in DOMAIN filters => filters.notTo \cap email.to = {})

\* buildEmailSearchFilter: a clause for each filter there is.  A document from
\* before hasAttachments was indexed has no such field.
BuildEmailSearchFilter(filters, email) ==
    LET Given(f) == f \in DOMAIN filters
    IN /\ Given("sources") => email.ingestionSourceId \in filters.sources
       /\ Given("excludeSources") => email.ingestionSourceId \notin filters.excludeSources
       /\ Given("from") => email.from \in filters.from
       /\ Given("notFrom") => email.from \notin filters.notFrom
       /\ Given("to") => filters.to \cap email.to # {} \/ filters.to \cap email.cc # {}
       /\ Given("notTo") => filters.notTo \cap email.to = {} /\ filters.notTo \cap email.cc = {}
       /\ Given("mailboxes") => email.userEmail \in filters.mailboxes
       /\ Given("dateFrom") => email.timestamp >= UtcDayRange(filters.dateFrom).start
       /\ Given("dateTo") => email.timestamp <= UtcDayRange(filters.dateTo).end
       /\ Given("hasAttachments") => IF filters.hasAttachments
                                     THEN email.hasAttachments = "true" ELSE email.hasAttachments # "true"

\* Policies that compiled to nothing open nothing.
AccessFilter(email) ==
    access.kind = "full" \/ (access.kind = "filter" /\ email.ingestionSourceId \in access.sources)

\* SEARCH_SCOPE_ATTRIBUTES, without the scopes the documents of the model have nothing in.
ScopeAttributes(scope) == IF scope = "to" THEN { "to", "cc" } ELSE { scope }

SearchEmails(dto) ==
    LET expanded == [ f \in DOMAIN dto.filters |->
                        IF f \in { "sources", "excludeSources" } THEN ExpandSourceGroups(dto.filters[f]) ELSE dto.filters[f] ]
    IN MeiliSearch(
        [ words |-> dto.query, strategy |-> dto.matchingStrategy,
          attributes |-> IF dto.searchIn = {} THEN Attributes ELSE UNION { ScopeAttributes(s) : s \in dto.searchIn },
          sort |-> CASE dto.sort = "date_asc" -> "timestamp:asc" [] dto.sort = "relevance" -> "none" [] OTHER -> "timestamp:desc",
          filter |-> [ e \in Emails |-> BuildEmailSearchFilter(expanded, e) /\ AccessFilter(e) ],
          offset |-> (dto.page - 1) * dto.limit, limit |-> dto.limit ])

-----------------------------------------------------------------------------
(* SearchController                                                        *)

Addresses == { "from", "notFrom", "to", "notTo", "mailboxes" }
Scopes == { "subject", "body", "from", "to" }
Refusal == [ ok |-> FALSE ]

\* The filters of a query string; a list of blanks is none.
FiltersOf(query) ==
    LET Value(f) == CASE f \in Addresses -> { NormalizeEmailAddress(v) : v \in Csv(query[f]) }
                      [] f \in Lists -> Csv(query[f])
                      [] f = "hasAttachments" -> query[f] = "true"
                      [] OTHER -> query[f]
        given == { f \in DOMAIN query \ { "keywords", "matchingStrategy", "searchIn", "sort" } :
                     f \in Lists => Csv(query[f]) # {} }
    IN [ f \in given |-> Value(f) ]

\* UUID_PATTERN: an id that is of no source may still look like one.
IsUuid(id) == id # "junk"

Valid(query) ==
    LET Has(f) == f \in DOMAIN query
    IN /\ \A f \in { "sources", "excludeSources" } : Has(f) => \A id \in Csv(query[f]) : IsUuid(id)
       /\ \A f \in { "dateFrom", "dateTo" } : Has(f) => query[f] # InvalidDay
       /\ Has("dateFrom") /\ Has("dateTo") => query.dateFrom <= query.dateTo
       /\ Has("hasAttachments") => query.hasAttachments \in { "true", "false" }
       /\ Has("searchIn") => Csv(query.searchIn) \subseteq Scopes
       /\ Has("sort") => query.sort \in { "relevance", "date_desc", "date_asc" }

\* The order in which results come and where they are looked for are no filters.
Search(query, page) ==
    LET Given(f) == IF f \in DOMAIN query THEN query[f] ELSE Blank[f]
        filters == FiltersOf(query)
        dto == [ query |-> Given("keywords"), filters |-> filters, searchIn |-> Csv(Given("searchIn")),
                 sort |-> Given("sort"), page |-> IF page = 0 THEN 1 ELSE page, limit |-> Limit,
                 matchingStrategy |-> query.matchingStrategy ]
    IN IF ~ Valid(query) \/ (Given("keywords") = << >> /\ DOMAIN filters = {})
       THEN Refusal
       ELSE [ ok |-> TRUE, result |-> SearchEmails(dto) ]

-----------------------------------------------------------------------------
(* The page                                                                *)

\* Its load: without keywords and parameters it asks nothing of the API.
Load(params, page) ==
    LET query == params @@ [ matchingStrategy |-> "last" ]
        answer == Search(query, page)
    IN IF DOMAIN params \subseteq { "matchingStrategy" } THEN [ shows |-> "prompt" ]
       ELSE IF ~ answer.ok THEN [ shows |-> "error" ]
       ELSE [ shows |-> "hits", page |-> page, total |-> answer.result.total, hits |-> answer.result.hits ]

\* The fields when the page is mounted.
Hydrated(params) ==
    [ f \in Fields |-> IF f \notin DOMAIN params THEN Blank[f]
                       ELSE IF f \in Lists THEN Csv(params[f]) ELSE params[f] ]

\* A fault: the newest first is left out as the default, and so is relevance.
BuildSearchParams_Fault(fields) ==
    LET Sent(f) == CASE f = "matchingStrategy" -> TRUE
                     [] f = "hasAttachments" -> fields[f] \in { "true", "false" }
                     [] f = "sort" -> fields[f] = "date_asc"
                     [] OTHER -> fields[f] # Blank[f]
    IN [ f \in { g \in Fields : Sent(g) } |-> fields[f] ]

\* buildSearchParams, but for the page.
BuildSearchParams(fields) ==
    LET Sent(f) == CASE f = "matchingStrategy" -> TRUE
                     [] f = "hasAttachments" -> fields[f] \in { "true", "false" }
                     [] OTHER -> fields[f] # Blank[f]
    IN [ f \in { g \in Fields : Sent(g) } |-> fields[f] ]

\* The engine may not answer, or the audit log behind the search not take its entry.
Failure == [ shows |-> "failure" ]
Views(params, page) ==
    {Load(params, page)} \cup (IF Load(params, page).shows = "hits" THEN {Failure} ELSE {})

NoForm == << >>
Goes(params, page) ==
    /\ url' = [ params |-> params, page |-> page ]
    /\ view' \in Views(params, page)

Init ==
    /\ access \in Accesses
    /\ \E params \in Typed, page \in 0 .. 1 :
        /\ url = [ params |-> params, page |-> page ]
        /\ view \in Views(params, page)
        /\ form = Hydrated(params)
    /\ asked = NoForm
    /\ edits = 0

Edits(changed) ==
    /\ edits < MaxEdits /\ edits' = edits + 1
    /\ form' = changed
    /\ UNCHANGED << access, url, view, asked >>

\* A field of one value takes it; a chip or a scope is added to a list.
Enter(f) ==
    \E v \in Entered[f] :
        IF f \in Lists
        THEN Edits([ form EXCEPT ![f] = Csv(@ \cup {v}) ])
        ELSE Edits([ form EXCEPT ![f] = v ])

RemoveFrom(f) == \E v \in form[f] : Edits([ form EXCEPT ![f] = @ \ {v} ])

\* toggleSource: what is included is no longer excluded, and the other way round.
ToggleSource(f, other) ==
    \E s \in Entered[f] : Edits([ form EXCEPT ![f] = @ \cup {s}, ![other] = @ \ {s} ])

ClearDates ==
    /\ form.dateFrom # 0 \/ form.dateTo # 0
    /\ Edits([ form EXCEPT !.dateFrom = 0, !.dateTo = 0 ])

\* The panel's button keeps the keywords and the strategy.
ClearFilters ==
    /\ form # Blank
    /\ Edits([ f \in Fields |-> IF f \in { "keywords", "matchingStrategy" } THEN form[f] ELSE Blank[f] ])

HandleSearch ==
    /\ Goes(BuildSearchParams(form), 1)
    /\ asked' = form
    /\ UNCHANGED << access, form, edits >>

\* The links to the other pages are made of what the form holds by then.
FollowPage ==
    /\ view.shows = "hits" /\ view.total > Limit
    /\ \E page \in { view.page + 1, IF view.page = 0 THEN 0 ELSE view.page - 1 } :
        /\ page <= 1 + view.total \div Limit
        /\ Goes(BuildSearchParams(form), page)
    /\ asked' = form
    /\ UNCHANGED << access, form, edits >>

\* clearSearch, where nothing was found.
ClearSearch ==
    /\ view.shows = "hits" /\ view.total = 0
    /\ form' = Blank
    /\ Goes(<< >>, 1)
    /\ asked' = NoForm
    /\ UNCHANGED << access, edits >>

\* A reload, or the same address opened by somebody else who may see the same.
Reload ==
    /\ form' = Hydrated(url.params)
    /\ Goes(url.params, url.page)
    /\ UNCHANGED << access, asked, edits >>

Next ==
    \/ \E f \in Fields \ { "sources", "excludeSources" } : Enter(f)
    \/ \E f \in Lists : RemoveFrom(f)
    \/ ToggleSource("sources", "excludeSources") \/ ToggleSource("excludeSources", "sources")
    \/ ClearDates \/ ClearFilters \/ HandleSearch \/ FollowPage \/ ClearSearch \/ Reload

Spec == Init /\ [][Next]_vars

-----------------------------------------------------------------------------
(* What a search means, field by field, as the fields are labelled         *)

Receivers(email) == email.to \cup email.cc

\* An email is wanted if it satisfies every filter that is set, and a filter of
\* several values if it satisfies one of them.
Wanted(fields, email) ==
    LET Normal(f) == { NormalizeEmailAddress(v) : v \in fields[f] }
        InGroup(f) == \E s \in fields[f] : s = email.ingestionSourceId
                        \/ (s \in Sources /\ RootOf[s] = RootOf[email.ingestionSourceId])
        day == email.timestamp \div 2
        places == IF fields.searchIn = {} THEN Attributes ELSE fields.searchIn
        Words(scope) == IF scope = "to" THEN email.words["to"] \cup email.words["cc"] ELSE email.words[scope]
        Says(word) == \E scope \in places : word \in Words(scope)
    IN /\ \/ fields.keywords = << >>
          \/ fields.matchingStrategy = "all" /\ \A word \in Range(fields.keywords) : Says(word)
          \/ fields.matchingStrategy = "last" /\ Says(fields.keywords[1])
       /\ fields.sources # {} => InGroup("sources")
       /\ ~ InGroup("excludeSources")
       /\ fields.from # {} => email.from \in Normal("from")
       /\ email.from \notin Normal("notFrom")
       /\ fields.to # {} => Receivers(email) \cap Normal("to") # {}
       /\ Receivers(email) \cap Normal("notTo") = {}
       /\ fields.mailboxes # {} => email.userEmail \in Normal("mailboxes")
       /\ fields.dateFrom # 0 => fields.dateFrom <= day
       /\ fields.dateTo # 0 => day <= fields.dateTo
       /\ fields.hasAttachments \in { "true", "false" } => (fields.hasAttachments = "true") = (email.hasAttachments = "true")

\* What the page shows is its page of exactly the emails that the submitted form
\* asks for and the user may see, up to the limit of the engine: it counts no more
\* and has no page for the rest.  Without keywords they come in the order chosen.
ShowsWanted ==
    asked # NoForm /\ view.shows = "hits" =>
        LET wanted == { e \in Emails : Wanted(asked, e) /\ AccessFilter(e) }
            page == IF view.page = 0 THEN 1 ELSE view.page
            Earlier(e) == { o \in wanted : IF asked.sort = "date_asc" THEN o.timestamp < e.timestamp ELSE o.timestamp > e.timestamp }
            reached == Least(Cardinality(wanted), MaxTotalHits)
            there == { n \in 1 .. reached : (page - 1) * Limit < n /\ n <= page * Limit }
        IN /\ view.total = reached
           /\ Range(view.hits) \subseteq wanted
           /\ Len(view.hits) = Cardinality(Range(view.hits))
           /\ Len(view.hits) = Cardinality(there)
           /\ asked.keywords = << >> /\ asked.sort # "relevance" =>
                \A i \in DOMAIN view.hits : Cardinality(Earlier(view.hits[i])) = (page - 1) * Limit + i - 1

\* The address carries the whole search: whoever opens it gets the same form,
\* and sees the same.
AddressIsTheSearch ==
    asked # NoForm =>
        /\ Hydrated(url.params) = [ asked EXCEPT !.hasAttachments = IF @ \in { "true", "false" } THEN @ ELSE "any" ]
        /\ view # Failure => Load(url.params, url.page) = view

\* What the fields of the page can hold is refused only for dates in the wrong
\* order, and when there is nothing to look for.
Offered(fields) ==
    /\ \A f \in { "dateFrom", "dateTo" } : fields[f] # InvalidDay
    /\ fields.sort \in { "relevance", "date_desc", "date_asc" } /\ fields.searchIn \subseteq Scopes
    /\ fields.sources \cup fields.excludeSources \subseteq Sources
    /\ fields.hasAttachments \in { "any", "true", "false" }

RefusesLittle ==
    asked # NoForm /\ view.shows = "error" /\ Offered(asked) =>
        \/ asked.dateTo # 0 /\ asked.dateFrom > asked.dateTo
        \/ \A f \in Fields \ { "matchingStrategy", "searchIn", "sort" } : asked[f] = Blank[f]
=============================================================================
