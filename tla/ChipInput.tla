----------------------------- MODULE ChipInput ------------------------------
(***************************************************************************)
(* The field that collects values as chips: what is typed or pasted        *)
(* becomes chips, suggestions are fetched after a pause, answers arrive in *)
(* any order, and the list closes a moment after the focus has left.       *)
(***************************************************************************)
EXTENDS Naturals, Sequences, SequencesExt, FiniteSets, FiniteSetsExt

CONSTANTS
    Texts,          \* what a user types
    Pasted,         \* what a user pastes, split at its commas
    Answers,        \* what the API may suggest
    MaxRequests     \* bound: requests for suggestions

ChipAssumption == "" \in Texts /\ MaxRequests \in Nat

VARIABLES
    mode,       \* what the field is for: with suggestions, for one value, committing on blur
    values,     \* the chips
    draft,      \* what is in the input
    list,       \* the suggestions on show, and which request they answer
    timer,      \* the query that waits for the pause
    inFlight,   \* the requests without an answer yet
    requestSeq,
    closing,    \* the focus has left, the list is about to close
    latest      \* history: the latest request whose answer was shown

vars == << mode, values, draft, list, timer, inFlight, requestSeq, closing, latest >>

Trim(v) == CASE v = " x" -> "x" [] v = " " -> "" [] OTHER -> v
Suggests == mode.suggests
NoQuery == "none"
ClosedList == [ open |-> FALSE, shown |-> << >>, highlighted |-> 0, of |-> 0 ]

TypeOK ==
    /\ mode \in [ suggests : BOOLEAN, commitOnBlur : BOOLEAN, single : BOOLEAN ]
    /\ draft \in Texts /\ timer \in Texts \cup {NoQuery}
    /\ requestSeq \in 0 .. MaxRequests /\ inFlight \subseteq 1 .. requestSeq
    /\ list.highlighted \in 0 .. Len(list.shown)
    /\ closing \in BOOLEAN /\ latest \in 0 .. requestSeq

\* No use of the field both suggests and commits on blur.
Init ==
    /\ mode \in [ suggests : BOOLEAN, commitOnBlur : BOOLEAN, single : BOOLEAN ]
    /\ ~ (mode.suggests /\ mode.commitOnBlur)
    /\ values = << >> /\ draft = ""
    /\ list = ClosedList /\ timer = NoQuery
    /\ inFlight = {} /\ requestSeq = 0 /\ closing = FALSE /\ latest = 0

-----------------------------------------------------------------------------
\* A condition that takes one value binds its last chip only.
Bound(next) == IF mode.single /\ next # << >> THEN << Last(next) >> ELSE next

Adds(next) ==
    /\ values' = Bound(next)
    /\ draft' = ""
    /\ list' = ClosedList

With(chips, part) == IF Trim(part) = "" \/ Trim(part) \in ToSet(chips) THEN chips ELSE Append(chips, Trim(part))
AddValue(v) == Adds(With(values, v))
AddValues(parts) == Adds(FoldLeft(With, values, parts))

\* fetchSuggestions: a blank draft closes the list at once.
FetchSuggestions(query) ==
    IF ~ Suggests THEN UNCHANGED << timer, list >>
    ELSE IF Trim(query) = "" THEN timer' = NoQuery /\ list' = ClosedList
    ELSE timer' = query /\ UNCHANGED list

Type(text) ==
    /\ text # draft
    /\ draft' = text
    /\ FetchSuggestions(text)
    /\ UNCHANGED << mode, values, inFlight, requestSeq, closing, latest >>

\* The pause is over.
Ask ==
    /\ timer # NoQuery /\ requestSeq < MaxRequests
    /\ requestSeq' = requestSeq + 1
    /\ inFlight' = inFlight \cup {requestSeq'}
    /\ timer' = NoQuery
    /\ UNCHANGED << mode, values, draft, list, closing, latest >>

Showing(request, result) ==
    LET shown == SelectSeq(result, LAMBDA v : v \notin ToSet(values))
    IN list' = [ open |-> shown # << >>, shown |-> shown, highlighted |-> 0, of |-> request ]

\* A fault: an answer is shown though a later request has been made.
Answered_Fault(request) ==
    /\ inFlight' = inFlight \ {request}
    /\ latest' = Max({latest, request})
    /\ \E result \in Answers : Showing(request, result)
    /\ UNCHANGED << mode, values, draft, timer, requestSeq, closing >>

\* An answer that a later request has superseded is dropped.
Answered(request) ==
    /\ inFlight' = inFlight \ {request}
    /\ IF request = requestSeq
       THEN latest' = request /\ \E result \in Answers : Showing(request, result)
       ELSE UNCHANGED << list, latest >>
    /\ UNCHANGED << mode, values, draft, timer, requestSeq, closing >>

\* A request that fails closes the list, a superseded one too.
AnswerFails(request) ==
    /\ inFlight' = inFlight \ {request}
    /\ list' = ClosedList
    /\ UNCHANGED << mode, values, draft, timer, requestSeq, closing, latest >>

-----------------------------------------------------------------------------
Open == list.open /\ list.shown # << >>

\* Down or up, around the ends.
Arrow ==
    /\ Open
    /\ LET n == Len(list.shown)
       IN \E next \in { (list.highlighted % n) + 1, ((list.highlighted + 2 * n - 2) % n) + 1 } :
            list' = [ list EXCEPT !.highlighted = next ]
    /\ UNCHANGED << mode, values, draft, timer, inFlight, requestSeq, closing, latest >>

Escape ==
    /\ Open
    /\ list' = ClosedList
    /\ UNCHANGED << mode, values, draft, timer, inFlight, requestSeq, closing, latest >>

\* Enter, or a comma.
Enter ==
    /\ IF Open /\ list.highlighted > 0 THEN AddValue(list.shown[list.highlighted]) ELSE AddValues(<< draft >>)
    /\ UNCHANGED << mode, timer, inFlight, requestSeq, closing, latest >>

Click(v) ==
    /\ AddValue(v)
    /\ UNCHANGED << mode, timer, inFlight, requestSeq, closing, latest >>

Backspace ==
    /\ draft = "" /\ values # << >>
    /\ values' = Front(values)
    /\ UNCHANGED << mode, draft, list, timer, inFlight, requestSeq, closing, latest >>

RemoveChip(v) ==
    /\ values' = SelectSeq(values, LAMBDA w : w # v)
    /\ UNCHANGED << mode, draft, list, timer, inFlight, requestSeq, closing, latest >>

Paste(parts) ==
    /\ AddValues(parts)
    /\ UNCHANGED << mode, timer, inFlight, requestSeq, closing, latest >>

Blur ==
    /\ IF mode.commitOnBlur /\ ~ list.open THEN AddValues(<< draft >>) ELSE UNCHANGED << values, draft, list >>
    /\ closing' = TRUE
    /\ UNCHANGED << mode, timer, inFlight, requestSeq, latest >>

CloseLater ==
    /\ closing
    /\ closing' = FALSE
    /\ list' = ClosedList
    /\ UNCHANGED << mode, values, draft, timer, inFlight, requestSeq, latest >>

Focus ==
    /\ Trim(draft) # ""
    /\ FetchSuggestions(draft)
    /\ UNCHANGED << mode, values, draft, inFlight, requestSeq, closing, latest >>

Next ==
    \/ \E text \in Texts : Type(text)
    \/ Ask \/ \E request \in inFlight : Answered(request) \/ AnswerFails(request)
    \/ Arrow \/ Escape \/ Enter \/ Backspace
    \/ Open /\ \E i \in DOMAIN list.shown : Click(list.shown[i])
    \/ \E i \in DOMAIN values : RemoveChip(values[i])
    \/ \E parts \in Pasted : Paste(parts)
    \/ Blur \/ CloseLater \/ Focus

Spec == Init /\ [][Next]_vars

-----------------------------------------------------------------------------
\* However typing, pasting and choosing are mixed, a chip stands there once and
\* trimmed, and a condition for one value has one.
ChipsClean ==
    /\ \A i, j \in DOMAIN values : values[i] = values[j] => i = j
    /\ \A i \in DOMAIN values : values[i] # "" /\ Trim(values[i]) = values[i]
    /\ mode.single => Len(values) <= 1

\* A slow answer never replaces a newer one, and nothing is suggested that is
\* already a chip.
SuggestionsFresh ==
    list.open => list.of = latest /\ ToSet(list.shown) \cap ToSet(values) = {}
=============================================================================
