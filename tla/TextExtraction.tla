--------------------------- MODULE TextExtraction ---------------------------
(***************************************************************************)
(* The texts of the attachments of messages that are being built into      *)
(* search documents side by side: a few attachments of each are read at a  *)
(* time, Tika or the worker itself converts them, and PDFs are parsed one  *)
(* at a time under a timer and a watch on the heap.                        *)
(***************************************************************************)
EXTENDS Naturals, Sequences, FiniteSets, FiniteSetsExt, Functions

CONSTANTS
    Attachments,    \* a sequence of kinds for each document
    ReadConcurrency,\* ATTACHMENT_READ_CONCURRENCY
    HeapLimit,      \* heap_size_limit, in the units a parse grows by
    HeapBudget,     \* pdfHeapBudgetBytes
    HardStop,       \* HEAP_HARD_STOP_RATIO of the limit
    MaxResident     \* bound: heap that the rest of the worker holds

\* A healthy PDF grows by one unit, within the budget and below the hard stop; and
\* between the hard stop and the limit there is room for what one sample misses.
ExtractionAssumption ==
    /\ ReadConcurrency \in Nat \ {0}
    /\ HeapLimit \in Nat /\ HeapBudget \in 1 .. HeapLimit
    /\ HardStop \in Nat \ {0} /\ HardStop + 1 < HeapLimit
    /\ MaxResident \in 0 .. HardStop

VARIABLES
    engine,     \* whether TIKA_URL is set
    part,       \* where each attachment is, or the text it gave
    built,      \* the attachments of the documents that are built
    chain,      \* pdfParseChain: the parses that wait for their turn
    turn,       \* the parse whose turn it is
    parsers,    \* the parsers that are at work, and what each has allocated
    heap        \* what else is on the heap, whether a collection failed to take its
                \* garbage, and whether a sample was taken since it grew

vars == << engine, part, built, chain, turn, parsers, heap >>

Documents == DOMAIN Attachments
Parts == UNION { {d} \X DOMAIN Attachments[d] : d \in Documents }
Kind(p) == Attachments[p[1]][p[2]]

\* Whether a parse of it ends by itself, and how far it grows until then.
Endless == { "hang", "book" }
Growth(p) == CASE Kind(p) = "book" -> HeapLimit [] Kind(p) = "pdf" -> 1 [] OTHER -> 0

NoTurn == [ at |-> "idle" ]

TypeOK ==
    /\ engine \in { "legacy", "tika" }
    /\ part \in [ Parts -> { "waiting", "reading", "asking", "queued", "parsing", "text", "none", "rejected" } ]
    /\ DOMAIN built \subseteq Documents
    /\ \A i \in DOMAIN chain : chain[i] \in Parts
    /\ DOMAIN parsers \subseteq Parts
    /\ heap.garbage \in Nat /\ heap.resident \in 0 .. MaxResident
    /\ heap.missed \in BOOLEAN /\ heap.sampled \in BOOLEAN

Init ==
    /\ engine \in { "legacy", "tika" }
    /\ part = [ p \in Parts |-> "waiting" ]
    /\ built = << >>
    /\ chain = << >> /\ turn = NoTurn
    /\ parsers = << >>
    /\ heap = [ garbage |-> 0, resident |-> 0, missed |-> FALSE, sampled |-> TRUE ]

Settled(p) == part[p] \in { "text", "none", "rejected" }
Settles(p, outcome) == part' = [ part EXCEPT ![p] = outcome ]

-----------------------------------------------------------------------------
(* mapWithConcurrency: runners that share a cursor                         *)

InFlight(d) == { p \in Parts : p[1] = d /\ part[p] # "waiting" /\ ~ Settled(p) }

Take(p) ==
    /\ part[p] = "waiting"
    /\ \A i \in 1 .. p[2] - 1 : part[<< p[1], i >>] # "waiting"
    /\ Cardinality(InFlight(p[1])) < ReadConcurrency
    /\ Settles(p, "reading")
    /\ UNCHANGED << engine, built, chain, turn, parsers, heap >>

\* A fault: one that could not be read costs the document all of them.
Readable_Fault(d) ==
    IF \E i \in DOMAIN Attachments[d] : part[<< d, i >>] = "rejected" THEN {} ELSE DOMAIN Attachments[d]

\* The results of the attachments that could be read.
Readable(d) == { i \in DOMAIN Attachments[d] : part[<< d, i >>] # "rejected" }

\* Each keeps its place among the results.
Build(d) ==
    /\ d \notin DOMAIN built
    /\ \A p \in Parts : p[1] = d => Settled(p)
    /\ LET content == [ i \in Readable(d) |-> part[<< d, i >>] ]
       IN built' = [ e \in DOMAIN built \cup {d} |-> IF e = d THEN content ELSE built[e] ]
    /\ UNCHANGED << engine, part, chain, turn, parsers, heap >>

-----------------------------------------------------------------------------
(* extractText                                                             *)

\* The storage has the file, or it has not.
ReadFails(p) ==
    /\ part[p] = "reading" /\ Kind(p) = "lost"
    /\ Settles(p, "rejected")
    /\ UNCHANGED << engine, built, chain, turn, parsers, heap >>

\* Empty, of no type or too large for either: no text.
Skip(p) ==
    /\ part[p] = "reading" /\ Kind(p) \in { "empty", "large" }
    /\ Settles(p, "none")
    /\ UNCHANGED << engine, built, chain, turn, parsers, heap >>

\* extractTextLegacy converts all but PDFs on the spot; what it does not know,
\* and what throws, has no text.
Convert(p) ==
    /\ engine = "legacy"
    /\ part[p] = "reading" /\ Kind(p) \in { "plain", "broken", "image" }
    /\ Settles(p, IF Kind(p) = "plain" THEN "text" ELSE "none")
    /\ UNCHANGED << engine, built, chain, turn, parsers, heap >>

IsPdf(p) == Kind(p) \in { "pdf", "garbled" } \cup Endless

Enqueue(p) ==
    /\ engine = "legacy"
    /\ part[p] = "reading" /\ IsPdf(p)
    /\ chain' = Append(chain, p)
    /\ Settles(p, "queued")
    /\ UNCHANGED << engine, built, turn, parsers, heap >>

\* extractTextWithTika takes whatever it is given.  Its cache and its semaphore
\* are those of a service made for this one file: they never have a say.
AskTika(p) ==
    /\ engine = "tika"
    /\ part[p] = "reading" /\ (IsPdf(p) \/ Kind(p) \in { "plain", "broken", "image" })
    /\ Settles(p, "asking")
    /\ UNCHANGED << engine, built, chain, turn, parsers, heap >>

\* One URL answers, or none of them.
TikaAnswers(p) ==
    /\ part[p] = "asking"
    /\ \E outcome \in { "text", "none" } : Settles(p, outcome)
    /\ UNCHANGED << engine, built, chain, turn, parsers, heap >>

-----------------------------------------------------------------------------
(* extractTextFromPdf                                                      *)

\* What no collection can take, and all of the heap.
Live == MapThenSumSet(LAMBDA p : parsers[p], DOMAIN parsers) + heap.resident
HeapUsed == Live + heap.garbage

\* serializePdfParse: the parse before has settled.
StartParse ==
    /\ chain # << >> /\ turn.at = "idle"
    /\ turn' = [ at |-> "parsing", part |-> Head(chain), baseline |-> HeapUsed ]
    /\ chain' = Tail(chain)
    /\ parsers' = [ p \in DOMAIN parsers \cup {Head(chain)} |-> IF p = Head(chain) THEN 0 ELSE parsers[p] ]
    /\ Settles(Head(chain), "parsing")
    /\ UNCHANGED << engine, built, heap >>

\* What a parser allocated is garbage once it is destroyed.
Destroyed(p) ==
    /\ parsers' = Restrict(parsers, DOMAIN parsers \ {p})
    /\ heap' = [ heap EXCEPT !.garbage = @ + parsers[p], !.sampled = TRUE ]

\* The parser, the clock or the watch on the heap ends a parse.
Finish(text, by) ==
    /\ Destroyed(turn.part)
    /\ turn' = [ at |-> "reclaim", part |-> turn.part, text |-> text, by |-> by ]
    /\ UNCHANGED << engine, part, built, chain >>

Parsing == turn.at = "parsing"

\* dataReady and dataError, or parseBuffer throws.
Emits ==
    /\ Parsing /\ Kind(turn.part) \notin Endless
    /\ parsers[turn.part] = Growth(turn.part)
    /\ Finish(IF Kind(turn.part) = "pdf" THEN "text" ELSE "none", "parser")

\* The timer gives up whatever is slow, a healthy PDF too.
TimesOut == Parsing /\ Finish("none", "clock")

\* A fault: only what the parse itself adds is looked at.
OverBudget_Fault == HeapUsed > turn.baseline + HeapBudget

OverBudget == HeapUsed > turn.baseline + HeapBudget \/ HeapUsed > HardStop

\* The watch samples the heap: it abandons the parse, or lets it go on.
Watch ==
    /\ Parsing /\ ~ heap.sampled
    /\ IF OverBudget
       THEN Finish("none", "watch")
       ELSE /\ heap' = [ heap EXCEPT !.sampled = TRUE ]
            /\ UNCHANGED << engine, part, built, chain, turn, parsers >>

Collected == [ heap EXCEPT !.garbage = 0, !.missed = FALSE ]

\* The major collection, which the runtime may refuse, and then the promise settles.
Reclaim ==
    /\ turn.at = "reclaim"
    /\ heap' \in { Collected, [ heap EXCEPT !.missed = TRUE ] }
    /\ Settles(turn.part, turn.text)
    /\ turn' = NoTurn
    /\ UNCHANGED << engine, built, chain, parsers >>

\* V8 collects when it likes, at the latest when the heap is full.
Collect ==
    /\ turn.at # "reclaim" /\ heap.garbage > 0
    /\ heap' = Collected
    /\ UNCHANGED << engine, part, built, chain, turn, parsers >>

\* Between two samples the heap grows by one unit: a parser reads on, or the rest
\* of the worker takes more.
Grow(p) ==
    /\ heap.sampled /\ HeapUsed < HeapLimit
    /\ parsers[p] < Growth(p)
    /\ parsers' = [ parsers EXCEPT ![p] = @ + 1 ]
    /\ heap' = [ heap EXCEPT !.sampled = ~ Parsing ]
    /\ UNCHANGED << engine, part, built, chain, turn >>

Load ==
    /\ turn.at # "reclaim"
    /\ heap.sampled /\ HeapUsed < HeapLimit
    /\ heap.resident < MaxResident
    /\ heap' = [ heap EXCEPT !.resident = @ + 1, !.sampled = ~ Parsing ]
    /\ UNCHANGED << engine, part, built, chain, turn, parsers >>

Unload ==
    /\ turn.at # "reclaim" /\ heap.resident > 0
    /\ heap' = [ heap EXCEPT !.resident = 0 ]
    /\ UNCHANGED << engine, part, built, chain, turn, parsers >>

Next ==
    \/ \E p \in Parts : Take(p) \/ ReadFails(p) \/ Skip(p) \/ Convert(p) \/ Enqueue(p) \/ AskTika(p) \/ TikaAnswers(p)
    \/ \E d \in Documents : Build(d)
    \/ StartParse \/ Emits \/ TimesOut \/ Watch \/ Reclaim
    \/ \E p \in DOMAIN parsers : Grow(p)
    \/ Load \/ Unload \/ Collect

Spec == Init /\ [][Next]_vars

-----------------------------------------------------------------------------
\* One parser works at a time, an abandoned one has stopped.
OneParse == \A p, q \in DOMAIN parsers : p = q

\* However a parse behaves, something on the heap can be collected before it is full.
HeapHolds == Live < HeapLimit

\* The watch abandons a healthy PDF only when the worker holds something else, or a
\* collection failed to take what other parses left.
HealthyParsed ==
    turn.at = "reclaim" /\ Kind(turn.part) = "pdf" /\ turn.by = "watch" => heap.resident > 0 \/ heap.missed

\* A document has the text of every attachment that could be read: one that
\* fails costs no other its own.
DocumentsWhole ==
    \A d \in DOMAIN built :
        /\ DOMAIN built[d] = { i \in DOMAIN Attachments[d] : Kind(<< d, i >>) # "lost" }
        /\ \A i \in DOMAIN built[d] :
             engine = "legacy" /\ Kind(<< d, i >>) = "plain" => built[d][i] = "text"
=============================================================================
