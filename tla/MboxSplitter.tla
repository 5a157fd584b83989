---------------------------- MODULE MboxSplitter ---------------------------
(***************************************************************************)
(* The stream transform that cuts an Mbox file into messages while it is   *)
(* read in chunks of any size (MboxSplitter), beside what the cut of the   *)
(* whole file is.  The bytes are abstracted to four letters: a newline,    *)
(* the two halves of "From ", and anything else.                           *)
(***************************************************************************)
EXTENDS Naturals, Sequences

Letters == { "n", "F", "r", "x" }
From == << "F", "r" >>
Delimiter == << "n" >> \o From

CONSTANTS Files     \* the files to cut

SplitterAssumption == Files \subseteq Seq(Letters)

VARIABLES split

Splitter ==
    [ file : Files,
      taken : Nat,              \* letters read so far
      first : BOOLEAN,          \* firstChunk
      buffer : Seq(Letters),
      mails : Seq(Seq(Letters)),  \* pushed so far
      done : BOOLEAN ]

Init ==
    \E f \in Files :
        split = [ file |-> f, taken |-> 0, first |-> TRUE, buffer |-> << >>, mails |-> << >>,
                  done |-> FALSE ]

\* Where a sequence holds another one.
Occurrences(s, what) ==
    { i \in 1 .. Len(s) : /\ i + Len(what) - 1 <= Len(s)
                          /\ \A k \in 1 .. Len(what) : s[i + k - 1] = what[k] }
Begins(s, what) == 1 \in Occurrences(s, what)

\* Fault: what was left of the chunk before is taken for a message.
Received_Fault(chunk) == chunk

\* The buffer after a chunk: the first gets "From " when it does not begin so.
Received(chunk) ==
    split.buffer \o (IF split.first /\ ~ Begins(chunk, From) THEN From \o chunk ELSE chunk)

\* A stream's first chunk is long enough to tell whether it begins with "From ".
Transform(n) ==
    /\ Occurrences(split.buffer, Delimiter) = {}
    /\ split.taken + n <= Len(split.file)
    /\ split.first => n >= Len(From) \/ n = Len(split.file)
    /\ split' = [ split EXCEPT !.taken = @ + n, !.first = FALSE,
                    !.buffer = Received(SubSeq(split.file, split.taken + 1, split.taken + n)) ]

\* The loop of _transform: empty messages are not pushed.
Cut ==
    \E at \in Occurrences(split.buffer, Delimiter) :
        /\ \A other \in Occurrences(split.buffer, Delimiter) : at <= other
        /\ LET email == SubSeq(split.buffer, 1, at - 1)
           IN split' = [ split EXCEPT !.buffer = SubSeq(@, at + 1, Len(@)),
                           !.mails = IF email = << >> THEN @ ELSE Append(@, email) ]

Flush ==
    /\ ~ split.done /\ split.taken = Len(split.file)
    /\ Occurrences(split.buffer, Delimiter) = {}
    /\ split' = [ split EXCEPT !.done = TRUE, !.buffer = << >>,
                    !.mails = IF split.buffer = << >> THEN @ ELSE Append(@, split.buffer) ]

Next == (\E n \in 1 .. Len(split.file) : Transform(n)) \/ Cut \/ Flush

Spec == Init /\ [][Next]_split

-----------------------------------------------------------------------------
\* A file with the "From " that its first message may lack.
TextOf(file) == IF file = << >> \/ Begins(file, From) THEN file ELSE From \o file

\* Where the messages of a text lie: each from the start of a line with "From ",
\* or of the text, to the newline before the next such line, or to the end.
Starts(text) == { 1 } \cup { i + 1 : i \in Occurrences(text, Delimiter) }
Stretches(text) ==
    { p \in Starts(text) \X (1 .. Len(text)) :
        /\ p[1] <= p[2]
        /\ \A s \in Starts(text) : s <= p[1] \/ p[2] + 1 < s
        /\ p[2] = Len(text) \/ p[2] + 2 \in Starts(text) }

\* However the stream is chunked, with a delimiter across two chunks or several
\* in one, each message of the file comes out once, whole and in order.
SplitAgrees ==
    LET text == TextOf(split.file)
        out == DOMAIN split.mails
    IN \E place \in [ out -> Stretches(text) ] :
          /\ \A k \in out : split.mails[k] = SubSeq(text, place[k][1], place[k][2])
          /\ \A j, k \in out : j < k => place[j][1] < place[k][1]
          /\ \A p \in Stretches(text) :
                \/ \E k \in out : place[k] = p
                \/ ~ split.done /\ \A k \in out : place[k][1] < p[1]
=============================================================================
