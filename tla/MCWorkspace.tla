----------------------------- MODULE MCWorkspace ----------------------------
EXTENDS WorkspaceSearch, TLC

\* Schedulers are alike, and so are the sources that were not imported from files
\* and the pages of an administrator.
Symmetry == Permutations(Schedulers) \cup Permutations(Ids \ FileBased) \cup Permutations(Pages)

\* A PDF that never ends and one that outgrows the heap, a healthy one, and
\* attachments that are lost, too large and plain text.
Documents == << << "book", "lost", "plain" >>, << "large", "hang", "pdf" >> >>

\* Two sources in one merge group and one alone.
Roots == [ s1 |-> "s1", s2 |-> "s1", s3 |-> "s3" ]
Words(subject, body, from, to) ==
    [ subject |-> subject, body |-> body, from |-> from, to |-> to, cc |-> {}, userEmail |-> {"z"} ]
Doc(id, source, userEmail, from, to, cc, timestamp, has, words) ==
    [ id |-> id, ingestionSourceId |-> source, userEmail |-> userEmail, from |-> from, to |-> to, cc |-> cc,
      timestamp |-> timestamp, hasAttachments |-> has, words |-> words ]
Index ==
    { Doc(1, "s1", "a", "a", {"b"}, {}, 2, "true", Words({"x"}, {"x", "y"}, {"a"}, {"b"})),
      Doc(2, "s2", "a", "b", {"a"}, {"b"}, 3, "false", Words({}, {"x"}, {"b"}, {"a", "b"})),
      Doc(3, "s3", "b", "a", {"b"}, {"a"}, 4, "absent", Words({"y"}, {}, {"a"}, {"b", "a"})),
      Doc(4, "s2", "a", "a", {"a"}, {}, 5, "absent", Words({"y"}, {"x"}, {"a"}, {"a"})),
      Doc(5, "s3", "b", "b", {"b"}, {}, 6, "true", Words({"x"}, {"y"}, {"b"}, {"b"})) }
Entries ==
    [ keywords |-> { << "x" >>, << "z", "y" >>, << >> }, matchingStrategy |-> {"all"},
      sources |-> {"s1", "s2", "s3"}, excludeSources |-> {"s1", "s2"},
      from |-> {"A", " a"}, notFrom |-> {"A"}, to |-> {" a"}, notTo |-> {"A", "b"},
      mailboxes |-> {"a", "b"}, searchIn |-> {"subject", "to"}, dateFrom |-> {1, 2}, dateTo |-> {1, 2},
      hasAttachments |-> {"true", "false"}, sort |-> {"date_asc", "relevance"} ]
Addresses ==
    { << >>, [ sort |-> "date_asc" ], [ dateFrom |-> 99, keywords |-> << "x" >> ],
      [ sources |-> {"s1", "junk"} ],
      [ sources |-> {" ", "gone"}, hasAttachments |-> "maybe" ],
      [ excludeSources |-> {"s1"}, sources |-> {"s2", "s3"}, notTo |-> {" "} ] }
Filters == { [ kind |-> "full" ], [ kind |-> "nothing" ], [ kind |-> "filter", sources |-> {"s2", "s3"} ] }

\* A blank, a chip with a blank before it, and pasted lists that repeat one.
Drafts == { "", " ", "x", " x", "y" }
Pastes == { << "x", " " >>, << "z", " x", "y" >> }
Suggestions == { << >>, << "x" >>, << "y", "x" >> }

\* An address in two spellings and another.
LowerCase == [ a \in {"a", "A", "b"} |-> IF a = "A" THEN "a" ELSE a ]

\* Two messages of one moment in a merge group, and one of another.
Message(id, source, root, date) == [ id |-> id, source |-> source, root |-> root, date |-> date ]
Inbox ==
    { Message(1, "s1", "s1", 3), Message(2, "s2", "s1", 2), Message(3, "s1", "s1", 2), Message(4, "s3", "s3", 1) }

\* A thread in two merge groups, with an altered, a lost and a garbled file, and
\* a message the reader may not open that carries the same attachment.
File(name, prefix, bytes) == [ name |-> name, prefix |-> prefix, bytes |-> bytes ]
Mail(id, root, thread, file, parts, parsable) ==
    [ id |-> id, root |-> root, thread |-> thread, file |-> file, parts |-> parts, parsable |-> parsable ]
Shared == File("shared", TRUE, "archived")
Hidden == Mail(5, "o", "u", File("d", FALSE, "archived"), {Shared}, TRUE)
Open ==
    { Mail(1, "r", "t", File("a", TRUE, "archived"), {Shared, File("p", FALSE, "altered")}, TRUE),
      Mail(2, "r", "t", File("b", FALSE, "archived"), {Shared, File("q", TRUE, "missing")}, TRUE),
      Mail(3, "r", "t", File("c", TRUE, "garbled"), {}, FALSE),
      Mail(4, "o", "t", File("a", TRUE, "archived"), {}, TRUE) }
Box == Open \cup {Hidden}
=============================================================================
