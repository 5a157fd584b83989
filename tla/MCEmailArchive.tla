--------------------------- MODULE MCEmailArchive ---------------------------
(* Small instances of EmailArchive for TLC, in three worlds.  Mail that is  *)
(* archived: three copies of a message without a Message-ID in two          *)
(* mailboxes and at three paths, or two of them beside a message with one   *)
(* that wants the path of the first.  Mail of which two messages are        *)
(* deleted again: the copies two mailboxes hold of a message, whose bytes   *)
(* differ, beside a message without a Message-ID that aims at their path.   *)
(* All carry the same attachment, one a second one, and the job's cache     *)
(* holds a single promise.                                                 *)
EXTENDS EmailArchive, TLC

CONSTANTS a1, a2, a3, a4, d1, d2, d3, anna, bert, c1, c2, c3, c4, k, g1, g2, g3, p, q, r, h, i,
          none, nothing, norow

Copies == { a2, a3, a4 }
Mixed == { a1, a2, a4 }
Shared == { d1, d2, d3 }
Messages == Copies \cup Mixed \cup Shared
ThreeWorlds == { Copies, Mixed, Shared }
Deleted == { d1, d2 }
Mailbox == (a1 :> bert @@ a2 :> bert @@ a3 :> bert @@ a4 :> anna @@
            d1 :> anna @@ d2 :> bert @@ d3 :> bert)
Content == (a1 :> c4 @@ a2 :> c3 @@ a3 :> c3 @@ a4 :> c3 @@ d1 :> c1 @@ d2 :> c2 @@ d3 :> c3)
Key == (a1 :> k @@ a2 :> g1 @@ a3 :> g2 @@ a4 :> g3 @@ d1 :> k @@ d2 :> k @@ d3 :> g1)
Path == (a1 :> p @@ a2 :> p @@ a3 :> q @@ a4 :> r @@ d1 :> p @@ d2 :> p @@ d3 :> p)
HeaderInContent == (c1 :> k @@ c2 :> k @@ c3 :> none @@ c4 :> k)
PartsInContent == (c1 :> {h} @@ c2 :> {h} @@ c3 :> {h} @@ c4 :> {h, i})
=============================================================================
