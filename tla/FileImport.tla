---------------------------- MODULE FileImport -----------------------------
(***************************************************************************)
(* Imports of PST, EML and Mbox files side by side on one host             *)
(* (PSTConnector, EMLConnector, MboxConnector): the working copies they    *)
(* make in the temp directory, the sweep of copies left by dead workers,   *)
(* what each does about a message it cannot read, and when it deletes the  *)
(* upload.  An import lists its mailbox in one job and reads it in a       *)
(* second; both may fail and be started again by the user.                 *)
(***************************************************************************)
EXTENDS Naturals, FiniteSets

CONSTANTS
    Imports,
    Pids,           \* process ids of the host; a dead one may be given out again
    NoPid,
    Entries,        \* the messages of each file
    Unreadable,     \* those that cannot be parsed
    Env,            \* what may go wrong: a dead worker, an unreadable stream, a
                    \* sentinel that cannot be written, a folder cut short
    Budget          \* bound: how often it goes wrong, and failed imports are retried

FileAssumption ==
    /\ NoPid \notin Pids /\ Unreadable \subseteq Entries /\ Budget \in Nat

VARIABLES
    imports,    \* the source and the job of each import
    host,       \* the worker processes and the temp directory
    faults      \* how often the environment struck

vars == << imports, host, faults >>

Kinds == { "pst", "eml", "mbox" }

\* A working copy: who recorded itself as its owner, and whether it has not
\* been written to for PST_TEMP_STALE_MS.
Copies == [ kind : Kinds, owner : Pids \cup {NoPid}, old : BOOLEAN ]

Import ==
    [ kind : Kinds,
      uploaded : BOOLEAN,       \* an upload in storage rather than a local path
      upload : BOOLEAN,         \* it is still there
      job : { "list", "fetch" },
      pc : { "idle", "load", "sentinel", "copy", "read", "close", "done", "failed" },
      pid : Pids \cup {NoPid},  \* the process that runs the job
      copy : SUBSET Copies,     \* its working copy, if it has one
      marked : BOOLEAN,         \* it could leave its sentinel
      left : SUBSET Entries,    \* messages still to be read
      offered : SUBSET Entries, \* messages handed to the mailbox job
      thrown : BOOLEAN ]        \* the job is on its way out with an error

Host == [ dead : SUBSET Pids, litter : SUBSET Copies ]

TypeOK ==
    /\ imports \in [Imports -> Import] /\ host \in Host /\ faults \in 0 .. Budget
    /\ \A i \in Imports : Cardinality(imports[i].copy) <= 1

Init ==
    /\ \E kind \in [Imports -> Kinds], uploaded \in [Imports -> BOOLEAN] :
          imports = [ i \in Imports |->
              [ kind |-> kind[i], uploaded |-> uploaded[i], upload |-> uploaded[i],
                job |-> "list", pc |-> "idle", pid |-> NoPid, copy |-> {}, marked |-> FALSE,
                left |-> {}, offered |-> {}, thrown |-> FALSE ] ]
    /\ host = [ dead |-> {}, litter |-> {} ]
    /\ faults = 0

Strikes(kind) == kind \in Env /\ faults < Budget /\ faults' = faults + 1

-----------------------------------------------------------------------------
(* loadPstFile and the beginnings of the other two                         *)

\* Only PST files are opened to list their mailbox.
Opens(imp) == imp.kind = "pst" \/ imp.job = "fetch"

\* PST uploads are copied to where they can be seeked in, zips always.
Copied(imp) == imp.kind = "eml" \/ (imp.kind = "pst" /\ imp.uploaded)

\* A worker takes the job.
Begin(i, p) ==
    LET imp == imports[i] IN
    /\ imp.pc = "idle" /\ p \notin host.dead
    /\ imports' = IF Opens(imp)
                  THEN [ imports EXCEPT ![i].pc = "load", ![i].pid = p, ![i].marked = FALSE ]
                  ELSE [ imports EXCEPT ![i].job = "fetch" ]
    /\ UNCHANGED << host, faults >>

\* Fault: copies are judged by their age.
Removable_Fault(copy) == copy.kind = "pst" /\ copy.old

\* A copy with a known owner goes when that process is gone; one without when
\* it is old.
Removable(copy) ==
    /\ copy.kind = "pst"
    /\ IF copy.owner # NoPid THEN copy.owner \in host.dead ELSE copy.old

\* sweepStalePstTempDirs.  Each copy is judged by itself, and no verdict can
\* change between the reading of the sentinel and the removal.
Swept(i) ==
    IF imports[i].kind = "pst" /\ imports[i].uploaded
    THEN { c \in Copies : Removable(c) }
    ELSE {}

\* The stream cannot be opened: no upload any more.
Openable(imp) == imp.uploaded => imp.upload

\* The sweep, the stream, and a directory of its own.
Load(i) ==
    LET imp == imports[i] IN
    /\ imp.pc = "load"
    /\ host' = [ host EXCEPT !.litter = @ \ Swept(i) ]
    /\ imports' = [ j \in Imports |->
          IF j # i THEN [ imports[j] EXCEPT !.copy = @ \ Swept(i) ]
          ELSE IF ~ Openable(imp) THEN [ imp EXCEPT !.pc = "close", !.thrown = TRUE ]
          ELSE IF ~ Copied(imp) THEN [ imp EXCEPT !.pc = "read", !.left = Entries ]
          ELSE [ imp EXCEPT !.pc = IF imp.kind = "pst" THEN "sentinel" ELSE "copy",
                            !.copy = { [ kind |-> imp.kind, owner |-> NoPid, old |-> FALSE ] } ] ]
    /\ UNCHANGED faults

\* Best effort: without a sentinel the copy is judged by its age.
Sentinel(i) ==
    LET imp == imports[i] IN
    /\ imp.pc = "sentinel"
    /\ \/ /\ imports' = [ imports EXCEPT ![i].pc = "copy", ![i].marked = TRUE,
                            ![i].copy = { [ c EXCEPT !.owner = imp.pid ] : c \in @ } ]
          /\ UNCHANGED faults
       \/ /\ Strikes("sentinelFail")
          /\ imports' = [ imports EXCEPT ![i].pc = "copy" ]
    /\ UNCHANGED host

Copy(i) ==
    /\ imports[i].pc = "copy"
    /\ imports' = [ imports EXCEPT ![i].pc = "read", ![i].left = Entries ]
    /\ UNCHANGED << host, faults >>

\* The source stream breaks off, or a local file cannot be read.  A PST import
\* that is still copying does not know its directory yet: the copy stays.
StreamFails(i) ==
    LET forgotten == imports[i].kind = "pst" /\ imports[i].pc = "copy" IN
    /\ imports[i].pc \in { "copy", "read" }
    /\ Strikes("streamFail")
    /\ imports' = [ imports EXCEPT ![i].pc = "close", ![i].thrown = TRUE,
                                   ![i].copy = IF forgotten THEN {} ELSE @ ]
    /\ host' = IF forgotten THEN [ host EXCEPT !.litter = @ \cup imports[i].copy ] ELSE host

-----------------------------------------------------------------------------
(* Reading                                                                 *)

\* listAllUsers looks at the root folder only.
Listed(i) ==
    /\ imports[i].pc = "read" /\ imports[i].job = "list"
    /\ imports' = [ imports EXCEPT ![i].pc = "close", ![i].left = {} ]
    /\ UNCHANGED << host, faults >>

\* PST messages are rebuilt as RFC 822 text first.
Parses(e) == e \notin Unreadable

\* An unreadable message ends the import of a PST; the other two skip it, and
\* nobody counts it.
Skips(imp) == imp.kind # "pst"

\* One message.
Read(i, e) ==
    LET imp == imports[i] IN
    /\ imp.pc = "read" /\ imp.job = "fetch" /\ e \in imp.left
    /\ imports' =
          IF Parses(e)
          THEN [ imports EXCEPT ![i].left = @ \ {e}, ![i].offered = @ \cup {e} ]
          ELSE IF Skips(imp)
          THEN [ imports EXCEPT ![i].left = @ \ {e} ]
          ELSE [ imports EXCEPT ![i].pc = "close", ![i].thrown = TRUE ]
    /\ UNCHANGED << host, faults >>

\* A PST folder whose next message cannot be found ends there, without an error.
FolderCutShort(i) ==
    /\ imports[i].pc = "read" /\ imports[i].job = "fetch" /\ imports[i].kind = "pst"
    /\ Strikes("cutShort")
    /\ \E rest \in SUBSET imports[i].left \ {{}} :
          imports' = [ imports EXCEPT ![i].left = @ \ rest ]
    /\ UNCHANGED host

ReadAll(i) ==
    /\ imports[i].pc = "read" /\ imports[i].job = "fetch" /\ imports[i].left = {}
    /\ imports' = [ imports EXCEPT ![i].pc = "close" ]
    /\ UNCHANGED << host, faults >>

\* PST and EML delete the upload in a finally, whatever happened; an EML whose
\* stream never opened has not got there.  Mbox deletes it after the last message.
Deletes(imp) ==
    /\ imp.job = "fetch" /\ imp.uploaded
    /\ CASE imp.kind = "pst" -> TRUE
         [] imp.kind = "eml" -> Openable(imp)
         [] imp.kind = "mbox" -> ~ imp.thrown

\* The working copy goes, then the upload; then the second job follows the first.
Close(i) ==
    LET imp == imports[i]
        listed == imp.job = "list" /\ ~ imp.thrown
    IN
    /\ imp.pc = "close"
    /\ imports' = [ imports EXCEPT ![i] =
          [ imp EXCEPT !.pc = IF listed THEN "idle" ELSE IF imp.thrown THEN "failed" ELSE "done",
                       !.job = IF listed THEN "fetch" ELSE @,
                       !.pid = NoPid, !.copy = {}, !.left = {},
                       !.upload = @ /\ ~ Deletes(imp) ] ]
    /\ UNCHANGED << host, faults >>

-----------------------------------------------------------------------------
(* The user and the host                                                   *)

\* A failed import is started again.
Retry(i) ==
    /\ imports[i].pc = "failed" /\ Strikes("retry")
    /\ imports' = [ imports EXCEPT ![i].pc = "idle", ![i].job = "list", ![i].thrown = FALSE,
                                   ![i].offered = {} ]
    /\ UNCHANGED host

\* Six hours without a write to the copy.
Ages(i) ==
    /\ imports[i].pc \in { "copy", "read" }
    /\ \E c \in imports[i].copy : ~ c.old
    /\ imports' = [ imports EXCEPT ![i].copy = { [ c EXCEPT !.old = TRUE ] : c \in @ } ]
    /\ UNCHANGED << host, faults >>

\* A worker is killed: its jobs fail, its copies stay.
Killed(p) ==
    LET hit == { i \in Imports : imports[i].pid = p } IN
    /\ hit # {} /\ Strikes("crash")
    /\ host' = [ dead |-> host.dead \cup {p},
                 litter |-> host.litter \cup UNION { imports[i].copy : i \in hit } ]
    /\ imports' = [ i \in Imports |->
          IF i \in hit THEN [ imports[i] EXCEPT !.pc = "failed", !.pid = NoPid, !.copy = {},
                                                !.left = {} ]
          ELSE imports[i] ]

\* A new process gets the number.
Restarted(p) ==
    /\ p \in host.dead
    /\ host' = [ host EXCEPT !.dead = @ \ {p} ]
    /\ UNCHANGED << imports, faults >>

-----------------------------------------------------------------------------
ImportStep(i) ==
    \/ (\E p \in Pids : Begin(i, p))
    \/ Load(i) \/ Sentinel(i) \/ Copy(i) \/ StreamFails(i)
    \/ Listed(i) \/ (\E e \in Entries : Read(i, e)) \/ FolderCutShort(i) \/ ReadAll(i)
    \/ Close(i)

Next ==
    \/ \E i \in Imports : ImportStep(i) \/ Retry(i) \/ Ages(i)
    \/ \E p \in Pids : Killed(p) \/ Restarted(p)

Spec == Init /\ [][Next]_vars

-----------------------------------------------------------------------------
\* No sweep removes the copy an import is reading, for however many hours it
\* reads and whatever process numbers are given out again, if it could leave
\* its sentinel.
CopyKept ==
    \A i \in Imports :
        imports[i].pc \in { "copy", "read" } /\ imports[i].marked => imports[i].copy # {}
=============================================================================
