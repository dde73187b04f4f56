----------------------------- MODULE BlobStore -----------------------------
(***************************************************************************)
(* The content-addressed blob store                                        *)
(* (src/packages/roxabi-blobs/src/roxabi_blobs/fs_store.py): one file per  *)
(* content and an SQLite manifest of rows (one per content) and refs (one  *)
(* per ingestion).                                                         *)
(*                                                                         *)
(* A server process puts and deletes, one request at a time under its      *)
(* asyncio lock; the sweep command is a process of its own that only       *)
(* deletes.  Processes meet in the file system and in SQLite: a process    *)
(* that wrote holds the write lock until it commits, reads its own writes  *)
(* (work) and is seen by the others (db) only then.  A statement that      *)
(* fails raises without a rollback, so what the request wrote is committed *)
(* by the next request of that process, or lost with it.                   *)
(*                                                                         *)
(* Left out: waiting more than busy_timeout for the write lock.            *)
(* Bounds: MaxRefs puts, MaxFaults crashes and failing calls.              *)
(* A definition A_Word is a deliberate fault in A.                         *)
(***************************************************************************)
EXTENDS Integers, FiniteSets

CONSTANTS
  Servers,     \* processes that put and delete
  Sweepers,    \* processes that delete
  Contents,    \* contents, named by their hash
  None,
  MaxRefs,
  MaxFaults

ASSUME BlobStoreAssumption ==
  /\ MaxRefs \in Nat /\ MaxFaults \in Nat
  /\ None \notin Servers \cup Sweepers \cup Contents

Procs == Servers \cup Sweepers
Ids == 1 .. MaxRefs

VARIABLES
  file,      \* content -> "none", "partial" or "whole"
  db,        \* the committed manifest: rows and refs
  work,      \* the manifest of the open transaction
  locked,    \* the process with an open transaction
  of,        \* the content of each ref
  issued,    \* refs inserted so far
  pc,        \* where the request of a process is
  content,   \* its content
  ref,       \* its ref
  given,     \* refs returned by put that nobody has asked to delete
  torn,      \* history: contents of which only a part may have been written
  raced,     \* history: contents one process put while another deleted them
  faults

vars == <<file, db, work, locked, of, issued, pc, content, ref, given, torn,
          raced, faults>>

Empty == [rows |-> {}, refs |-> {}]

Init ==
  /\ file = [c \in Contents |-> "none"]
  /\ db = Empty /\ work = Empty
  /\ locked = None
  /\ of = [r \in Ids |-> None]
  /\ issued = 0
  /\ pc = [p \in Procs |-> "idle"]
  /\ content = [p \in Procs |-> None]
  /\ ref = [p \in Procs |-> 0]
  /\ given = {} /\ torn = {} /\ raced = {}
  /\ faults = 0

Fault == faults < MaxFaults /\ faults' = faults + 1
Goto(p, l) == pc' = [pc EXCEPT ![p] = l]

\* What a process reads, and a statement of a process that writes manifest m.
View(p) == IF locked = p THEN work ELSE db
MayWrite(p) == locked \in {None, p}
Write(p, m) == MayWrite(p) /\ locked' = p /\ work' = m

\* conn.commit, which does nothing without an open transaction.
Commit(p) ==
  /\ db' = View(p)
  /\ locked' = IF locked = p THEN None ELSE locked
  /\ work' = IF locked = p THEN Empty ELSE work

---------------------------------------------------------------------------
(* put.                                                                    *)

\* _lookup_existing.
Put(p, c) ==
  /\ pc[p] = "idle" /\ issued < MaxRefs
  /\ content' = [content EXCEPT ![p] = c]
  /\ Goto(p, IF c \in View(p).rows THEN "ref" ELSE "open")
  /\ UNCHANGED <<file, db, work, locked, of, issued, ref, given, torn, faults>>

\* os.open with O_EXCL: a file that exists is trusted.
Open(p) ==
  LET c == content[p] IN
  /\ pc[p] = "open"
  /\ IF file[c] = "none"
       THEN file' = [file EXCEPT ![c] = "partial"] /\ Goto(p, "write")
       ELSE Goto(p, "row") /\ UNCHANGED file
  /\ UNCHANGED <<db, work, locked, of, issued, content, ref, given, torn,
                 faults>>

\* os.write and the two fsyncs, when the whole content is written; if another
\* process has unlinked the file meanwhile, there is none to be found.
WriteFile(p) ==
  /\ pc[p] = "write"
  /\ file' = [file EXCEPT ![content[p]] = IF @ = "none" THEN @ ELSE "whole"]
  /\ Goto(p, "row")
  /\ UNCHANGED <<db, work, locked, of, issued, content, ref, given, torn,
                 faults>>

\* os.write may write less than it was given; its result is not looked at.
WriteShort(p) ==
  /\ pc[p] = "write"
  /\ Fault
  /\ torn' = torn \cup {content[p]}
  /\ Goto(p, "row")
  /\ UNCHANGED <<file, db, work, locked, of, issued, content, ref, given>>

\* Fault: the partial file stays.
WriteFails_KeepsFile(p) ==
  /\ pc[p] = "write"
  /\ Fault
  /\ Goto(p, "idle")
  /\ UNCHANGED <<file, db, work, locked, of, issued, content, ref, given,
                 torn>>

WriteFails(p) ==
  /\ pc[p] = "write"
  /\ Fault
  /\ file' = [file EXCEPT ![content[p]] = "none"]
  /\ Goto(p, "idle")
  /\ UNCHANGED <<db, work, locked, of, issued, content, ref, given, torn>>

\* INSERT OR IGNORE INTO blobs.
InsertRow(p) ==
  /\ pc[p] = "row"
  /\ Write(p, [View(p) EXCEPT !.rows = @ \cup {content[p]}])
  /\ Goto(p, "ref")
  /\ UNCHANGED <<file, db, of, issued, content, ref, given, torn, faults>>

\* INSERT INTO blob_refs.
InsertRef(p) ==
  /\ pc[p] = "ref" /\ issued < MaxRefs
  /\ issued' = issued + 1
  /\ of' = [of EXCEPT ![issued + 1] = content[p]]
  /\ ref' = [ref EXCEPT ![p] = issued + 1]
  /\ Write(p, [View(p) EXCEPT !.refs = @ \cup {issued + 1}])
  /\ Goto(p, "commit")
  /\ UNCHANGED <<file, db, content, given, torn, faults>>

CommitPut(p) ==
  /\ pc[p] = "commit"
  /\ Commit(p)
  /\ given' = given \cup {ref[p]}
  /\ Goto(p, "idle")
  /\ UNCHANGED <<file, of, issued, content, ref, torn, faults>>

---------------------------------------------------------------------------
(* delete, by a request or for a ref of the sweep's snapshot.              *)

\* SELECT r.content_hash: a ref without a row is not found.
Delete(p, r) ==
  /\ pc[p] = "idle"
  /\ r \in View(p).refs /\ of[r] \in View(p).rows
  /\ content' = [content EXCEPT ![p] = of[r]]
  /\ ref' = [ref EXCEPT ![p] = r]
  /\ given' = given \ {r}
  /\ Goto(p, "drop")
  /\ UNCHANGED <<file, db, work, locked, of, issued, torn, faults>>

DropRef(p) ==
  /\ pc[p] = "drop"
  /\ Write(p, [View(p) EXCEPT !.refs = @ \ {ref[p]}])
  /\ Goto(p, "count")
  /\ UNCHANGED <<file, db, of, issued, content, ref, given, torn, faults>>

RefsOf(m, c) == {r \in m.refs : of[r] = c}

\* Fault: the file is removed before the commit.
DropRow_Unlinks(p) ==
  /\ pc[p] = "count"
  /\ IF RefsOf(work, content[p]) = {}
       THEN /\ work' = [work EXCEPT !.rows = @ \ {content[p]}]
            /\ file' = [file EXCEPT ![content[p]] = "none"]
            /\ Goto(p, "dropped")
       ELSE Goto(p, "kept") /\ UNCHANGED <<work, file>>
  /\ UNCHANGED <<db, locked, of, issued, content, ref, given, torn, faults>>

\* Fault: off by one, the row stays with no ref.
DropRow_Late(p) ==
  /\ pc[p] = "count"
  /\ Goto(p, "kept")
  /\ UNCHANGED <<file, db, work, locked, of, issued, content, ref, given,
                 torn, faults>>

\* SELECT COUNT, DELETE FROM blobs.
DropRow(p) ==
  /\ pc[p] = "count"
  /\ IF RefsOf(work, content[p]) = {}
       THEN /\ work' = [work EXCEPT !.rows = @ \ {content[p]}]
            /\ Goto(p, "dropped")
       ELSE Goto(p, "kept") /\ UNCHANGED work
  /\ UNCHANGED <<file, db, locked, of, issued, content, ref, given, torn,
                 faults>>

CommitDelete(p) ==
  /\ pc[p] \in {"dropped", "kept"}
  /\ Commit(p)
  /\ Goto(p, IF pc[p] = "dropped" THEN "unlink" ELSE "idle")
  /\ UNCHANGED <<file, of, issued, content, ref, given, torn, faults>>

Unlink(p) ==
  /\ pc[p] = "unlink"
  /\ file' = [file EXCEPT ![content[p]] = "none"]
  /\ Goto(p, "idle")
  /\ UNCHANGED <<db, work, locked, of, issued, content, ref, given, torn,
                 faults>>

---------------------------------------------------------------------------
(* Faults.                                                                 *)

\* A statement, a commit or the unlink raises; the transaction stays open.
\* (The sweep command ends with the exception: Crash.)
Fails(p) ==
  /\ p \in Servers
  /\ pc[p] \in {"row", "ref", "commit", "drop", "count", "dropped", "kept",
                "unlink"}
  /\ Fault
  /\ Goto(p, "idle")
  /\ UNCHANGED <<file, db, work, locked, of, issued, content, ref, given,
                 torn>>

\* The process stops at any point and is started again.
Crash(p) ==
  /\ Fault
  /\ Goto(p, "idle")
  /\ locked' = IF locked = p THEN None ELSE locked
  /\ work' = IF locked = p THEN Empty ELSE work
  /\ torn' = IF pc[p] = "write" THEN torn \cup {content[p]} ELSE torn
  /\ UNCHANGED <<file, db, of, issued, content, ref, given>>

\* p puts c while q deletes it.
Raced(c) ==
  \E p, q \in Procs :
    /\ p # q /\ content[p] = c /\ content[q] = c
    /\ pc[p] \in {"open", "write", "row", "ref", "commit"}
    /\ pc[q] \in {"drop", "count", "dropped", "kept", "unlink"}

Step ==
  \/ \E p \in Servers, c \in Contents : Put(p, c)
  \/ \E p \in Procs, r \in Ids : Delete(p, r)
  \/ \E p \in Procs :
       \/ Open(p) \/ WriteFile(p) \/ WriteShort(p) \/ WriteFails(p)
       \/ InsertRow(p) \/ InsertRef(p) \/ CommitPut(p)
       \/ DropRef(p) \/ DropRow(p) \/ CommitDelete(p) \/ Unlink(p)
       \/ Fails(p) \/ Crash(p)

Next == Step /\ raced' = raced \cup {c \in Contents : Raced(c)'}

Spec == Init /\ [][Next]_vars

---------------------------------------------------------------------------
(* Properties.                                                             *)

Manifests == [rows : SUBSET Contents, refs : SUBSET Ids]

\* Every variable keeps its type, and without a transaction nothing is pending.
TypeOK ==
  /\ file \in [Contents -> {"none", "partial", "whole"}]
  /\ db \in Manifests /\ work \in Manifests
  /\ locked \in Procs \cup {None}
  /\ locked = None => work = Empty
  /\ of \in [Ids -> Contents \cup {None}]
  /\ issued \in 0 .. MaxRefs
  /\ pc \in [Procs -> {"idle", "open", "write", "row", "ref", "commit",
                       "drop", "count", "dropped", "kept", "unlink"}]
  /\ content \in [Procs -> Contents \cup {None}]
  /\ ref \in [Procs -> 0 .. MaxRefs]
  /\ given \subseteq Ids /\ torn \subseteq Contents
  /\ raced \subseteq Contents
  /\ faults \in Nat

\* A committed ref has its row and a committed row its file, whatever fails or
\* crashes in the middle of a put or a delete, but for a content that one
\* process put while another deleted it: the manifest enforces no foreign key;
\* the row is inserted before its ref and dropped by the count of refs, the
\* file is written before the row is committed and removed after it (put,
\* delete).
ManifestBacked ==
  /\ \A r \in db.refs : of[r] \in db.rows \cup raced
  /\ \A c \in db.rows \ raced : file[c] # "none"

\* What put returned can be read back until somebody deletes that ref, over
\* crashes, failed requests and deletes of other refs of the same content by
\* this process and the sweep; but for a content whose writer crashed in the
\* middle of the file or whose os.write wrote only a part (torn), and for one
\* that was deleted during a put (_write_blob_file, put, delete).
PutsReadable ==
  \A r \in given :
    of[r] \notin raced =>
      /\ r \in db.refs /\ of[r] \in db.rows
      /\ file[of[r]] = "whole" \/ of[r] \in torn

\* As long as nothing failed, a content is stored while it has a ref, no
\* longer: when no request is under way, the files, the rows and the contents
\* of the refs are the same (delete), for the server and the sweep together.
NothingLeaks ==
  faults = 0 /\ (\A p \in Procs : pc[p] = "idle") =>
    /\ db.rows \ raced = {of[r] : r \in db.refs} \ raced
    /\ {c \in Contents : file[c] # "none"} \ raced = db.rows \ raced
=============================================================================
