-------------------------- MODULE BlobStoreProofs --------------------------
(***************************************************************************)
(* Files, rows and refs agree, for any number of contents, refs, sweeps and *)
(* failures, as long as one server process puts.  With two of them a put    *)
(* that fails while it writes would remove the file another one trusted.    *)
(***************************************************************************)
EXTENDS BlobStore, TLAPS

Putting  == {"open", "write", "row", "ref", "commit"}
Deleting == {"drop", "count", "dropped", "kept", "unlink"}
Counting == {"count", "dropped", "kept"}

(***************************************************************************)
(* The inductive invariant.                                                 *)
(***************************************************************************)
Typed ==
  /\ file \in [Contents -> {"none", "partial", "whole"}]
  /\ db \in Manifests /\ work \in Manifests
  /\ locked \in Procs \cup {None} /\ (locked = None => work = Empty)
  /\ of \in [Ids -> Contents \cup {None}]
  /\ issued \in 0 .. MaxRefs
  /\ db.refs \cup work.refs \subseteq 1 .. issued
  /\ pc \in [Procs -> Putting \cup Deleting \cup {"idle"}]
  /\ content \in [Procs -> Contents \cup {None}]
  /\ ref \in [Procs -> 0 .. issued]
  /\ given \subseteq 1 .. issued /\ torn \subseteq Contents \cup {None}
  /\ raced \subseteq Contents
  /\ \A p \in Procs : pc[p] # "idle" => content[p] \in Contents
  /\ \A p \in Procs : pc[p] \in Putting => p \in Servers

\* Whoever counts or has dropped a row holds the write lock, a sweep holds
\* it for its delete only, and a put that may commit holds it too.
Locks ==
  /\ \A p \in Procs : pc[p] \in Counting \cup {"commit"} => locked = p
  /\ \A p \in Procs \ Servers :
       locked = p => /\ pc[p] \in Counting
                     /\ db.rows \ {content[p]} \subseteq work.rows

\* A manifest whose refs have rows and whose rows have files.
Backed(m) ==
  /\ \A r \in m.refs : of[r] \in m.rows \cup raced
  /\ \A c \in m.rows \ raced :
       file[c] # "none" /\ (file[c] = "whole" \/ c \in torn)

\* No row of the content in either manifest.
Rowless(c) == c \in raced \/ c \notin db.rows \cup work.rows

\* Where a request is tells what is true of its content.
Requests ==
  /\ \A c \in Contents : Raced(c) => c \in raced
  /\ \A p \in Procs :
       LET c == content[p] IN
       /\ pc[p] = "write" => Rowless(c) /\ (c \in raced \/ file[c] # "none")
       /\ pc[p] = "row" =>
            c \in raced \/ (file[c] # "none" /\ (file[c] = "whole" \/ c \in torn))
       /\ pc[p] = "ref" => c \in View(p).rows \cup raced
       /\ pc[p] = "commit" => ref[p] \in work.refs \ db.refs
       /\ pc[p] = "dropped" => c \notin work.rows
       /\ pc[p] = "unlink" => Rowless(c)
  /\ \A c \in Contents : file[c] = "partial" =>
       c \in torn \/ \E p \in Procs : pc[p] = "write" /\ content[p] = c

\* What put returned stays in the manifests until somebody deletes it.
Returned ==
  /\ given \subseteq db.refs
  /\ locked # None => given \subseteq work.refs
  /\ \A p \in Procs : pc[p] \in Deleting =>
       /\ ref[p] \notin given
       /\ \A q \in Procs : pc[q] = "commit" => ref[p] # ref[q]

IInv == Typed /\ Locks /\ Backed(db) /\ Backed(work) /\ Requests /\ Returned

\* Only one server runs (sweeps are separate processes).
OneServer == \A p, q \in Servers : p = q

\* What Next says of raced: it only grows, and by every conflict.
Racing ==
  /\ raced \subseteq raced' /\ raced' \subseteq Contents
  /\ \A p, q \in Procs :
       /\ p # q /\ pc'[p] \in Putting /\ pc'[q] \in Deleting
       /\ content'[p] \in Contents /\ content'[p] = content'[q]
       => content'[p] \in raced'

USE BlobStoreAssumption
    DEF Procs, Ids, Goto, Putting, Deleting, Counting, View, Manifests, Empty

LEMMA InitInv == ASSUME Init PROVE IInv
BY DEF Init, IInv, Typed, Locks, Backed, Requests, Raced, Rowless, Returned

LEMMA NextRaces == ASSUME Typed, Next PROVE Racing
BY DEF Typed, Next, Racing, Raced

\* Where no request changes place, nor the manifests, nothing is lost.
LEMMA Idles == ASSUME IInv, UNCHANGED vars PROVE IInv'
BY DEF vars, IInv, Typed, Locks, Backed, Requests, Raced, Rowless, Returned

LEMMA PutKeeps ==
  ASSUME IInv, OneServer, Racing, NEW p \in Servers, NEW c \in Contents, Put(p, c)
  PROVE  IInv'
<1>1. Typed'
  BY DEF Put, IInv, Typed, Racing
<1>2. Locks'
  BY DEF Put, IInv, Typed, Locks
<1>3. Backed(db)'
  BY DEF Put, IInv, Typed, Locks, Backed, Requests, Rowless, Racing
<1>4. Backed(work)'
  BY DEF Put, IInv, Typed, Locks, Backed, Requests, Rowless, Racing
<1>5. Requests'
  BY DEF Put, IInv, Typed, Locks, Backed, Requests, Raced, Rowless, Racing, OneServer
<1>6. Returned'
  BY DEF Put, IInv, Typed, Locks, Requests, Returned
<1> QED BY <1>1, <1>2, <1>3, <1>4, <1>5, <1>6 DEF IInv

LEMMA OpenKeeps ==
  ASSUME IInv, OneServer, Racing, NEW p \in Procs, Open(p)
  PROVE  IInv'
<1>1. Typed'
  <2>1. content[p] \in Contents /\ p \in Servers
    BY DEF Open, IInv, Typed
  <2>2. /\ file' \in [Contents -> {"none", "partial", "whole"}]
        /\ pc' \in [Procs -> Putting \cup Deleting \cup {"idle"}]
        /\ \A q \in Procs \ {p} : pc'[q] = pc[q]
    BY <2>1 DEF Open, IInv, Typed
  <2>3. /\ \A q \in Procs : pc'[q] # "idle" => content'[q] \in Contents
        /\ \A q \in Procs : pc'[q] \in Putting => q \in Servers
    BY <2>1, <2>2 DEF Open, IInv, Typed
  <2> QED
    BY <2>2, <2>3 DEF Open, IInv, Typed, Racing
<1>2. Locks'
  BY DEF Open, IInv, Typed, Locks
<1>3. Backed(db)'
  BY DEF Open, IInv, Typed, Locks, Backed, Requests, Rowless, Racing
<1>4. Backed(work)'
  BY DEF Open, IInv, Typed, Locks, Backed, Requests, Rowless, Racing
<1>5. Requests'
  BY DEF Open, IInv, Typed, Locks, Backed, Requests, Raced, Rowless, Racing, OneServer
<1>6. Returned'
  BY DEF Open, IInv, Typed, Locks, Requests, Returned
<1> QED BY <1>1, <1>2, <1>3, <1>4, <1>5, <1>6 DEF IInv

LEMMA WriteFileKeeps ==
  ASSUME IInv, OneServer, Racing, NEW p \in Procs, WriteFile(p)
  PROVE  IInv'
<1>1. Typed'
  BY DEF WriteFile, IInv, Typed, Racing
<1>2. Locks'
  BY DEF WriteFile, IInv, Typed, Locks
<1>3. Backed(db)'
  BY DEF WriteFile, IInv, Typed, Locks, Backed, Requests, Rowless, Racing
<1>4. Backed(work)'
  BY DEF WriteFile, IInv, Typed, Locks, Backed, Requests, Rowless, Racing
<1>5. Requests'
  BY DEF WriteFile, IInv, Typed, Locks, Backed, Requests, Raced, Rowless, Racing, OneServer
<1>6. Returned'
  BY DEF WriteFile, IInv, Typed, Locks, Requests, Returned
<1> QED BY <1>1, <1>2, <1>3, <1>4, <1>5, <1>6 DEF IInv

LEMMA WriteShortKeeps ==
  ASSUME IInv, OneServer, Racing, NEW p \in Procs, WriteShort(p)
  PROVE  IInv'
<1>1. Typed'
  BY DEF WriteShort, IInv, Typed, Racing
<1>2. Locks'
  BY DEF WriteShort, IInv, Typed, Locks
<1>3. Backed(db)'
  BY DEF WriteShort, IInv, Typed, Locks, Backed, Requests, Rowless, Racing
<1>4. Backed(work)'
  BY DEF WriteShort, IInv, Typed, Locks, Backed, Requests, Rowless, Racing
<1>5. Requests'
  BY DEF WriteShort, IInv, Typed, Locks, Backed, Requests, Raced, Rowless, Racing, OneServer
<1>6. Returned'
  BY DEF WriteShort, IInv, Typed, Locks, Requests, Returned
<1> QED BY <1>1, <1>2, <1>3, <1>4, <1>5, <1>6 DEF IInv

LEMMA WriteFailsKeeps ==
  ASSUME IInv, OneServer, Racing, NEW p \in Procs, WriteFails(p)
  PROVE  IInv'
<1>1. Typed'
  BY DEF WriteFails, IInv, Typed, Racing
<1>2. Locks'
  BY DEF WriteFails, IInv, Typed, Locks
<1>3. Backed(db)'
  BY DEF WriteFails, IInv, Typed, Locks, Backed, Requests, Rowless, Racing
<1>4. Backed(work)'
  BY DEF WriteFails, IInv, Typed, Locks, Backed, Requests, Rowless, Racing
<1>5. Requests'
  BY DEF WriteFails, IInv, Typed, Locks, Backed, Requests, Raced, Rowless, Racing, OneServer
<1>6. Returned'
  BY DEF WriteFails, IInv, Typed, Locks, Requests, Returned
<1> QED BY <1>1, <1>2, <1>3, <1>4, <1>5, <1>6 DEF IInv

LEMMA InsertRowKeeps ==
  ASSUME IInv, OneServer, Racing, NEW p \in Procs, InsertRow(p)
  PROVE  IInv'
<1>1. Typed'
  <2>1. View(p) \in Manifests
    BY DEF IInv, Typed
  <2>2. content[p] \in Contents
    BY DEF InsertRow, IInv, Typed
  <2>3. /\ db' \in Manifests /\ db' = db
        /\ locked' = p /\ p # None
    BY DEF InsertRow, Write, IInv, Typed
  <2>4. work' \in Manifests /\ work'.refs = View(p).refs
    <3>1. work' = [View(p) EXCEPT !.rows = View(p).rows \cup {content[p]}]
      BY DEF InsertRow, Write
    <3> QED
      BY ONLY <2>1, <2>2, <3>1 DEF Manifests
  <2>5. db.refs \cup View(p).refs \subseteq 1 .. issued
    BY DEF IInv, Typed
  <2>6. /\ pc' \in [Procs -> Putting \cup Deleting \cup {"idle"}]
        /\ \A q \in Procs : pc'[q] # "idle" => content'[q] \in Contents
        /\ \A q \in Procs : pc'[q] \in Putting => q \in Servers
    BY DEF InsertRow, IInv, Typed
  <2> QED
    BY <2>3, <2>4, <2>5, <2>6 DEF InsertRow, IInv, Typed, Racing
<1>2. Locks'
  BY DEF InsertRow, Write, MayWrite, IInv, Typed, Locks
<1>3. Backed(db)'
  BY DEF InsertRow, Write, MayWrite, IInv, Typed, Locks, Backed, Requests, Rowless, Racing
<1>4. Backed(work)'
  BY DEF InsertRow, Write, MayWrite, IInv, Typed, Locks, Backed, Requests, Rowless, Racing
<1>5. Requests'
  BY DEF InsertRow, Write, MayWrite, IInv, Typed, Locks, Backed, Requests, Raced, Rowless, Racing, OneServer
<1>6. Returned'
  BY DEF InsertRow, Write, MayWrite, IInv, Typed, Locks, Requests, Returned
<1> QED BY <1>1, <1>2, <1>3, <1>4, <1>5, <1>6 DEF IInv

LEMMA InsertRefKeeps ==
  ASSUME IInv, OneServer, Racing, NEW p \in Procs, InsertRef(p)
  PROVE  IInv'
<1>1. Typed'
  <2>1. View(p) \in Manifests
    BY DEF IInv, Typed
  <2>2. /\ db' \in Manifests /\ work' \in Manifests
        /\ db' = db /\ work'.refs = View(p).refs \cup {issued + 1}
        /\ locked' = p /\ p # None
    BY <2>1 DEF InsertRef, Write, MayWrite, IInv, Typed
  <2>3. db.refs \cup View(p).refs \subseteq 1 .. issued
    BY DEF IInv, Typed
  <2>4. /\ pc' \in [Procs -> Putting \cup Deleting \cup {"idle"}]
        /\ \A q \in Procs : pc'[q] # "idle" => content'[q] \in Contents
        /\ \A q \in Procs : pc'[q] \in Putting => q \in Servers
    BY DEF InsertRef, IInv, Typed
  <2>5. /\ issued \in Nat /\ issued' = issued + 1 /\ issued' \in 0 .. MaxRefs
        /\ of' \in [Ids -> Contents \cup {None}]
        /\ ref' \in [Procs -> 0 .. issued']
        /\ given' \subseteq 1 .. issued'
    BY DEF InsertRef, IInv, Typed
  <2>6. db'.refs \cup work'.refs \subseteq 1 .. issued'
    BY <2>2, <2>3, <2>5
  <2> QED
    BY <2>2, <2>4, <2>5, <2>6 DEF InsertRef, IInv, Typed, Racing
<1>2. Locks'
  BY DEF InsertRef, Write, MayWrite, IInv, Typed, Locks
<1>3. Backed(db)'
  BY DEF InsertRef, Write, MayWrite, IInv, Typed, Locks, Backed, Requests, Rowless, Racing
<1>4. Backed(work)'
  BY DEF InsertRef, Write, MayWrite, IInv, Typed, Locks, Backed, Requests, Rowless, Racing
<1>5. Requests'
  BY DEF InsertRef, Write, MayWrite, IInv, Typed, Locks, Backed, Requests, Raced, Rowless, Racing, OneServer
<1>6. Returned'
  BY DEF InsertRef, Write, MayWrite, IInv, Typed, Locks, Requests, Returned
<1> QED BY <1>1, <1>2, <1>3, <1>4, <1>5, <1>6 DEF IInv

LEMMA CommitPutKeeps ==
  ASSUME IInv, OneServer, Racing, NEW p \in Procs, CommitPut(p)
  PROVE  IInv'
<1>1. Typed'
  <2>1. /\ locked = p /\ p # None
        /\ db' = work /\ locked' = None /\ work' = Empty
    BY DEF CommitPut, Commit, IInv, Typed, Locks
  <2>2. /\ pc' \in [Procs -> Putting \cup Deleting \cup {"idle"}]
        /\ \A q \in Procs : pc'[q] # "idle" => content'[q] \in Contents
        /\ \A q \in Procs : pc'[q] \in Putting => q \in Servers
    BY DEF CommitPut, IInv, Typed
  <2>3. given' \subseteq 1 .. issued'
    <3>1. ref[p] \in work.refs /\ given' = given \cup {ref[p]} /\ issued' = issued
      BY DEF CommitPut, IInv, Requests
    <3>2. work.refs \subseteq 1 .. issued /\ given \subseteq 1 .. issued
      BY DEF IInv, Typed
    <3> QED
      BY ONLY <3>1, <3>2
  <2>4. /\ db' \in Manifests /\ work' \in Manifests
        /\ db'.refs \cup work'.refs \subseteq 1 .. issued
    BY <2>1 DEF IInv, Typed
  <2> QED
    BY <2>1, <2>2, <2>3, <2>4 DEF CommitPut, IInv, Typed, Racing
<1>2. Locks'
  BY DEF CommitPut, Commit, IInv, Typed, Locks
<1>3. Backed(db)'
  BY DEF CommitPut, Commit, IInv, Typed, Locks, Backed, Requests, Rowless, Racing
<1>4. Backed(work)'
  BY DEF CommitPut, Commit, IInv, Typed, Locks, Backed, Requests, Rowless, Racing
<1>5. Requests'
  BY DEF CommitPut, Commit, IInv, Typed, Locks, Backed, Requests, Raced, Rowless, Racing, OneServer
<1>6. Returned'
  <2>1. /\ locked = p /\ p # None /\ db' = work /\ locked' = None
        /\ ref[p] \in work.refs /\ given' = given \cup {ref[p]} /\ ref' = ref
    BY DEF CommitPut, Commit, IInv, Typed, Locks, Requests
  <2>2. given' \subseteq db'.refs
    BY <2>1 DEF IInv, Returned
  <2>3. \A q \in Procs : pc'[q] # "idle" => pc'[q] = pc[q]
    BY DEF CommitPut, IInv, Typed
  <2>4. ASSUME NEW q \in Procs, pc'[q] \in Deleting
        PROVE  /\ ref'[q] \notin given'
               /\ \A o \in Procs : pc'[o] = "commit" => ref'[q] # ref'[o]
    <3>1. pc[q] \in Deleting
      BY <2>3, <2>4
    <3>2. /\ ref[q] \notin given
          /\ \A o \in Procs : pc[o] = "commit" => ref[q] # ref[o]
      BY <3>1 DEF IInv, Returned
    <3>3. pc[p] = "commit"
      BY DEF CommitPut
    <3> QED
      BY <2>1, <2>3, <3>2, <3>3
  <2> QED
    BY <2>1, <2>2, <2>4 DEF Returned
<1> QED BY <1>1, <1>2, <1>3, <1>4, <1>5, <1>6 DEF IInv

LEMMA DeleteKeeps ==
  ASSUME IInv, OneServer, Racing, NEW p \in Procs, NEW r \in Ids, Delete(p, r)
  PROVE  IInv'
<1>1. Typed'
  BY DEF Delete, IInv, Typed, Racing
<1>2. Locks'
  BY DEF Delete, IInv, Typed, Locks
<1>3. Backed(db)'
  BY DEF Delete, IInv, Typed, Locks, Backed, Requests, Rowless, Racing
<1>4. Backed(work)'
  BY DEF Delete, IInv, Typed, Locks, Backed, Requests, Rowless, Racing
<1>5. Requests'
  BY DEF Delete, IInv, Typed, Locks, Backed, Requests, Raced, Rowless, Racing, OneServer
<1>6. Returned'
  BY DEF Delete, IInv, Typed, Locks, Requests, Returned
<1> QED BY <1>1, <1>2, <1>3, <1>4, <1>5, <1>6 DEF IInv

LEMMA DropRefKeeps ==
  ASSUME IInv, OneServer, Racing, NEW p \in Procs, DropRef(p)
  PROVE  IInv'
<1>1. Typed'
  BY DEF DropRef, Write, MayWrite, IInv, Typed, Racing
<1>2. Locks'
  BY DEF DropRef, Write, MayWrite, IInv, Typed, Locks
<1>3. Backed(db)'
  BY DEF DropRef, Write, MayWrite, IInv, Typed, Locks, Backed, Requests, Rowless, Racing
<1>4. Backed(work)'
  BY DEF DropRef, Write, MayWrite, IInv, Typed, Locks, Backed, Requests, Rowless, Racing
<1>5. Requests'
  BY DEF DropRef, Write, MayWrite, IInv, Typed, Locks, Backed, Requests, Raced, Rowless, Racing, OneServer
<1>6. Returned'
  BY DEF DropRef, Write, MayWrite, IInv, Typed, Locks, Requests, Returned
<1> QED BY <1>1, <1>2, <1>3, <1>4, <1>5, <1>6 DEF IInv

LEMMA DropRowKeeps ==
  ASSUME IInv, OneServer, Racing, NEW p \in Procs, DropRow(p)
  PROVE  IInv'
<1>1. Typed'
  <2>1. locked = p /\ p # None
    BY DEF DropRow, IInv, Typed, Locks
  <2>2. work' \in Manifests /\ work'.refs = work.refs
    BY DEF DropRow, IInv, Typed
  <2>3. /\ pc' \in [Procs -> Putting \cup Deleting \cup {"idle"}]
        /\ \A q \in Procs : pc'[q] # "idle" => content'[q] \in Contents
        /\ \A q \in Procs : pc'[q] \in Putting => q \in Servers
    BY DEF DropRow, IInv, Typed
  <2> QED
    BY <2>1, <2>2, <2>3 DEF DropRow, IInv, Typed, Racing
<1>2. Locks'
  BY DEF DropRow, RefsOf, IInv, Typed, Locks
<1>3. Backed(db)'
  BY DEF DropRow, RefsOf, IInv, Typed, Locks, Backed, Requests, Rowless, Racing
<1>4. Backed(work)'
  BY DEF DropRow, RefsOf, IInv, Typed, Locks, Backed, Requests, Rowless, Racing
<1>5. Requests'
  BY DEF DropRow, RefsOf, IInv, Typed, Locks, Backed, Requests, Raced, Rowless, Racing, OneServer
<1>6. Returned'
  <2>1. /\ work'.refs = work.refs /\ db' = db /\ locked' = locked
        /\ ref' = ref /\ given' = given
    BY DEF DropRow, IInv, Typed
  <2>2. \A q \in Procs : /\ pc'[q] \in Deleting => pc[q] \in Deleting
                         /\ pc'[q] = "commit" => pc[q] = "commit"
    BY DEF DropRow, IInv, Typed
  <2> QED
    BY <2>1, <2>2 DEF IInv, Returned
<1> QED BY <1>1, <1>2, <1>3, <1>4, <1>5, <1>6 DEF IInv

LEMMA CommitDeleteKeeps ==
  ASSUME IInv, OneServer, Racing, NEW p \in Procs, CommitDelete(p)
  PROVE  IInv'
<1>1. Typed'
  BY DEF CommitDelete, Commit, IInv, Typed, Racing
<1>2. Locks'
  BY DEF CommitDelete, Commit, IInv, Typed, Locks
<1>3. Backed(db)'
  BY DEF CommitDelete, Commit, IInv, Typed, Locks, Backed, Requests, Rowless, Racing
<1>4. Backed(work)'
  BY DEF CommitDelete, Commit, IInv, Typed, Locks, Backed, Requests, Rowless, Racing
<1>5. Requests'
  BY DEF CommitDelete, Commit, IInv, Typed, Locks, Backed, Requests, Raced, Rowless, Racing, OneServer
<1>6. Returned'
  BY DEF CommitDelete, Commit, IInv, Typed, Locks, Requests, Returned
<1> QED BY <1>1, <1>2, <1>3, <1>4, <1>5, <1>6 DEF IInv

LEMMA UnlinkKeeps ==
  ASSUME IInv, OneServer, Racing, NEW p \in Procs, Unlink(p)
  PROVE  IInv'
<1>1. Typed'
  BY DEF Unlink, IInv, Typed, Racing
<1>2. Locks'
  BY DEF Unlink, IInv, Typed, Locks
<1>3. Backed(db)'
  BY DEF Unlink, IInv, Typed, Locks, Backed, Requests, Rowless, Racing
<1>4. Backed(work)'
  BY DEF Unlink, IInv, Typed, Locks, Backed, Requests, Rowless, Racing
<1>5. Requests'
  BY DEF Unlink, IInv, Typed, Locks, Backed, Requests, Raced, Rowless, Racing, OneServer
<1>6. Returned'
  BY DEF Unlink, IInv, Typed, Locks, Requests, Returned
<1> QED BY <1>1, <1>2, <1>3, <1>4, <1>5, <1>6 DEF IInv

LEMMA FailsKeeps ==
  ASSUME IInv, OneServer, Racing, NEW p \in Procs, Fails(p)
  PROVE  IInv'
<1>1. Typed'
  BY DEF Fails, IInv, Typed, Racing
<1>2. Locks'
  BY DEF Fails, IInv, Typed, Locks
<1>3. Backed(db)'
  BY DEF Fails, IInv, Typed, Locks, Backed, Requests, Rowless, Racing
<1>4. Backed(work)'
  BY DEF Fails, IInv, Typed, Locks, Backed, Requests, Rowless, Racing
<1>5. Requests'
  BY DEF Fails, IInv, Typed, Locks, Backed, Requests, Raced, Rowless, Racing, OneServer
<1>6. Returned'
  BY DEF Fails, IInv, Typed, Locks, Requests, Returned
<1> QED BY <1>1, <1>2, <1>3, <1>4, <1>5, <1>6 DEF IInv

LEMMA CrashKeeps ==
  ASSUME IInv, OneServer, Racing, NEW p \in Procs, Crash(p)
  PROVE  IInv'
<1>1. Typed'
  BY DEF Crash, IInv, Typed, Racing
<1>2. Locks'
  BY DEF Crash, IInv, Typed, Locks
<1>3. Backed(db)'
  BY DEF Crash, IInv, Typed, Locks, Backed, Requests, Rowless, Racing
<1>4. Backed(work)'
  BY DEF Crash, IInv, Typed, Locks, Backed, Requests, Rowless, Racing
<1>5. Requests'
  BY DEF Crash, IInv, Typed, Locks, Backed, Requests, Raced, Rowless, Racing, OneServer
<1>6. Returned'
  BY DEF Crash, IInv, Typed, Locks, Requests, Returned
<1> QED BY <1>1, <1>2, <1>3, <1>4, <1>5, <1>6 DEF IInv

LEMMA NextKeeps ==
  ASSUME OneServer, IInv, [Next]_vars
  PROVE  IInv'
<1>1. CASE UNCHANGED vars
  BY <1>1, Idles
<1>2. CASE Next
  <2>1. Racing
    BY <1>2, NextRaces DEF IInv
  <2> QED
    BY <1>2, <2>1, PutKeeps, OpenKeeps, WriteFileKeeps,
       WriteShortKeeps, WriteFailsKeeps,
       InsertRowKeeps, InsertRefKeeps, CommitPutKeeps, DeleteKeeps,
       DropRefKeeps, DropRowKeeps, CommitDeleteKeeps, UnlinkKeeps, FailsKeeps,
       CrashKeeps
       DEF Next, Step
<1> QED BY <1>1, <1>2

LEMMA Invariance == ASSUME OneServer PROVE Spec => []IInv
<1>1. Init => IInv
  BY InitInv
<1>2. IInv /\ [Next]_vars => IInv'
  BY NextKeeps
<1> QED BY <1>1, <1>2, PTL DEF Spec

\* A committed ref has its row and a committed row its file, whatever fails or
\* crashes between two statements of a put, a delete or a sweep, but for a
\* content that was put while another process deleted it.
THEOREM ManifestHolds == ASSUME OneServer PROVE Spec => []ManifestBacked
<1>1. IInv => ManifestBacked
  BY DEF IInv, Backed, ManifestBacked
<1> QED BY <1>1, Invariance, PTL

\* What put returned can be read until that ref is deleted.
THEOREM PutsStayReadable == ASSUME OneServer PROVE Spec => []PutsReadable
<1>1. IInv => PutsReadable
  BY DEF IInv, Typed, Backed, Returned, PutsReadable
<1> QED BY <1>1, Invariance, PTL

(***************************************************************************)
(* Nothing leaks while nothing fails.  A transaction is then only open in   *)
(* the middle of a request and pending only in its own content; a row whose *)
(* refs are gone is being counted, a file whose row is gone being unlinked. *)
(***************************************************************************)
HasRef(m, c) == \E r \in m.refs : of[r] = c

\* What holds of a request as long as nothing failed.
Orderly(p) ==
  /\ locked = p =>
       /\ pc[p] \in {"ref", "commit"} \cup Counting
       /\ \A c \in db.rows \ work.rows : pc[p] = "dropped" /\ c = content[p]
       /\ \A c \in work.rows \ raced :
            HasRef(work, c) \/ (pc[p] \in {"ref", "count"} /\ c = content[p])
  /\ pc[p] \in {"drop", "count"} => ref[p] \in Ids /\ of[ref[p]] = content[p]
  /\ pc[p] = "commit" => content[p] \in work.rows \cup raced

\* A request accounts for the file of its content: it writes or removes it, or
\* has not committed its row yet.
Owns(p, c) ==
  /\ content[p] = c
  /\ pc[p] \in {"write", "row", "ref", "commit", "unlink"}

Tight ==
  /\ \A p \in Procs : Orderly(p)
  /\ \A c \in db.rows \ raced : HasRef(db, c)
  /\ \A c \in Contents \ raced :
       file[c] = "none" \/ c \in db.rows \/ \E p \in Procs : Owns(p, c)

LEMMA InitTight == ASSUME Init PROVE Tight
BY DEF Init, Tight, Orderly, Counting

LEMMA PutTight ==
  ASSUME IInv, Racing, Tight, NEW p \in Servers, NEW d \in Contents, Put(p, d)
  PROVE  Tight'
<1>1. \A q \in Procs : Orderly(q)'
  BY DEF Put, IInv, Typed, Locks, Requests, Racing, Tight, Orderly, HasRef
<1>2. \A c \in db'.rows \ raced' : HasRef(db, c)'
  BY DEF Put, IInv, Typed, Locks, Racing, Tight, Orderly, HasRef
<1>3. \A c \in Contents \ raced' :
        file'[c] = "none" \/ c \in db'.rows \/ \E q \in Procs : Owns(q, c)'
  BY DEF Put, IInv, Typed, Locks, Requests, Racing, Tight, Orderly, Owns
<1> QED BY <1>1, <1>2, <1>3 DEF Tight

LEMMA DeleteTight ==
  ASSUME IInv, Racing, Tight, NEW p \in Procs, NEW r \in Ids, Delete(p, r)
  PROVE  Tight'
<1>1. \A q \in Procs : Orderly(q)'
  BY DEF Delete, IInv, Typed, Locks, Requests, Racing, Tight, Orderly, HasRef
<1>2. \A c \in db'.rows \ raced' : HasRef(db, c)'
  BY DEF Delete, IInv, Typed, Locks, Racing, Tight, Orderly, HasRef
<1>3. \A c \in Contents \ raced' :
        file'[c] = "none" \/ c \in db'.rows \/ \E q \in Procs : Owns(q, c)'
  BY DEF Delete, IInv, Typed, Locks, Requests, Racing, Tight, Orderly, Owns
<1> QED BY <1>1, <1>2, <1>3 DEF Tight

LEMMA OpenTight ==
  ASSUME IInv, Racing, Tight, NEW p \in Procs, Open(p)
  PROVE  Tight'
<1>1. \A q \in Procs : Orderly(q)'
  BY DEF Open, IInv, Typed, Locks, Requests, Racing, Tight, Orderly, HasRef
<1>2. \A c \in db'.rows \ raced' : HasRef(db, c)'
  BY DEF Open, IInv, Typed, Locks, Racing, Tight, Orderly, HasRef
<1>3. \A c \in Contents \ raced' :
        file'[c] = "none" \/ c \in db'.rows \/ \E q \in Procs : Owns(q, c)'
  <2>1. /\ Owns(p, content[p])' /\ content' = content /\ db' = db
        /\ \A c \in Contents : c # content[p] => file'[c] = file[c]
        /\ \A q \in Procs : q # p => pc'[q] = pc[q]
    BY DEF Open, IInv, Typed, Owns
  <2>2. \A q \in Procs, c \in Contents : c # content[p] /\ Owns(q, c) => Owns(q, c)'
    BY <2>1 DEF Owns
  <2> QED
    BY <2>1, <2>2 DEF Racing, Tight
<1> QED BY <1>1, <1>2, <1>3 DEF Tight

LEMMA WriteFileTight ==
  ASSUME IInv, Racing, Tight, NEW p \in Procs, WriteFile(p)
  PROVE  Tight'
<1>1. \A q \in Procs : Orderly(q)'
  BY DEF WriteFile, IInv, Typed, Locks, Requests, Racing, Tight, Orderly, HasRef
<1>2. \A c \in db'.rows \ raced' : HasRef(db, c)'
  BY DEF WriteFile, IInv, Typed, Locks, Racing, Tight, Orderly, HasRef
<1>3. \A c \in Contents \ raced' :
        file'[c] = "none" \/ c \in db'.rows \/ \E q \in Procs : Owns(q, c)'
  BY DEF WriteFile, IInv, Typed, Locks, Requests, Racing, Tight, Orderly, Owns
<1> QED BY <1>1, <1>2, <1>3 DEF Tight

LEMMA InsertRowTight ==
  ASSUME IInv, Racing, Tight, NEW p \in Procs, InsertRow(p)
  PROVE  Tight'
<1>1. \A q \in Procs : Orderly(q)'
  BY DEF InsertRow, Write, MayWrite, IInv, Typed, Locks, Requests, Racing, Tight, Orderly, HasRef
<1>2. \A c \in db'.rows \ raced' : HasRef(db, c)'
  BY DEF InsertRow, Write, MayWrite, IInv, Typed, Locks, Racing, Tight, Orderly, HasRef
<1>3. \A c \in Contents \ raced' :
        file'[c] = "none" \/ c \in db'.rows \/ \E q \in Procs : Owns(q, c)'
  BY DEF InsertRow, Write, MayWrite, IInv, Typed, Locks, Requests, Racing, Tight, Orderly, Owns
<1> QED BY <1>1, <1>2, <1>3 DEF Tight

LEMMA InsertRefTight ==
  ASSUME IInv, Racing, Tight, NEW p \in Procs, InsertRef(p)
  PROVE  Tight'
<1>1. \A q \in Procs : Orderly(q)'
  BY DEF InsertRef, Write, MayWrite, IInv, Typed, Locks, Requests, Racing, Tight, Orderly, HasRef
<1>2. \A c \in db'.rows \ raced' : HasRef(db, c)'
  BY DEF InsertRef, Write, MayWrite, IInv, Typed, Locks, Racing, Tight, Orderly, HasRef
<1>3. \A c \in Contents \ raced' :
        file'[c] = "none" \/ c \in db'.rows \/ \E q \in Procs : Owns(q, c)'
  BY DEF InsertRef, Write, MayWrite, IInv, Typed, Locks, Requests, Racing, Tight, Orderly, Owns
<1> QED BY <1>1, <1>2, <1>3 DEF Tight

LEMMA CommitPutTight ==
  ASSUME IInv, Racing, Tight, NEW p \in Procs, CommitPut(p)
  PROVE  Tight'
<1>1. \A q \in Procs : Orderly(q)'
  BY DEF CommitPut, Commit, IInv, Typed, Locks, Requests, Racing, Tight, Orderly, HasRef
<1>2. \A c \in db'.rows \ raced' : HasRef(db, c)'
  <2>1. locked = p /\ db' = work /\ of' = of /\ pc[p] = "commit"
    BY DEF CommitPut, Commit, IInv, Locks
  <2>2. \A c \in work.rows \ raced : HasRef(work, c)
    BY <2>1 DEF Tight, Orderly
  <2> QED
    BY <2>1, <2>2 DEF HasRef, Racing
<1>3. \A c \in Contents \ raced' :
        file'[c] = "none" \/ c \in db'.rows \/ \E q \in Procs : Owns(q, c)'
  BY DEF CommitPut, Commit, IInv, Typed, Locks, Requests, Racing, Tight, Orderly, Owns
<1> QED BY <1>1, <1>2, <1>3 DEF Tight

LEMMA DropRefTight ==
  ASSUME IInv, Racing, Tight, NEW p \in Procs, DropRef(p)
  PROVE  Tight'
<1>1. \A q \in Procs : Orderly(q)'
  BY DEF DropRef, Write, MayWrite, IInv, Typed, Locks, Requests, Racing, Tight, Orderly, HasRef
<1>2. \A c \in db'.rows \ raced' : HasRef(db, c)'
  BY DEF DropRef, Write, MayWrite, IInv, Typed, Locks, Racing, Tight, Orderly, HasRef
<1>3. \A c \in Contents \ raced' :
        file'[c] = "none" \/ c \in db'.rows \/ \E q \in Procs : Owns(q, c)'
  BY DEF DropRef, Write, MayWrite, IInv, Typed, Locks, Requests, Racing, Tight, Orderly, Owns
<1> QED BY <1>1, <1>2, <1>3 DEF Tight

LEMMA DropRowTight ==
  ASSUME IInv, Racing, Tight, NEW p \in Procs, DropRow(p)
  PROVE  Tight'
<1>1. \A q \in Procs : Orderly(q)'
  BY DEF DropRow, RefsOf, IInv, Typed, Locks, Racing, Tight, Orderly, HasRef
<1>2. \A c \in db'.rows \ raced' : HasRef(db, c)'
  BY DEF DropRow, RefsOf, IInv, Typed, Locks, Racing, Tight, Orderly, HasRef
<1>3. \A c \in Contents \ raced' :
        file'[c] = "none" \/ c \in db'.rows \/ \E q \in Procs : Owns(q, c)'
  BY DEF DropRow, RefsOf, IInv, Typed, Locks, Requests, Racing, Tight, Orderly, Owns
<1> QED BY <1>1, <1>2, <1>3 DEF Tight

LEMMA CommitDeleteTight ==
  ASSUME IInv, Racing, Tight, NEW p \in Procs, CommitDelete(p)
  PROVE  Tight'
<1>1. \A q \in Procs : Orderly(q)'
  BY DEF CommitDelete, Commit, IInv, Typed, Locks, Requests, Racing, Tight, Orderly, HasRef
<1>2. \A c \in db'.rows \ raced' : HasRef(db, c)'
  BY DEF CommitDelete, Commit, IInv, Typed, Locks, Racing, Tight, Orderly, HasRef
<1>3. \A c \in Contents \ raced' :
        file'[c] = "none" \/ c \in db'.rows \/ \E q \in Procs : Owns(q, c)'
  BY DEF CommitDelete, Commit, IInv, Typed, Locks, Requests, Racing, Tight, Orderly, Owns
<1> QED BY <1>1, <1>2, <1>3 DEF Tight

LEMMA UnlinkTight ==
  ASSUME IInv, Racing, Tight, NEW p \in Procs, Unlink(p)
  PROVE  Tight'
<1>1. \A q \in Procs : Orderly(q)'
  BY DEF Unlink, IInv, Typed, Locks, Requests, Racing, Tight, Orderly, HasRef
<1>2. \A c \in db'.rows \ raced' : HasRef(db, c)'
  BY DEF Unlink, IInv, Typed, Locks, Racing, Tight, Orderly, HasRef
<1>3. \A c \in Contents \ raced' :
        file'[c] = "none" \/ c \in db'.rows \/ \E q \in Procs : Owns(q, c)'
  BY DEF Unlink, IInv, Typed, Locks, Requests, Racing, Tight, Orderly, Owns
<1> QED BY <1>1, <1>2, <1>3 DEF Tight

LEMMA StepTight ==
  ASSUME OneServer, IInv, faults \in Nat, faults = 0 => Tight, [Next]_vars
  PROVE  faults' \in Nat /\ (faults' = 0 => Tight')
<1>1. CASE UNCHANGED vars
  BY <1>1 DEF vars, Tight, Orderly, HasRef, Owns
<1>2. CASE Next
  <2>1. Racing
    BY <1>2, NextRaces DEF IInv
  <2>2. CASE \E p \in Procs : WriteShort(p) \/ WriteFails(p) \/ Fails(p) \/ Crash(p)
    BY <2>2 DEF WriteShort, WriteFails, Fails, Crash, Fault
  <2>3. CASE /\ faults' = faults
             /\ \/ \E p \in Servers, c \in Contents : Put(p, c)
                \/ \E p \in Procs, r \in Ids : Delete(p, r)
                \/ \E p \in Procs :
                     \/ Open(p) \/ WriteFile(p) \/ InsertRow(p) \/ InsertRef(p)
                     \/ CommitPut(p) \/ DropRef(p) \/ DropRow(p)
                     \/ CommitDelete(p) \/ Unlink(p)
    BY <2>1, <2>3, PutTight, DeleteTight, OpenTight, WriteFileTight, InsertRowTight,
       InsertRefTight, CommitPutTight, DropRefTight, DropRowTight,
       CommitDeleteTight, UnlinkTight
  <2> QED
    BY <1>2, <2>2, <2>3
    DEF Next, Step, Put, Delete, Open, WriteFile, InsertRow, InsertRef, CommitPut,
        DropRef, DropRow, CommitDelete, Unlink
<1> QED BY <1>1, <1>2

\* While nothing fails, a content is stored exactly as long as it has a ref:
\* deletes and sweeps leave neither a row without refs nor a file without a
\* row, but for a content that was put while another process deleted it.
THEOREM NothingIsLeaked == ASSUME OneServer PROVE Spec => []NothingLeaks
<1>. DEFINE LeakInv == faults \in Nat /\ (faults = 0 => Tight)
<1>1. Init => LeakInv
  BY InitTight DEF Init
<1>2. IInv /\ LeakInv /\ [Next]_vars => LeakInv'
  BY StepTight
<1>3. IInv /\ LeakInv => NothingLeaks
  <2>. SUFFICES ASSUME IInv, Tight, \A p \in Procs : pc[p] = "idle"
                PROVE  /\ db.rows \ raced = {of[r] : r \in db.refs} \ raced
                       /\ {c \in Contents : file[c] # "none"} \ raced
                            = db.rows \ raced
    BY DEF NothingLeaks
  <2>1. \A c \in db.rows \ raced : \E r \in db.refs : of[r] = c
    BY DEF Tight, HasRef
  <2>2. \A r \in db.refs : of[r] \in db.rows \cup raced
    BY DEF IInv, Backed
  <2>3. \A c \in Contents \ raced : file[c] # "none" => c \in db.rows
    BY DEF Tight, Owns
  <2>4. \A c \in db.rows \ raced : c \in Contents /\ file[c] # "none"
    BY DEF IInv, Typed, Backed
  <2>. QED
    BY <2>1, <2>2, <2>3, <2>4
<1>. QED
  BY <1>1, <1>2, <1>3, Invariance, PTL DEF Spec
=============================================================================
