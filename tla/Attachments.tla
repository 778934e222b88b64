----------------------------- MODULE Attachments -----------------------------
(***************************************************************************)
(* The deduplicated attachments of MailHive: requests that store the       *)
(* contents of a campaign, each as a row of the attachments table and a    *)
(* blob, and link its mails to them (internal/service/attachment_service.go*)
(* and mail_service.go), against the hourly collection of the rows no mail *)
(* links to any more (internal/worker/gc_handler.go).                      *)
(*                                                                         *)
(* A content stands for a pair (tenant_id, sha256). Rows are numbered in   *)
(* the order of their created_at, so the rows older than the grace period  *)
(* are those up to cutoff.                                                 *)
(***************************************************************************)
EXTENDS Integers, FiniteSets

CONSTANTS
    Contents, NoContent,
    Mails, Requests, Collectors,
    MaxRows,      \* bounds the rows ever created
    BatchSize,    \* attachmentGCBatchSize
    MaxFaults     \* bounds failed calls and crashes

ASSUME NoContentAssumption == NoContent \notin Contents
ASSUME MaxRowsAssumption == MaxRows \in Nat
ASSUME BatchAssumption == BatchSize \in Nat \ {0}
ASSUME FaultsAssumption == MaxFaults \in Nat

VARIABLES
    row,      \* the attachments table
    made,     \* rows created so far
    cutoff,   \* the rows up to this one are older than the grace period
    blobs,    \* the contents of the BlobStore
    mail,     \* the mails table: which mails are there
    link,     \* the mail_attachments table
    req,      \* the requests in progress
    gc,       \* the collections in progress
    faults,   \* faults so far
    stored,   \* observation: rows whose creator wrote the blob
    clean,    \* observation: rows created while no collector was about to
              \* delete their content
    wasted    \* observation: contents left behind by a failed deletion or by
              \* a Put that came after the deletion of its row

table == <<row, made, link, mail>>
obs == <<stored, clean, wasted>>
vars == <<table, cutoff, blobs, req, gc, faults, obs>>

Rows == 1..MaxRows
NoRow == 0

Row == [live : BOOLEAN, content : Contents \cup {NoContent}]

Req == [pc : {"idle", "store", "put"}, todo : SUBSET Contents, got : SUBSET Rows,
        new : Rows \cup {NoRow}, mails : SUBSET Mails]

Gc == [pc : {"idle", "meta", "blob"}, todo : SUBSET Rows, row : Rows \cup {NoRow}]

IdleReq == [pc |-> "idle", todo |-> {}, got |-> {}, new |-> NoRow, mails |-> {}]
IdleGc == [pc |-> "idle", todo |-> {}, row |-> NoRow]

Init ==
    /\ row = [i \in Rows |-> [live |-> FALSE, content |-> NoContent]]
    /\ made = 0 /\ cutoff = 0
    /\ blobs = {}
    /\ mail = [m \in Mails |-> "none"]
    /\ link = {}
    /\ req = [r \in Requests |-> IdleReq]
    /\ gc = [g \in Collectors |-> IdleGc]
    /\ faults = 0
    /\ stored = {} /\ clean = {} /\ wasted = {}

Fault == faults < MaxFaults /\ faults' = faults + 1

Content(i) == row[i].content
RowsOf(c) == {i \in Rows : row[i].live /\ Content(i) = c}
Linked(i) == \E m \in Mails : <<m, i>> \in link

\* A collector has deleted a row of c and not yet the blob.
Collecting(c) == \E g \in Collectors : gc[g].pc = "blob" /\ Content(gc[g].row) = c

-----------------------------------------------------------------------------
(* A request: storeAttachments, one Store after the other, then the         *)
(* transaction that inserts the mails with their links.                     *)

StartRequest(r, cs, ms) ==
    /\ req[r].pc = "idle"
    /\ cs # {} /\ ms # {}
    /\ \A m \in ms : mail[m] = "none" /\ \A q \in Requests : m \notin req[q].mails
    /\ req' = [req EXCEPT ![r] = [pc |-> "store", todo |-> cs, got |-> {}, new |-> NoRow,
                                  mails |-> ms]]
    /\ UNCHANGED <<table, cutoff, blobs, gc, faults, obs>>

CreateRow(r, c) ==
    /\ made < MaxRows
    /\ made' = made + 1
    /\ row' = [row EXCEPT ![made + 1] = [live |-> TRUE, content |-> c]]
    /\ req' = [req EXCEPT ![r] = [@ EXCEPT !.pc = "put", !.new = made + 1]]
    /\ clean' = IF Collecting(c) THEN clean ELSE clean \cup {made + 1}

\* What the request is left with once it has row i for its content.
Having(r, i) == [req[r] EXCEPT !.pc = "store", !.new = NoRow, !.got = @ \cup {i},
                               !.todo = @ \ {Content(i)}]

FindRow(r, c) == \E i \in RowsOf(c) : req' = [req EXCEPT ![r] = Having(r, i)]

\* A faulty upsert on a table without UNIQUE (tenant_id, sha256).
UpsertAlwaysInserts(r, c) ==
    /\ req[r].pc = "store" /\ c \in req[r].todo
    /\ CreateRow(r, c)
    /\ UNCHANGED <<link, mail, cutoff, blobs, gc, faults, stored, wasted>>

\* Store, first half: INSERT ... ON CONFLICT, which tells a new row from an old one.
UpsertMeta(r, c) ==
    /\ req[r].pc = "store" /\ c \in req[r].todo
    /\ \/ RowsOf(c) = {} /\ CreateRow(r, c)
       \/ FindRow(r, c) /\ UNCHANGED <<row, made, clean>>
    /\ UNCHANGED <<link, mail, cutoff, blobs, gc, faults, stored, wasted>>

\* A Put whose row was collected meanwhile leaves a blob nobody will collect.
Written(i) ==
    /\ blobs' = blobs \cup {Content(i)}
    /\ wasted' = IF row[i].live THEN wasted ELSE wasted \cup {Content(i)}

\* Store, second half, for a new row only.
PutBlob(r) ==
    /\ req[r].pc = "put"
    /\ LET i == req[r].new
       IN /\ Written(i)
          /\ stored' = stored \cup {i}
          /\ req' = [req EXCEPT ![r] = Having(r, i)]
    /\ UNCHANGED <<table, cutoff, gc, faults, clean>>

\* Put returns an error, written or not: the request ends, the row stays.
PutFails(r) ==
    /\ req[r].pc = "put"
    /\ Fault
    /\ Written(req[r].new) \/ UNCHANGED <<blobs, wasted>>
    /\ req' = [req EXCEPT ![r] = IdleReq]
    /\ UNCHANGED <<table, cutoff, gc, stored, clean>>

\* The base64 of a later attachment, or a check further on, fails.
RefuseRequest(r) ==
    /\ req[r].pc = "store"
    /\ req' = [req EXCEPT ![r] = IdleReq]
    /\ UNCHANGED <<table, cutoff, blobs, gc, faults, obs>>

\* A faulty insertion on a link table without foreign key.
InsertUnchecked(r) ==
    /\ req[r].pc = "store" /\ req[r].todo = {}
    /\ link' = link \cup (req[r].mails \X req[r].got)
    /\ mail' = [m \in Mails |-> IF m \in req[r].mails THEN "live" ELSE mail[m]]
    /\ req' = [req EXCEPT ![r] = IdleReq]
    /\ UNCHANGED <<row, made, cutoff, blobs, gc, faults, obs>>

\* CreateWithRecipients: the foreign key refuses the transaction when a row is gone.
InsertMails(r) ==
    /\ req[r].pc = "store" /\ req[r].todo = {}
    /\ \/ /\ \A i \in req[r].got : row[i].live
          /\ link' = link \cup (req[r].mails \X req[r].got)
          /\ mail' = [m \in Mails |-> IF m \in req[r].mails THEN "live" ELSE mail[m]]
       \/ /\ \E i \in req[r].got : ~row[i].live
          /\ UNCHANGED <<link, mail>>
    /\ req' = [req EXCEPT ![r] = IdleReq]
    /\ UNCHANGED <<row, made, cutoff, blobs, gc, faults, obs>>

-----------------------------------------------------------------------------
(* The archive deletes old mails, and by ON DELETE CASCADE their links.     *)

\* A faulty archive that leaves the links, as a counter would be left.
ArchiveKeepingLinks(m) ==
    /\ mail[m] = "live"
    /\ mail' = [mail EXCEPT ![m] = "archived"]
    /\ UNCHANGED <<row, made, link, cutoff, blobs, req, gc, faults, obs>>

ArchiveMail(m) ==
    /\ mail[m] = "live"
    /\ mail' = [mail EXCEPT ![m] = "archived"]
    /\ link' = {l \in link : l[1] # m}
    /\ UNCHANGED <<row, made, cutoff, blobs, req, gc, faults, obs>>

\* The grace period of the next row ends.
Age ==
    /\ cutoff < made
    /\ cutoff' = cutoff + 1
    /\ UNCHANGED <<table, blobs, req, gc, faults, obs>>

-----------------------------------------------------------------------------
(* CollectOrphans.                                                          *)

Orphans == {i \in 1..cutoff : row[i].live /\ ~Linked(i)}

\* ORDER BY created_at LIMIT batch.
ListOrphans(g) ==
    /\ gc[g].pc = "idle"
    /\ Orphans # {}
    /\ LET first == {i \in Orphans : Cardinality({j \in Orphans : j < i}) < BatchSize}
       IN gc' = [gc EXCEPT ![g] = [pc |-> "meta", todo |-> first, row |-> NoRow]]
    /\ UNCHANGED <<table, cutoff, blobs, req, faults, obs>>

\* The collection goes on with the rows rest, or has done them all.
Continue(g, rest) ==
    gc' = [gc EXCEPT ![g] = [pc |-> IF rest = {} THEN "idle" ELSE "meta",
                             todo |-> rest, row |-> NoRow]]

\* A faulty collection that takes "deleted" for "still linked" and keeps the blob.
DeleteRowOnly(g, i) ==
    /\ row[i].live /\ ~Linked(i)
    /\ row' = [row EXCEPT ![i].live = FALSE]
    /\ Continue(g, gc[g].todo \ {i})

DeleteRow(g, i) ==
    /\ row[i].live /\ ~Linked(i)
    /\ row' = [row EXCEPT ![i] = [live |-> FALSE, content |-> Content(i)]]
    /\ gc' = [gc EXCEPT ![g] = [pc |-> "blob", todo |-> gc[g].todo \ {i}, row |-> i]]

\* DeleteOrphanMeta, which looks again for links. A link that is being inserted makes
\* the foreign key fail instead, and the collection end.
DeleteMeta(g) ==
    /\ gc[g].pc = "meta"
    /\ \E i \in gc[g].todo :
         /\ \A j \in gc[g].todo : i <= j
         /\ \/ DeleteRow(g, i)
            \/ (row[i].live => Linked(i)) /\ Continue(g, gc[g].todo \ {i}) /\ UNCHANGED row
            \/ row[i].live /\ Linked(i) /\ Continue(g, {}) /\ UNCHANGED row
    /\ UNCHANGED <<made, link, mail, cutoff, blobs, req, faults, obs>>

DeleteBlob(g) ==
    /\ gc[g].pc = "blob"
    /\ blobs' = blobs \ {Content(gc[g].row)}
    /\ Continue(g, gc[g].todo)
    /\ UNCHANGED <<table, cutoff, req, faults, obs>>

\* A call fails or the worker dies: Asynq will start a new collection.
CollectorFails(g) ==
    /\ gc[g].pc # "idle"
    /\ Fault
    /\ wasted' = IF gc[g].pc = "blob" THEN wasted \cup {Content(gc[g].row)} ELSE wasted
    /\ gc' = [gc EXCEPT ![g] = IdleGc]
    /\ UNCHANGED <<table, cutoff, blobs, req, stored, clean>>

-----------------------------------------------------------------------------
RequestStep(r) ==
    \/ \E cs \in SUBSET Contents, ms \in SUBSET Mails : StartRequest(r, cs, ms)
    \/ \E c \in Contents : UpsertMeta(r, c)
    \/ PutBlob(r) \/ PutFails(r) \/ RefuseRequest(r) \/ InsertMails(r)

Collect(g) == ListOrphans(g) \/ DeleteMeta(g) \/ DeleteBlob(g)

Next ==
    \/ \E r \in Requests : RequestStep(r)
    \/ \E m \in Mails : ArchiveMail(m)
    \/ Age
    \/ \E g \in Collectors : Collect(g) \/ CollectorFails(g)

Spec == Init /\ [][Next]_vars

\* The scheduler starts a collection every hour and a started one goes on.
FairSpec == Spec /\ \A g \in Collectors : WF_vars(Collect(g))
-----------------------------------------------------------------------------
(* Properties.                                                              *)

\* Every variable keeps its shape.
TypeOK ==
    /\ row \in [Rows -> Row]
    /\ made \in 0..MaxRows /\ cutoff \in 0..made
    /\ blobs \subseteq Contents
    /\ mail \in [Mails -> {"none", "live", "archived"}]
    /\ link \subseteq Mails \X Rows
    /\ req \in [Requests -> Req]
    /\ gc \in [Collectors -> Gc]
    /\ faults \in 0..MaxFaults
    /\ stored \subseteq Rows /\ clean \subseteq Rows /\ wasted \subseteq Contents

\* AttachmentService.Load of every link of a mail finds the row, then the blob.
Loadable(m) == \A i \in Rows : <<m, i>> \in link => row[i].live /\ Content(i) \in blobs

\* The links of a mail lead to rows that are there, and to their blobs wherever the
\* creator of the row wrote the blob and did not do so under the hands of a
\* collector that had deleted the row before: no other collection, request or
\* archiving takes a blob away from a mail.
SoundLinksLoad ==
    \A l \in link : LET i == l[2] IN
        row[i].live /\ (i \in stored \cap clean => Content(i) \in blobs)

\* Storage is wasted only by a failure or by a Put slower than the grace period:
\* every other blob has its row, or a collector about to delete it.
BlobsAreOwned ==
    \A c \in blobs : RowsOf(c) # {} \/ Collecting(c) \/ c \in wasted

\* A row that no mail of the table needs any more does not stay, whatever batches
\* the collections are cut into and wherever they fail.
OrphansAreCollected ==
    \A i \in Rows :
        (row[i].live /\ i <= cutoff /\ \A m \in Mails : mail[m] = "live" => <<m, i>> \notin link)
        ~> (~row[i].live \/ \E m \in Mails : mail[m] = "live" /\ <<m, i>> \in link)

(* What the proofs of these properties need besides.                        *)

\* The rows up to made have been created, with distinct contents while they live.
RowsAreDistinct ==
    /\ \A i \in Rows : (i > made => ~row[i].live) /\ (row[i].live => Content(i) # NoContent)
    /\ \A i, j \in Rows : row[i].live /\ row[j].live /\ Content(i) = Content(j) => i = j

\* No collector is about to delete the blob of a clean row that lives.
CleanRowsAreSafe ==
    \A i \in clean : /\ i <= made
                     /\ row[i].live => ~Collecting(Content(i))
                     /\ row[i].live /\ i \in stored => Content(i) \in blobs

\* Requests and collectors point to rows that were created.
PointersAreMade ==
    /\ stored \subseteq 1..made
    /\ \A r \in Requests : /\ req[r].got \subseteq 1..made
                           /\ req[r].pc = "put" => req[r].new \in 1..made
    /\ \A g \in Collectors : /\ gc[g].todo \subseteq 1..made
                             /\ gc[g].pc = "blob" => gc[g].row \in 1..made
    /\ \A i \in 1..made : Content(i) # NoContent

LinksLive == \A l \in link : row[l[2]].live

\* The inductive invariant.
IInv == /\ TypeOK /\ RowsAreDistinct /\ CleanRowsAreSafe /\ PointersAreMade
        /\ LinksLive /\ BlobsAreOwned

(* Statements of the comments that the code does not keep.                  *)

\* attachment_service.go:85-87: an interrupted collection leaves at worst an orphan
\* blob, never a link to a missing one.
LinkedBlobPresent ==
    \A m \in Mails : mail[m] = "live" => \/ Loadable(m)
                                         \/ \E r \in Requests : req[r].pc = "put"
=============================================================================
