-------------------------- MODULE AttachmentsProofs --------------------------
(***************************************************************************)
(* What a link of a mail may count on and which blobs may be wasted, for   *)
(* any number of contents, requests, collectors and faults.                *)
(*                                                                         *)
(* The proof treats separately the rows (who is alive, with what content), *)
(* the collectors (whose blobs are about to go) and the blobs.             *)
(***************************************************************************)
EXTENDS Attachments, TLAPS

LEMMA InitIInv == Init => IInv
BY MaxRowsAssumption, FaultsAssumption
   DEF Init, IInv, TypeOK, RowsAreDistinct, CleanRowsAreSafe, PointersAreMade, LinksLive,
       BlobsAreOwned, IdleReq, IdleGc, Row, Req, Gc, Rows, NoRow, Content, RowsOf, Collecting

-----------------------------------------------------------------------------
(* What the steps do, in terms of single rows, requests and collectors.     *)

LEMMA HavingType ==
    ASSUME TypeOK, NEW r \in Requests, NEW i \in Rows
    PROVE  Having(r, i) \in Req
<1>1. req[r] \in Req
  BY DEF TypeOK
<1> QED
  BY <1>1 DEF Having, Req, NoRow

LEMMA PuttingType ==
    ASSUME TypeOK, NEW r \in Requests, NEW i \in Rows
    PROVE  [req[r] EXCEPT !.pc = "put", !.new = i] \in Req
<1>1. req[r] \in Req
  BY DEF TypeOK
<1> QED
  BY <1>1 DEF Req

LEMMA IdleTypes == IdleReq \in Req /\ IdleGc \in Gc
BY DEF IdleReq, Req, IdleGc, Gc, NoRow

LEMMA ContinueType ==
    ASSUME TypeOK, NEW g \in Collectors, NEW rest \in SUBSET Rows, Continue(g, rest)
    PROVE  gc' \in [Collectors -> Gc]
<1> DEFINE new == [pc |-> IF rest = {} THEN "idle" ELSE "meta", todo |-> rest, row |-> NoRow]
<1>1. new \in Gc
  BY DEF Gc, NoRow
<1>2. gc' = [gc EXCEPT ![g] = new]
  BY DEF Continue
<1> HIDE DEF new
<1> QED
  BY <1>1, <1>2 DEF TypeOK

\* What PutBlob and PutFails write belongs to a row that was created.
LEMMA NewRow ==
    ASSUME IInv, NEW r \in Requests, req[r].pc = "put"
    PROVE  req[r].new \in Rows /\ req[r].new \in 1..made /\ Content(req[r].new) \in Contents
<1>1. req[r].new \in 1..made /\ req[r].new \in Rows
  BY MaxRowsAssumption DEF IInv, TypeOK, PointersAreMade, Rows
<1>2. Content(req[r].new) # NoContent
  BY <1>1 DEF IInv, PointersAreMade
<1>3. row[req[r].new] \in Row
  BY <1>1 DEF IInv, TypeOK
<1> QED
  BY <1>1, <1>2, <1>3 DEF Content, Row

\* The row a collector has just deleted was created too.
LEMMA GoneRow ==
    ASSUME IInv, NEW g \in Collectors, gc[g].pc = "blob"
    PROVE  gc[g].row \in Rows /\ gc[g].row \in 1..made /\ Content(gc[g].row) \in Contents
<1>1. gc[g].row \in 1..made /\ gc[g].row \in Rows
  BY MaxRowsAssumption DEF IInv, TypeOK, PointersAreMade, Rows
<1>2. Content(gc[g].row) # NoContent
  BY <1>1 DEF IInv, PointersAreMade
<1>3. row[gc[g].row] \in Row
  BY <1>1 DEF IInv, TypeOK
<1> QED
  BY <1>1, <1>2, <1>3 DEF Content, Row

\* DeleteMeta deletes one row or leaves the table alone.
LEMMA DeleteMetaCases ==
    ASSUME IInv, NEW g \in Collectors, DeleteMeta(g)
    PROVE  \/ \E i \in gc[g].todo : i \in Rows /\ i \in 1..made /\ DeleteRow(g, i)
           \/ UNCHANGED row /\ \E rest \in SUBSET gc[g].todo : Continue(g, rest)
<1>1. gc[g].todo \subseteq Rows /\ gc[g].todo \subseteq 1..made
  <2>1. gc[g] \in Gc
    BY DEF IInv, TypeOK
  <2> QED
    BY <2>1 DEF Gc, IInv, PointersAreMade
<1>2. PICK i \in gc[g].todo :
          \/ DeleteRow(g, i)
          \/ Continue(g, gc[g].todo \ {i}) /\ UNCHANGED row
          \/ Continue(g, {}) /\ UNCHANGED row
  BY DEF DeleteMeta
<1> QED
  BY <1>1, <1>2

-----------------------------------------------------------------------------
(* Types.                                                                   *)

LEMMA NextTypeOK == IInv /\ [Next]_vars => TypeOK'
<1> SUFFICES ASSUME IInv, [Next]_vars PROVE TypeOK'
  OBVIOUS
<1>0. TypeOK
  BY DEF IInv
<1> USE <1>0 DEF TypeOK, table, obs
<1>1. ASSUME NEW r \in Requests, NEW cs \in SUBSET Contents, NEW ms \in SUBSET Mails,
             StartRequest(r, cs, ms)
      PROVE  TypeOK'
  <2> DEFINE new == [pc |-> "store", todo |-> cs, got |-> {}, new |-> NoRow, mails |-> ms]
  <2>1. new \in Req
    BY MaxRowsAssumption DEF Req, NoRow
  <2>2. req' = [req EXCEPT ![r] = new]
    BY <1>1 DEF StartRequest
  <2> HIDE DEF new
  <2> QED
    BY <1>1, <2>1, <2>2 DEF StartRequest
<1>2. ASSUME NEW r \in Requests, NEW c \in Contents, UpsertMeta(r, c)
      PROVE  TypeOK'
  <2>1. CASE CreateRow(r, c)
    <3>1. made + 1 \in Rows /\ made' = made + 1
      BY <2>1, MaxRowsAssumption DEF CreateRow, Rows
    <3>2. row' \in [Rows -> Row]
      BY <2>1, <3>1 DEF CreateRow, Row
    <3>3. req' \in [Requests -> Req]
      <4> DEFINE new == [req[r] EXCEPT !.pc = "put", !.new = made + 1]
      <4>1. new \in Req
        BY <3>1, PuttingType
      <4>2. req' = [req EXCEPT ![r] = new]
        BY <2>1 DEF CreateRow
      <4> HIDE DEF new
      <4> QED
        BY <4>1, <4>2
    <3>4. clean' \subseteq Rows
      BY <2>1, <3>1 DEF CreateRow
    <3>5. made' \in 0..MaxRows /\ cutoff \in 0..made'
      BY <3>1, MaxRowsAssumption DEF Rows
    <3> QED
      BY <1>2, <3>2, <3>3, <3>4, <3>5 DEF UpsertMeta
  <2>2. CASE FindRow(r, c) /\ UNCHANGED <<row, made, clean>>
    <3>1. PICK i \in Rows : req' = [req EXCEPT ![r] = Having(r, i)]
      BY <2>2 DEF FindRow, RowsOf
    <3>2. req' \in [Requests -> Req]
      BY <3>1, HavingType
    <3> QED
      BY <1>2, <2>2, <3>2 DEF UpsertMeta
  <2> QED
    BY <1>2, <2>1, <2>2 DEF UpsertMeta
<1>3. ASSUME NEW r \in Requests, PutBlob(r)
      PROVE  TypeOK'
  <2>1. req[r].new \in Rows /\ Content(req[r].new) \in Contents
    BY <1>3, NewRow DEF PutBlob
  <2>2. req' \in [Requests -> Req]
    BY <1>3, <2>1, HavingType DEF PutBlob
  <2> QED
    BY <1>3, <2>1, <2>2 DEF PutBlob, Written
<1>4. ASSUME NEW r \in Requests, PutFails(r)
      PROVE  TypeOK'
  <2>1. Content(req[r].new) \in Contents
    BY <1>4, NewRow DEF PutFails
  <2> QED
    BY <1>4, <2>1, IdleTypes, FaultsAssumption DEF PutFails, Written, Fault
<1>5. ASSUME NEW r \in Requests, RefuseRequest(r)
      PROVE  TypeOK'
  BY <1>5, IdleTypes DEF RefuseRequest
<1>6. ASSUME NEW r \in Requests, InsertMails(r)
      PROVE  TypeOK'
  <2>1. req[r] \in Req
    OBVIOUS
  <2>2. req[r].mails \X req[r].got \subseteq Mails \X Rows
    BY <2>1 DEF Req
  <2>3. mail' \in [Mails -> {"none", "live", "archived"}]
    BY <1>6 DEF InsertMails
  <2> QED
    BY <1>6, <2>2, <2>3, IdleTypes DEF InsertMails
<1>7. ASSUME NEW m \in Mails, ArchiveMail(m)
      PROVE  TypeOK'
  BY <1>7 DEF ArchiveMail
<1>8. CASE Age
  BY <1>8, MaxRowsAssumption DEF Age
<1>9. ASSUME NEW g \in Collectors, ListOrphans(g)
      PROVE  TypeOK'
  <2>1. Orphans \subseteq Rows
    BY MaxRowsAssumption DEF Orphans, Rows
  <2> QED
    BY <1>9, <2>1 DEF ListOrphans, Gc, NoRow
<1>10. ASSUME NEW g \in Collectors, DeleteMeta(g)
       PROVE  TypeOK'
  <2>1. CASE \E i \in gc[g].todo : i \in Rows /\ DeleteRow(g, i)
    <3>1. PICK i \in gc[g].todo : i \in Rows /\ DeleteRow(g, i)
      BY <2>1
    <3>2. row[i] \in Row /\ gc[g] \in Gc
      BY <3>1
    <3>3. [live |-> FALSE, content |-> Content(i)] \in Row
      BY <3>2 DEF Row, Content
    <3>4. [pc |-> "blob", todo |-> gc[g].todo \ {i}, row |-> i] \in Gc
      BY <3>1, <3>2 DEF Gc
    <3> QED
      BY <1>10, <3>1, <3>3, <3>4 DEF DeleteMeta, DeleteRow
  <2>2. CASE UNCHANGED row /\ \E rest \in SUBSET gc[g].todo : Continue(g, rest)
    <3>1. gc[g] \in Gc
      OBVIOUS
    <3>2. gc' \in [Collectors -> Gc]
      BY <2>2, <3>1, ContinueType DEF Gc
    <3> QED
      BY <1>10, <2>2, <3>2 DEF DeleteMeta
  <2> QED
    BY <1>10, <2>1, <2>2, DeleteMetaCases
<1>11. ASSUME NEW g \in Collectors, DeleteBlob(g)
       PROVE  TypeOK'
  <2>1. gc[g] \in Gc
    OBVIOUS
  <2>2. gc' \in [Collectors -> Gc]
    BY <1>11, <2>1, ContinueType DEF DeleteBlob, Gc
  <2> QED
    BY <1>11, <2>2 DEF DeleteBlob
<1>12. ASSUME NEW g \in Collectors, CollectorFails(g)
       PROVE  TypeOK'
  BY <1>12, GoneRow, IdleTypes, FaultsAssumption DEF CollectorFails, Fault
<1>13. CASE UNCHANGED vars
  BY <1>13 DEF vars
<1> QED
  BY <1>1, <1>2, <1>3, <1>4, <1>5, <1>6, <1>7, <1>8, <1>9, <1>10, <1>11, <1>12, <1>13
     DEF Next, RequestStep, Collect

-----------------------------------------------------------------------------
(* Rows.                                                                    *)

\* A row is created or deleted by exactly these steps, and changes no other way.
LEMMA RowSteps ==
    ASSUME IInv, [Next]_vars
    PROVE  \/ UNCHANGED <<row, made, clean>>
           \/ \E r \in Requests, c \in Contents :
                /\ CreateRow(r, c) /\ RowsOf(c) = {}
                /\ UNCHANGED <<gc, link, blobs, stored, wasted>>
           \/ \E g \in Collectors, i \in Rows :
                /\ i \in 1..made /\ DeleteRow(g, i)
                /\ UNCHANGED <<made, link, blobs, req, stored, clean, wasted>>
<1>1. ASSUME NEW r \in Requests, NEW c \in Contents, UpsertMeta(r, c)
      PROVE  \/ UNCHANGED <<row, made, clean>>
             \/ /\ CreateRow(r, c) /\ RowsOf(c) = {}
                /\ UNCHANGED <<gc, link, blobs, stored, wasted>>
  BY <1>1 DEF UpsertMeta
<1>2. ASSUME NEW g \in Collectors, DeleteMeta(g)
      PROVE  \/ UNCHANGED <<row, made, clean>>
             \/ \E i \in Rows :
                  /\ i \in 1..made /\ DeleteRow(g, i)
                  /\ UNCHANGED <<made, link, blobs, req, stored, clean, wasted>>
  <2>1. UNCHANGED <<made, link, blobs, req, stored, clean, wasted>>
    BY <1>2 DEF DeleteMeta, obs
  <2> QED
    BY <1>2, <2>1, DeleteMetaCases
<1>3. ASSUME NEW r \in Requests,
             \/ \E cs \in SUBSET Contents, ms \in SUBSET Mails : StartRequest(r, cs, ms)
             \/ PutBlob(r) \/ PutFails(r) \/ RefuseRequest(r) \/ InsertMails(r)
      PROVE  UNCHANGED <<row, made, clean>>
  BY <1>3 DEF StartRequest, PutBlob, PutFails, RefuseRequest, InsertMails, table, obs
<1>4. CASE Age \/ (\E m \in Mails : ArchiveMail(m)) \/ UNCHANGED vars
  BY <1>4 DEF Age, ArchiveMail, vars, table, obs
<1>5. ASSUME NEW g \in Collectors, ListOrphans(g) \/ DeleteBlob(g) \/ CollectorFails(g)
      PROVE  UNCHANGED <<row, made, clean>>
  BY <1>5 DEF ListOrphans, DeleteBlob, CollectorFails, table, obs
<1> QED
  BY <1>1, <1>2, <1>3, <1>4, <1>5 DEF Next, RequestStep, Collect

\* CreateRow and DeleteRow, row by row.
LEMMA CreateRowEffect ==
    ASSUME IInv, NEW r \in Requests, NEW c \in Contents, CreateRow(r, c)
    PROVE  /\ made + 1 \in Rows /\ made' = made + 1 /\ made \in Nat
           /\ row'[made + 1].live /\ row'[made + 1].content = c /\ ~row[made + 1].live
           /\ \A i \in Rows : i # made + 1 => row'[i] = row[i]
<1>1. made + 1 \in Rows /\ made' = made + 1 /\ made \in Nat
  BY MaxRowsAssumption DEF CreateRow, Rows, IInv, TypeOK
<1>2. row' = [row EXCEPT ![made + 1] = [live |-> TRUE, content |-> c]]
  BY DEF CreateRow
<1>3. row \in [Rows -> Row]
  BY DEF IInv, TypeOK
<1>4. row'[made + 1] = [live |-> TRUE, content |-> c]
  BY <1>1, <1>2, <1>3
<1>5. \A i \in Rows : i # made + 1 => row'[i] = row[i]
  BY <1>2, <1>3
<1>6. ~row[made + 1].live
  BY <1>1 DEF IInv, RowsAreDistinct
<1>7. row'[made + 1].live /\ row'[made + 1].content = c
  BY <1>4
<1> QED
  BY <1>1, <1>5, <1>6, <1>7

LEMMA DeleteRowEffect ==
    ASSUME IInv, NEW g \in Collectors, NEW i \in Rows, DeleteRow(g, i)
    PROVE  /\ row[i].live /\ ~row'[i].live /\ ~Linked(i)
           /\ row'[i].content = row[i].content
           /\ \A j \in Rows : j # i => row'[j] = row[j]
<1>1. row' = [row EXCEPT ![i] = [live |-> FALSE, content |-> row[i].content]]
  BY DEF DeleteRow, Content
<1>2. row \in [Rows -> Row]
  BY DEF IInv, TypeOK
<1>3. row'[i] = [live |-> FALSE, content |-> row[i].content]
  BY <1>1, <1>2
<1>4. \A j \in Rows : j # i => row'[j] = row[j]
  BY <1>1, <1>2
<1>5. ~row'[i].live /\ row'[i].content = row[i].content
  BY <1>3
<1>6. row[i].live /\ ~Linked(i)
  BY DEF DeleteRow
<1> QED
  BY <1>4, <1>5, <1>6

\* DeleteRow makes its collector the only new one about to delete a blob.
LEMMA DeleteRowPending ==
    ASSUME IInv, NEW g \in Collectors, NEW i \in Rows, DeleteRow(g, i)
    PROVE  /\ gc'[g].pc = "blob" /\ gc'[g].row = i /\ gc'[g].todo \subseteq gc[g].todo
           /\ \A h \in Collectors : h # g => gc'[h] = gc[h]
<1> DEFINE new == [pc |-> "blob", todo |-> gc[g].todo \ {i}, row |-> i]
<1>1. gc \in [Collectors -> Gc]
  BY DEF IInv, TypeOK
<1>2. gc' = [gc EXCEPT ![g] = new]
  BY DEF DeleteRow
<1>3. new.pc = "blob" /\ new.row = i /\ new.todo \subseteq gc[g].todo
  OBVIOUS
<1> HIDE DEF new
<1>4. gc'[g] = new /\ \A h \in Collectors : h # g => gc'[h] = gc[h]
  BY <1>1, <1>2
<1> QED
  BY <1>3, <1>4

\* A row keeps its content, and a deleted one never comes back.
LEMMA RowsKept ==
    ASSUME IInv, [Next]_vars
    PROVE  /\ made \in Nat /\ made' \in Nat /\ made <= made' /\ 1..made \subseteq Rows
           /\ \A i \in 1..made : /\ row'[i].content = row[i].content
                                 /\ row'[i].live => row[i].live
<1>1. made \in Nat /\ 1..made \subseteq Rows
  BY MaxRowsAssumption DEF IInv, TypeOK, Rows
<1>2. CASE UNCHANGED <<row, made, clean>>
  BY <1>1, <1>2
<1>3. CASE \E r \in Requests, c \in Contents : CreateRow(r, c)
  <2>1. PICK r \in Requests, c \in Contents : CreateRow(r, c)
    BY <1>3
  <2>2. /\ made' = made + 1
        /\ \A i \in Rows : i # made + 1 => row'[i] = row[i]
    BY <2>1, CreateRowEffect
  <2> QED
    BY <1>1, <2>2
<1>4. CASE \E g \in Collectors, i \in Rows : DeleteRow(g, i) /\ made' = made
  <2>1. PICK g \in Collectors, i \in Rows : DeleteRow(g, i) /\ made' = made
    BY <1>4
  <2>2. /\ ~row'[i].live /\ row'[i].content = row[i].content
        /\ \A j \in Rows : j # i => row'[j] = row[j]
    BY <2>1, DeleteRowEffect
  <2> QED
    BY <1>1, <2>1, <2>2
<1> QED
  BY <1>2, <1>3, <1>4, RowSteps

LEMMA NextRowsAreDistinct == IInv /\ [Next]_vars => RowsAreDistinct'
<1> SUFFICES ASSUME IInv, [Next]_vars PROVE RowsAreDistinct'
  OBVIOUS
<1>0. /\ \A i \in Rows : /\ i > made => ~row[i].live
                         /\ row[i].live => row[i].content # NoContent
      /\ \A i, j \in Rows :
            row[i].live /\ row[j].live /\ row[i].content = row[j].content => i = j
  BY DEF IInv, RowsAreDistinct, Content
<1>1. SUFFICES /\ \A i \in Rows : /\ i > made' => ~row'[i].live
                                  /\ row'[i].live => row'[i].content # NoContent
               /\ \A i, j \in Rows :
                     row'[i].live /\ row'[j].live /\ row'[i].content = row'[j].content => i = j
  BY DEF RowsAreDistinct, Content
<1>2. CASE UNCHANGED <<row, made, clean>>
  BY <1>0, <1>2
<1>3. CASE \E r \in Requests, c \in Contents : CreateRow(r, c) /\ RowsOf(c) = {}
  <2>1. PICK r \in Requests, c \in Contents : CreateRow(r, c) /\ RowsOf(c) = {}
    BY <1>3
  <2>2. /\ made + 1 \in Rows /\ made' = made + 1 /\ made \in Nat
        /\ row'[made + 1].live /\ row'[made + 1].content = c /\ ~row[made + 1].live
        /\ \A i \in Rows : i # made + 1 => row'[i] = row[i]
    BY <2>1, CreateRowEffect
  <2>3. \A i \in Rows : row[i].live => row[i].content # c
    BY <2>1 DEF RowsOf, Content
  <2>4. c # NoContent
    BY NoContentAssumption
  <2> QED
    BY <1>0, <2>2, <2>3, <2>4 DEF Rows
<1>4. CASE \E g \in Collectors, i \in Rows : DeleteRow(g, i) /\ made' = made
  <2>1. PICK g \in Collectors, i \in Rows : DeleteRow(g, i) /\ made' = made
    BY <1>4
  <2>2. /\ row[i].live /\ ~row'[i].live
        /\ \A j \in Rows : j # i => row'[j] = row[j]
    BY <2>1, DeleteRowEffect
  <2> QED
    BY <1>0, <2>1, <2>2
<1> QED
  BY <1>2, <1>3, <1>4, RowSteps

-----------------------------------------------------------------------------
(* Collectors and requests.                                                 *)

\* What a step may make of a collector.
LEMMA CollectorSteps ==
    ASSUME IInv, [Next]_vars, NEW g \in Collectors
    PROVE  \/ gc'[g] = gc[g]
           \/ gc'[g].pc = "idle" /\ gc'[g].todo = {}
           \/ gc'[g].pc = "meta" /\ gc'[g].todo \subseteq 1..made
           \/ /\ gc'[g].pc = "blob" /\ gc'[g].todo \subseteq 1..made
              /\ gc'[g].row \in 1..made /\ row[gc'[g].row].live /\ ~row'[gc'[g].row].live
<1>0. gc \in [Collectors -> Gc] /\ \A h \in Collectors : gc[h].todo \subseteq 1..made
  BY DEF IInv, TypeOK, PointersAreMade
<1>1. ASSUME NEW h \in Collectors, NEW rest \in SUBSET gc[h].todo, Continue(h, rest)
      PROVE  \/ gc'[g] = gc[g]
             \/ gc'[g].pc = "idle" /\ gc'[g].todo = {}
             \/ gc'[g].pc = "meta" /\ gc'[g].todo \subseteq 1..made
  <2> DEFINE new == [pc |-> IF rest = {} THEN "idle" ELSE "meta", todo |-> rest, row |-> NoRow]
  <2>1. gc' = [gc EXCEPT ![h] = new]
    BY <1>1 DEF Continue
  <2>2. \/ new.pc = "idle" /\ new.todo = {}
        \/ new.pc = "meta" /\ new.todo \subseteq 1..made
    BY <1>0
  <2> HIDE DEF new
  <2>3. gc'[g] = gc[g] \/ gc'[g] = new
    BY <1>0, <2>1
  <2> QED
    BY <2>2, <2>3
<1>2. ASSUME NEW h \in Collectors, ListOrphans(h)
      PROVE  \/ gc'[g] = gc[g]
             \/ gc'[g].pc = "meta" /\ gc'[g].todo \subseteq 1..made
  <2> DEFINE first == {i \in Orphans : Cardinality({j \in Orphans : j < i}) < BatchSize}
             new == [pc |-> "meta", todo |-> first, row |-> NoRow]
  <2>1. gc' = [gc EXCEPT ![h] = new]
    BY <1>2 DEF ListOrphans
  <2>2. Orphans \subseteq 1..made
    BY MaxRowsAssumption DEF Orphans, IInv, TypeOK
  <2>4. new.pc = "meta" /\ new.todo \subseteq 1..made
    BY <2>2
  <2> HIDE DEF new
  <2> QED
    BY <1>0, <2>1, <2>4
<1>3. ASSUME NEW h \in Collectors, CollectorFails(h)
      PROVE  gc'[g] = gc[g] \/ (gc'[g].pc = "idle" /\ gc'[g].todo = {})
  BY <1>0, <1>3 DEF CollectorFails, IdleGc
<1>4. ASSUME NEW h \in Collectors, NEW i \in gc[h].todo, i \in Rows, i \in 1..made, DeleteRow(h, i)
      PROVE  \/ gc'[g] = gc[g]
             \/ /\ gc'[g].pc = "blob" /\ gc'[g].todo \subseteq 1..made
                /\ gc'[g].row \in 1..made /\ row[gc'[g].row].live /\ ~row'[gc'[g].row].live
  BY <1>0, <1>4, DeleteRowEffect, DeleteRowPending
<1>5. ASSUME NEW r \in Requests, RequestStep(r)
      PROVE  gc'[g] = gc[g]
  BY <1>5 DEF RequestStep, StartRequest, UpsertMeta, PutBlob, PutFails, RefuseRequest, InsertMails
<1>6. CASE Age \/ (\E m \in Mails : ArchiveMail(m)) \/ UNCHANGED vars
  BY <1>6 DEF Age, ArchiveMail, vars
<1>7. ASSUME NEW h \in Collectors, DeleteMeta(h)
      PROVE  \/ \E i \in gc[h].todo : i \in Rows /\ i \in 1..made /\ DeleteRow(h, i)
             \/ \E rest \in SUBSET gc[h].todo : Continue(h, rest)
  BY <1>7, DeleteMetaCases
<1>8. ASSUME NEW h \in Collectors, DeleteBlob(h)
      PROVE  \E rest \in SUBSET gc[h].todo : Continue(h, rest)
  BY <1>8 DEF DeleteBlob
<1> QED
  BY <1>1, <1>2, <1>3, <1>4, <1>5, <1>6, <1>7, <1>8 DEF Next, Collect

\* What a step may make of a request.
LEMMA RequestSteps ==
    ASSUME IInv, [Next]_vars, NEW r \in Requests
    PROVE  req'[r].got \subseteq 1..made' /\ (req'[r].pc = "put" => req'[r].new \in 1..made')
<1>0. /\ req \in [Requests -> Req] /\ made \in Nat /\ made' \in Nat /\ made <= made'
      /\ \A q \in Requests : /\ req[q].got \subseteq 1..made
                             /\ req[q].pc = "put" => req[q].new \in 1..made
  BY RowsKept DEF IInv, TypeOK, PointersAreMade
<1>1. 1..made \subseteq 1..made'
  BY <1>0
<1>2. CASE req'[r] = req[r]
  BY <1>0, <1>1, <1>2
<1>3. ASSUME NEW q \in Requests, NEW cs \in SUBSET Contents, NEW ms \in SUBSET Mails,
             StartRequest(q, cs, ms)
      PROVE  req'[r] = req[r] \/ (req'[r].got = {} /\ req'[r].pc = "store")
  <2> DEFINE new == [pc |-> "store", todo |-> cs, got |-> {}, new |-> NoRow, mails |-> ms]
  <2>1. req' = [req EXCEPT ![q] = new]
    BY <1>3 DEF StartRequest
  <2>2. new.got = {} /\ new.pc = "store"
    OBVIOUS
  <2> HIDE DEF new
  <2> QED
    BY <1>0, <2>1, <2>2
<1>4. ASSUME NEW q \in Requests, NEW c \in Contents, CreateRow(q, c)
      PROVE  \/ req'[r] = req[r]
             \/ req'[r].got \subseteq 1..made /\ req'[r].new \in 1..made'
  <2> DEFINE new == [req[q] EXCEPT !.pc = "put", !.new = made + 1]
  <2>1. req' = [req EXCEPT ![q] = new] /\ made' = made + 1
    BY <1>4 DEF CreateRow
  <2>2. req[q] \in Req
    BY <1>0
  <2>3. new.got = req[q].got /\ new.new = made + 1
    BY <2>2 DEF Req
  <2> HIDE DEF new
  <2> QED
    BY <1>0, <2>1, <2>3
<1>5. ASSUME NEW q \in Requests, NEW i \in 1..made, req' = [req EXCEPT ![q] = Having(q, i)]
      PROVE  \/ req'[r] = req[r]
             \/ req'[r].got \subseteq 1..made /\ req'[r].pc = "store"
  <2>1. req[q] \in Req
    BY <1>0
  <2>2. Having(q, i).got = req[q].got \cup {i} /\ Having(q, i).pc = "store"
    BY <2>1 DEF Having, Req
  <2> QED
    BY <1>0, <1>5, <2>2
<1>6. ASSUME NEW q \in Requests, req' = [req EXCEPT ![q] = IdleReq]
      PROVE  req'[r] = req[r] \/ (req'[r].got = {} /\ req'[r].pc = "idle")
  <2>1. IdleReq.got = {} /\ IdleReq.pc = "idle"
    BY DEF IdleReq
  <2> QED
    BY <1>0, <1>6, <2>1
<1>7. ASSUME NEW q \in Requests, NEW c \in Contents, UpsertMeta(q, c)
      PROVE  \/ CreateRow(q, c)
             \/ \E i \in 1..made : req' = [req EXCEPT ![q] = Having(q, i)]
  <2>1. ASSUME NEW i \in RowsOf(c)
        PROVE  i \in 1..made
    BY <1>0 DEF RowsOf, IInv, RowsAreDistinct, Rows
  <2> QED
    BY <1>7, <2>1 DEF UpsertMeta, FindRow
<1>8. ASSUME NEW q \in Requests, PutBlob(q)
      PROVE  \E i \in 1..made : req' = [req EXCEPT ![q] = Having(q, i)]
  BY <1>0, <1>8 DEF PutBlob
<1>9. ASSUME NEW q \in Requests, PutFails(q) \/ RefuseRequest(q) \/ InsertMails(q)
      PROVE  req' = [req EXCEPT ![q] = IdleReq]
  BY <1>9 DEF PutFails, RefuseRequest, InsertMails
<1>10. ASSUME Age \/ (\E m \in Mails : ArchiveMail(m)) \/ UNCHANGED vars
       PROVE  req'[r] = req[r]
  BY <1>10 DEF Age, ArchiveMail, vars
<1>11. ASSUME NEW g \in Collectors, Collect(g) \/ CollectorFails(g)
       PROVE  req'[r] = req[r]
  BY <1>11 DEF Collect, ListOrphans, DeleteMeta, DeleteBlob, CollectorFails
<1>12. ASSUME NEW q \in Requests, RequestStep(q)
       PROVE  req'[r].got \subseteq 1..made' /\ (req'[r].pc = "put" => req'[r].new \in 1..made')
  BY <1>1, <1>2, <1>3, <1>4, <1>5, <1>6, <1>7, <1>8, <1>9, <1>12 DEF RequestStep
<1> QED
  BY <1>2, <1>10, <1>11, <1>12 DEF Next

-----------------------------------------------------------------------------
(* Blobs and observations.                                                  *)

\* What a step may do to the blobs and to the rows known to have been stored.
LEMMA BlobSteps ==
    ASSUME IInv, [Next]_vars
    PROVE  \/ UNCHANGED <<blobs, stored, gc, wasted>>
           \/ UNCHANGED <<blobs, stored, wasted>>
              /\ \A g \in Collectors : gc[g].pc = "blob" => gc'[g] = gc[g]
           \/ \E i \in Rows : /\ i \in 1..made /\ UNCHANGED <<row, gc>> /\ Written(i)
                              /\ stored' \in {stored, stored \cup {i}}
           \/ \E g \in Collectors :
                /\ gc[g].pc = "blob" /\ UNCHANGED <<row, stored, wasted>>
                /\ blobs' = blobs \ {row[gc[g].row].content}
                /\ \A h \in Collectors : h # g => gc'[h] = gc[h]
           \/ \E g \in Collectors :
                /\ UNCHANGED <<row, blobs, stored>> /\ wasted \subseteq wasted'
                /\ gc[g].pc = "blob" => row[gc[g].row].content \in wasted'
                /\ \A h \in Collectors : h # g => gc'[h] = gc[h]
<1>0. gc \in [Collectors -> Gc]
  BY DEF IInv, TypeOK
<1>1. ASSUME NEW r \in Requests, RequestStep(r), ~PutBlob(r), ~PutFails(r)
      PROVE  UNCHANGED <<blobs, stored, gc, wasted>>
  BY <1>1 DEF RequestStep, StartRequest, UpsertMeta, RefuseRequest, InsertMails, obs
<1>2. ASSUME NEW r \in Requests, PutBlob(r) \/ PutFails(r)
      PROVE  \/ UNCHANGED <<blobs, stored, gc, wasted>>
             \/ \E i \in Rows : /\ i \in 1..made /\ UNCHANGED <<row, gc>> /\ Written(i)
                                /\ stored' \in {stored, stored \cup {i}}
  <2>1. req[r].new \in Rows /\ req[r].new \in 1..made
    BY <1>2, NewRow DEF PutBlob, PutFails
  <2> QED
    BY <1>2, <2>1 DEF PutBlob, PutFails, table
<1>3. CASE Age \/ (\E m \in Mails : ArchiveMail(m)) \/ UNCHANGED vars
  BY <1>3 DEF Age, ArchiveMail, vars, obs
<1>4. ASSUME NEW g \in Collectors, ListOrphans(g) \/ DeleteMeta(g)
      PROVE  /\ UNCHANGED <<blobs, stored, wasted>>
             /\ \A h \in Collectors : gc[h].pc = "blob" => gc'[h] = gc[h]
  <2>1. UNCHANGED <<blobs, stored, wasted>> /\ gc[g].pc # "blob"
    BY <1>4 DEF ListOrphans, DeleteMeta, obs
  <2>2. \A h \in Collectors : h # g => gc'[h] = gc[h]
    BY <1>0, <1>4 DEF ListOrphans, DeleteMeta, DeleteRow, Continue
  <2> QED
    BY <2>1, <2>2
<1>5. ASSUME NEW g \in Collectors, DeleteBlob(g)
      PROVE  /\ gc[g].pc = "blob" /\ UNCHANGED <<row, stored, wasted>>
             /\ blobs' = blobs \ {row[gc[g].row].content}
             /\ \A h \in Collectors : h # g => gc'[h] = gc[h]
  BY <1>0, <1>5 DEF DeleteBlob, Continue, Content, table, obs
<1>6. ASSUME NEW g \in Collectors, CollectorFails(g)
      PROVE  /\ UNCHANGED <<row, blobs, stored>> /\ wasted \subseteq wasted'
             /\ gc[g].pc = "blob" => row[gc[g].row].content \in wasted'
             /\ \A h \in Collectors : h # g => gc'[h] = gc[h]
  BY <1>0, <1>6 DEF CollectorFails, Content, table
<1> QED
  BY <1>1, <1>2, <1>3, <1>4, <1>5, <1>6 DEF Next, Collect

\* Every blob has its row, a collector about to delete it, or was wasted by a failure.
LEMMA NextBlobsAreOwned == IInv /\ [Next]_vars => BlobsAreOwned'
<1> SUFFICES ASSUME IInv, [Next]_vars, NEW c \in blobs'
             PROVE  \/ \E i \in Rows : row'[i].live /\ row'[i].content = c
                    \/ \E g \in Collectors : gc'[g].pc = "blob" /\ row'[gc'[g].row].content = c
                    \/ c \in wasted'
  BY DEF BlobsAreOwned, RowsOf, Collecting, Content
<1>0. c \in blobs => \/ \E i \in Rows : row[i].live /\ row[i].content = c
                     \/ \E g \in Collectors : gc[g].pc = "blob" /\ row[gc[g].row].content = c
                     \/ c \in wasted
  BY DEF IInv, BlobsAreOwned, RowsOf, Collecting, Content
<1>1. /\ \A i \in 1..made : row'[i].content = row[i].content
      /\ \A g \in Collectors : gc[g].pc = "blob" => gc[g].row \in 1..made
      /\ \A i \in Rows : row[i].live => i \in 1..made
  <2>1. made \in Nat
    BY RowsKept
  <2> QED
    BY <2>1, RowsKept DEF IInv, PointersAreMade, RowsAreDistinct, Rows
<1>2. ASSUME c \in blobs, NEW i \in Rows, row[i].live, row[i].content = c
      PROVE  \/ row'[i].live /\ row'[i].content = c
             \/ \E g \in Collectors : gc'[g].pc = "blob" /\ row'[gc'[g].row].content = c
  <2>1. row'[i].content = c
    BY <1>1, <1>2
  <2>2. CASE \E g \in Collectors, j \in Rows : DeleteRow(g, j)
    <3>1. PICK g \in Collectors, j \in Rows : DeleteRow(g, j)
      BY <2>2
    <3>2. gc'[g].pc = "blob" /\ gc'[g].row = j
      BY <3>1, DeleteRowPending
    <3>3. i # j => row'[i] = row[i]
      BY <3>1, DeleteRowEffect
    <3> QED
      BY <1>2, <2>1, <3>2, <3>3
  <2>3. CASE \E r \in Requests, d \in Contents : CreateRow(r, d)
    <3>1. PICK r \in Requests, d \in Contents : CreateRow(r, d)
      BY <2>3
    <3>2. made \in Nat /\ (i # made + 1 => row'[i] = row[i])
      BY <3>1, CreateRowEffect
    <3> QED
      BY <1>1, <1>2, <2>1, <3>2
  <2>4. CASE UNCHANGED row
    BY <1>2, <2>1, <2>4
  <2> QED
    BY <2>2, <2>3, <2>4, RowSteps
<1>3. CASE c \notin blobs
  <2>1. PICK i \in Rows : /\ i \in 1..made /\ UNCHANGED <<row, gc>> /\ Written(i)
                          /\ stored' \in {stored, stored \cup {i}}
    BY <1>3, BlobSteps
  <2>2. c = row[i].content /\ (row[i].live \/ c \in wasted')
    BY <1>3, <2>1 DEF Written, Content
  <2> QED
    BY <2>1, <2>2
<1>4. CASE c \in blobs /\ c \in wasted
  <2>1. wasted \subseteq wasted'
    BY BlobSteps DEF Written
  <2> QED
    BY <1>4, <2>1
<1>5. ASSUME c \in blobs, NEW g \in Collectors, gc[g].pc = "blob", row[gc[g].row].content = c
      PROVE  gc'[g] = gc[g] \/ c \in wasted'
  BY <1>5, BlobSteps
<1>6. ASSUME c \in blobs, NEW g \in Collectors, gc[g].pc = "blob", row[gc[g].row].content = c
      PROVE  (gc'[g].pc = "blob" /\ row'[gc'[g].row].content = c) \/ c \in wasted'
  BY <1>1, <1>5, <1>6
<1> QED
  BY <1>0, <1>2, <1>3, <1>4, <1>6

\* A clean row that lives has no collector on its content: its creator saw none, and
\* a collector gets there only by deleting the row.
LEMMA NextCleanRowsAreSafe == IInv /\ [Next]_vars => CleanRowsAreSafe'
<1> SUFFICES ASSUME IInv, [Next]_vars, NEW i \in clean'
             PROVE  /\ i <= made'
                    /\ row'[i].live => \A g \in Collectors :
                          gc'[g].pc = "blob" => row'[gc'[g].row].content # row'[i].content
                    /\ row'[i].live /\ i \in stored' => row'[i].content \in blobs'
  BY DEF CleanRowsAreSafe, Collecting, Content
<1>0. /\ made \in Nat /\ made' \in Nat /\ made <= made' /\ 1..made \subseteq Rows
      /\ \A j \in 1..made : row'[j].content = row[j].content /\ (row'[j].live => row[j].live)
      /\ \A g \in Collectors : gc[g].pc = "blob" => gc[g].row \in 1..made
      /\ stored \subseteq 1..made /\ clean \subseteq Rows
  BY RowsKept DEF IInv, TypeOK, PointersAreMade
<1>1. CASE i \in clean
  <2>1. i \in 1..made
    BY <1>0, <1>1 DEF IInv, CleanRowsAreSafe, Rows
  <2>2. row[i].live => /\ \A g \in Collectors :
                             gc[g].pc = "blob" => row[gc[g].row].content # row[i].content
                       /\ i \in stored => row[i].content \in blobs
    BY <1>1 DEF IInv, CleanRowsAreSafe, Collecting, Content
  <2>3. ASSUME row'[i].live, NEW g \in Collectors, gc'[g].pc = "blob"
        PROVE  row'[gc'[g].row].content # row'[i].content
    <3>1. CASE gc'[g] = gc[g]
      BY <1>0, <2>1, <2>2, <2>3, <3>1
    <3>2. CASE gc'[g].row \in 1..made /\ row[gc'[g].row].live /\ ~row'[gc'[g].row].live
      BY <1>0, <2>1, <2>3, <3>2 DEF IInv, RowsAreDistinct, Content
    <3> QED
      BY <2>3, <3>1, <3>2, CollectorSteps
  <2>4. ASSUME row'[i].live, i \in stored'
        PROVE  row'[i].content \in blobs'
    <3>1. row[i].live /\ row'[i].content = row[i].content
      BY <1>0, <2>1, <2>4
    <3>2. CASE i \in stored
      BY <2>2, <3>1, <3>2, BlobSteps DEF Written
    <3>3. CASE i \notin stored
      BY <2>4, <3>1, <3>3, BlobSteps DEF Written, Content
    <3> QED
      BY <3>2, <3>3
  <2> QED
    BY <1>0, <2>1, <2>3, <2>4
<1>2. CASE i \notin clean
  <2>1. PICK r \in Requests, c \in Contents :
            CreateRow(r, c) /\ UNCHANGED <<gc, link, blobs, stored, wasted>>
    BY <1>2, RowSteps
  <2>2. i = made + 1 /\ ~Collecting(c)
    BY <1>2, <2>1 DEF CreateRow
  <2>3. row'[i].content = c /\ made' = made + 1
    BY <2>1, <2>2, CreateRowEffect
  <2>4. \A g \in Collectors : gc[g].pc = "blob" => row[gc[g].row].content # c
    BY <2>2 DEF Collecting, Content
  <2>5. i \notin stored'
    BY <1>0, <2>1, <2>2
  <2> QED
    BY <1>0, <2>1, <2>2, <2>3, <2>4, <2>5
<1> QED
  BY <1>1, <1>2

LEMMA NextLinksLive == IInv /\ [Next]_vars => LinksLive'
<1> SUFFICES ASSUME IInv, [Next]_vars, NEW l \in link'
             PROVE  row'[l[2]].live
  BY DEF LinksLive
<1>0. link \subseteq Mails \X Rows /\ (l \in link => row[l[2]].live)
  BY DEF IInv, TypeOK, LinksLive
<1>1. ASSUME NEW r \in Requests, InsertMails(r), l \notin link
      PROVE  row'[l[2]].live
  BY <1>1 DEF InsertMails
<1>2. CASE l \in link
  <2>1. l[1] \in Mails /\ l[2] \in Rows /\ row[l[2]].live /\ l = <<l[1], l[2]>>
    BY <1>0, <1>2
  <2>2. Linked(l[2])
    BY <1>2, <2>1 DEF Linked
  <2>3. CASE \E g \in Collectors, j \in Rows : DeleteRow(g, j)
    BY <2>1, <2>2, <2>3, DeleteRowEffect
  <2>4. CASE \E r \in Requests, d \in Contents : CreateRow(r, d)
    <3>1. PICK r \in Requests, d \in Contents : CreateRow(r, d)
      BY <2>4
    <3>2. row'[made + 1].live /\ (l[2] # made + 1 => row'[l[2]] = row[l[2]])
      BY <2>1, <3>1, CreateRowEffect
    <3> QED
      BY <2>1, <3>2
  <2>5. CASE UNCHANGED row
    BY <2>1, <2>5
  <2> QED
    BY <2>3, <2>4, <2>5, RowSteps
<1>3. ASSUME l \notin link, \A r \in Requests : ~InsertMails(r)
      PROVE  FALSE
  <2>1. CASE \E m \in Mails : ArchiveMail(m)
    BY <1>3, <2>1 DEF ArchiveMail
  <2>2. CASE UNCHANGED link
    BY <1>3, <2>2
  <2>3. ASSUME NEW r \in Requests, RequestStep(r), ~InsertMails(r)
        PROVE  UNCHANGED link
    BY <2>3 DEF RequestStep, StartRequest, UpsertMeta, PutBlob, PutFails, RefuseRequest, table
  <2>4. ASSUME NEW g \in Collectors, Collect(g) \/ CollectorFails(g)
        PROVE  UNCHANGED link
    BY <2>4 DEF Collect, ListOrphans, DeleteMeta, DeleteBlob, CollectorFails, table
  <2> QED
    BY <1>3, <2>1, <2>2, <2>3, <2>4 DEF Next, Age, vars, table
<1> QED
  BY <1>1, <1>2, <1>3

LEMMA NextPointersAreMade == IInv /\ [Next]_vars => PointersAreMade'
<1> SUFFICES ASSUME IInv, [Next]_vars PROVE PointersAreMade'
  OBVIOUS
<1>0. /\ made \in Nat /\ made' \in Nat /\ made <= made' /\ 1..made \subseteq 1..made'
      /\ \A j \in 1..made : row'[j].content = row[j].content
  BY RowsKept
<1>1. stored' \subseteq 1..made'
  <2>1. stored \subseteq 1..made
    BY DEF IInv, PointersAreMade
  <2>2. stored' = stored \/ \E i \in 1..made : stored' = stored \cup {i}
    BY BlobSteps
  <2> QED
    BY <1>0, <2>1, <2>2
<1>2. \A r \in Requests : /\ req'[r].got \subseteq 1..made'
                          /\ req'[r].pc = "put" => req'[r].new \in 1..made'
  BY RequestSteps
<1>3. \A g \in Collectors : gc[g].todo \subseteq 1..made /\ (gc[g].pc = "blob" => gc[g].row \in 1..made)
  BY DEF IInv, PointersAreMade
<1>4. ASSUME NEW g \in Collectors
      PROVE  gc'[g].todo \subseteq 1..made' /\ (gc'[g].pc = "blob" => gc'[g].row \in 1..made')
  <2>1. gc'[g].todo \subseteq 1..made /\ (gc'[g].pc = "blob" => gc'[g].row \in 1..made)
    BY <1>3, CollectorSteps
  <2> QED
    BY <1>0, <2>1
<1>5. ASSUME NEW i \in 1..made'
      PROVE  row'[i].content # NoContent
  <2>1. \A j \in 1..made : row[j].content # NoContent
    BY DEF IInv, PointersAreMade, Content
  <2>2. CASE \E r \in Requests, c \in Contents : CreateRow(r, c)
    <3>1. PICK r \in Requests, c \in Contents : CreateRow(r, c)
      BY <2>2
    <3>2. made' = made + 1 /\ row'[made + 1].content = c
      BY <3>1, CreateRowEffect
    <3>3. c # NoContent
      BY NoContentAssumption
    <3> QED
      BY <1>0, <2>1, <3>2, <3>3
  <2>3. CASE made' = made
    BY <1>0, <2>1, <2>3
  <2> QED
    BY <2>2, <2>3, RowSteps
<1> QED
  BY <1>1, <1>2, <1>4, <1>5 DEF PointersAreMade, Content

-----------------------------------------------------------------------------
(* Theorems.                                                                *)

\* The invariant the statements below rest on holds in every reachable state.
THEOREM InductiveInvariant == Spec => []IInv
<1>1. IInv /\ [Next]_vars => IInv'
  BY NextTypeOK, NextRowsAreDistinct, NextCleanRowsAreSafe, NextPointersAreMade,
     NextLinksLive, NextBlobsAreOwned DEF IInv
<1> QED
  BY InitIInv, <1>1, PTL DEF Spec

\* No collection, request or archiving takes a row from a mail that links to it, nor
\* the blob its creator wrote while no collector was about to delete that content
\* (CollectOrphans, attachment_service.go 85-103).
THEOREM LinksLoad == Spec => []SoundLinksLoad
<1>1. IInv => SoundLinksLoad
  BY DEF IInv, SoundLinksLoad, LinksLive, CleanRowsAreSafe
<1> QED
  BY InductiveInvariant, <1>1, PTL

\* A blob nobody will collect is due to a failure or to a Put that came after the
\* deletion of its row (CollectOrphans, attachment_service.go 85-103).
THEOREM WasteHasReason == Spec => []BlobsAreOwned
<1>1. IInv => BlobsAreOwned
  BY DEF IInv
<1> QED
  BY InductiveInvariant, <1>1, PTL
=============================================================================
