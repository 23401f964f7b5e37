---------------------------- MODULE StorageProofs ----------------------------
(* Proofs about StorageLease and RecordStorage, for any number of          *)
(* processes, records, writes and passes.                                  *)
EXTENDS RecordStorage, TLAPS

---------------------------------------------------------------------------
(* The lease.  What a process relies on is what its directory tells the    *)
(* others: it is there while the process is in, or may still come in.      *)

Marked == \A p \in Processes : at[p] \in {"made", "shared", "yielding"} => p \in leases
Owned == \A p \in Processes : at[p] \in {"draining", "exclusive"} => exclusive = p
LeaseInv == LeaseTypeOK /\ Marked /\ Owned /\ RunsAlone

LEMMA LeaseInitially == ASSUME LeaseInit PROVE LeaseInv
  BY LeaseAssumption DEF LeaseInit, LeaseInv, LeaseTypeOK, Marked, Owned, RunsAlone, Stages

\* No step of a process in the lease breaks what the others rely on.
LEMMA LeaseStep ==
  ASSUME LeaseInv, [LeaseNext]_leaseVars PROVE LeaseInv'
<1> USE DEF LeaseInv, LeaseTypeOK, Marked, Owned, RunsAlone, Stages, Moves
<1>1. CASE UNCHANGED leaseVars
  BY <1>1 DEF leaseVars
<1>2. ASSUME NEW p \in Processes, CheckShared(p) PROVE LeaseInv'
  BY <1>2 DEF CheckShared
<1>3. ASSUME NEW p \in Processes, MakeShared(p) PROVE LeaseInv'
  BY <1>3 DEF MakeShared
<1>4. ASSUME NEW p \in Processes, EnterShared(p) PROVE LeaseInv'
  BY <1>4, LeaseAssumption DEF EnterShared
<1>5. ASSUME NEW p \in Processes, YieldShared(p) PROVE LeaseInv'
  BY <1>5 DEF YieldShared
<1>6. ASSUME NEW p \in Processes, LeaveShared(p) PROVE LeaseInv'
  BY <1>6 DEF LeaveShared
<1>7. ASSUME NEW p \in Processes, MakeExclusive(p) PROVE LeaseInv'
  BY <1>7, LeaseAssumption DEF MakeExclusive
<1>8. ASSUME NEW p \in Processes, Drained(p) PROVE LeaseInv'
  BY <1>8 DEF Drained
<1>9. ASSUME NEW p \in Processes, LeaveExclusive(p) PROVE LeaseInv'
  BY <1>9, LeaseAssumption DEF LeaveExclusive
<1>10. ASSUME NEW p \in Processes, Crash(p) PROVE LeaseInv'
  BY <1>10, LeaseAssumption DEF Crash
<1> QED
  BY <1>1, <1>2, <1>3, <1>4, <1>5, <1>6, <1>7, <1>8, <1>9, <1>10
     DEF LeaseNext, Shared, Exclusively

THEOREM LeaseInvariant == LeaseSpec => []LeaseInv
  BY LeaseInitially, LeaseStep, PTL DEF LeaseSpec

\* FileLock: whatever the order of the file system calls, and whoever dies
\* between two of them, nobody runs beside an exclusive holder.
THEOREM LeaseExcludes == LeaseSpec => []RunsAlone
<1>1. LeaseInv => RunsAlone
  BY DEF LeaseInv
<1> QED
  BY <1>1, LeaseInvariant, PTL

\* Every file system call is a step of the port's promise, or none.
LEMMA LeaseSimulates ==
  ASSUME LeaseInv, [LeaseNext]_leaseVars
  PROVE  [Promise!ContractNext]_(Promise!contractVars)
<1> USE DEF Promise!contractVars
<1>1. CASE UNCHANGED leaseVars
  BY <1>1 DEF leaseVars
<1>2. ASSUME NEW p \in Processes,
             CheckShared(p) \/ MakeShared(p) \/ YieldShared(p)
      PROVE  UNCHANGED Promise!contractVars
  BY <1>2 DEF LeaseInv, LeaseTypeOK, CheckShared, MakeShared, YieldShared, Moves, Stages
<1>3. ASSUME NEW p \in Processes, EnterShared(p) PROVE Promise!Share(p)
  BY <1>3 DEF LeaseInv, LeaseTypeOK, EnterShared, Moves, Stages, Promise!Share
<1>4. ASSUME NEW p \in Processes, LeaveShared(p)
      PROVE  Promise!Unshare(p) \/ UNCHANGED Promise!contractVars
  BY <1>4 DEF LeaseInv, LeaseTypeOK, LeaveShared, Moves, Stages, Promise!Unshare
<1>5. ASSUME NEW p \in Processes, MakeExclusive(p) PROVE Promise!Ask(p)
  BY <1>5, LeaseAssumption
     DEF LeaseInv, LeaseTypeOK, MakeExclusive, Moves, Stages, Promise!Ask
<1>6. ASSUME NEW p \in Processes, Drained(p) PROVE Promise!Run(p)
  BY <1>6 DEF LeaseInv, LeaseTypeOK, Marked, Owned, Drained, Moves, Stages, Promise!Run
<1>7. ASSUME NEW p \in Processes, LeaveExclusive(p) PROVE Promise!Finish(p)
  BY <1>7, LeaseAssumption
     DEF LeaseInv, LeaseTypeOK, Owned, LeaveExclusive, Moves, Stages, Promise!Finish
<1>8. ASSUME NEW p \in Processes, Crash(p)
      PROVE  Promise!Unshare(p) \/ Promise!Abandon(p) \/ UNCHANGED Promise!contractVars
  <2>1. CASE at[p] = "shared"
    BY <1>8, <2>1 DEF LeaseInv, LeaseTypeOK, Crash, Stages, Promise!Unshare
  <2>2. CASE at[p] = "exclusive"
    BY <1>8, <2>2, LeaseAssumption
       DEF LeaseInv, LeaseTypeOK, Owned, Crash, Stages, Promise!Abandon
  <2>3. CASE at[p] \notin {"shared", "exclusive"}
    BY <1>8, <2>3 DEF LeaseInv, LeaseTypeOK, Crash, Stages
  <2> QED
    BY <2>1, <2>2, <2>3
<1> QED
  BY <1>1, <1>2, <1>3, <1>4, <1>5, <1>6, <1>7, <1>8
     DEF LeaseNext, Shared, Exclusively, Promise!ContractNext

\* The lease as directories implements the lease as the port describes it.
THEOREM LeaseImplements == LeaseSpec => LeaseKeepsPromise
<1>1. LeaseInit => Promise!ContractInit
  BY LeaseAssumption DEF LeaseInit, Promise!ContractInit
<1>2. LeaseInv /\ [LeaseNext]_leaseVars => [Promise!ContractNext]_(Promise!contractVars)
  BY LeaseSimulates
<1> QED
  BY <1>1, <1>2, LeaseInvariant, PTL DEF LeaseSpec, LeaseKeepsPromise, Promise!Contract

---------------------------------------------------------------------------
(* The records.  Whatever clients and operators do with the records, what  *)
(* they do with the lease is a step of it.                                 *)

LEMMA ClientsLease ==
  ASSUME NEW c \in Clients, Client(c) PROVE Shared(c) \/ UNCHANGED leaseVars
BY DEF Client, ClientLease, Route, Resolve, Read, Refused, WriteFile, RemoveFile, Fetch,
       WriteRow, RemoveRow, Shared

LEMMA OperatorsLease ==
  ASSUME NEW m \in Operators, Operator(m) PROVE Exclusively(m) \/ UNCHANGED leaseVars
BY DEF Operator, OperatorLease, Leave, Inventory, Reuse, Changed, Copy, RetireFile, Accept,
       EndPass, Check, Switch, MarkVerified, BeginRetire, Exclusively

LEMMA StorageTakesLease ==
  ASSUME [Next]_storageVars PROVE [LeaseNext]_leaseVars
<1>1. CASE UNCHANGED storageVars
  BY <1>1 DEF storageVars
<1>2. ASSUME NEW c \in Clients, Client(c) PROVE [LeaseNext]_leaseVars
  BY <1>2, ClientsLease, StorageAssumption DEF LeaseNext
<1>3. ASSUME NEW m \in Operators, Operator(m) PROVE [LeaseNext]_leaseVars
  BY <1>3, OperatorsLease, StorageAssumption DEF LeaseNext
<1>4. ASSUME NEW p \in Processes, Dies(p) PROVE [LeaseNext]_leaseVars
  BY <1>4 DEF Dies, LeaseNext
<1> QED
  BY <1>1, <1>2, <1>3, <1>4 DEF Next

THEOREM StorageImplementsLease == Spec => LeaseSpec
<1>1. Init => LeaseInit
  BY DEF Init
<1>2. [Next]_storageVars => [LeaseNext]_leaseVars
  BY StorageTakesLease
<1> QED
  BY <1>1, <1>2, PTL DEF Spec, LeaseSpec

\* The storage context as a whole: a migration or a retirement that runs
\* as a task never runs beside a leased operation on a record.
THEOREM StorageExcludes == Spec => []RunsAlone
  BY StorageImplementsLease, LeaseExcludes, PTL

\* And it keeps the promise the lock's port makes to it.
THEOREM StorageKeepsPromise == Spec => LeaseKeepsPromise
  BY StorageImplementsLease, LeaseImplements

---------------------------------------------------------------------------
(* The values of the records and of what the processes know of them.       *)

Codes == {"none", "files", "rows", "fetched", "done", "copying", "copied",
          "checking", "switching", "switched", "retiring"}
Job == [pc : Codes, todo : SUBSET Records, item : SUBSET Records,
        held : Record, blocked : BOOLEAN]
ItemRow == [outcome : {"none", "accepted", "changed"}, source : Record]

LEMMA Values ==
  /\ Absent \in Record
  /\ \A pc \in Codes : Doing(pc) \in Job
  /\ \A r \in Record : Item("accepted", r) \in ItemRow /\ Item("changed", r) \in ItemRow
<1>1. Absent \in Record
  BY DEF Absent, Record
<1> QED
  BY <1>1 DEF Doing, Job, Item, ItemRow

LEMMA Becoming ==
  ASSUME StorageTypeOK, NEW p \in Processes, NEW job \in Job, Becomes(p, job)
  PROVE  /\ jobs' \in [Processes -> Job] /\ jobs'[p] = job
         /\ \A q \in Processes : q # p => jobs'[q] = jobs[q]
BY DEF StorageTypeOK, Becomes, Job, Codes

LEMMA SuccessorType ==
  ASSUME StorageTypeOK, NEW r \in Record
  PROVE  Successor(r) \in Record /\ Successor(r) # Absent
<1>1. writes \in Nat
  BY StorageAssumption DEF StorageTypeOK
<1>2. r.rev \in Nat
  BY DEF Record
<1>3. r.rev + 1 \in Nat /\ r.rev + 1 # 0 /\ writes + 1 \in Nat
  BY <1>1, <1>2
<1> QED
  BY <1>3 DEF Successor, Record, Absent

\* Everything but the lease.
DataTypeOK ==
  /\ phase \in {"flat", "sqlite"}
  /\ flat \in [Records -> Record] /\ sqlite \in [Records -> Record]
  /\ items \in [Records -> ItemRow]
  /\ run \in {"none", "failed", "copying", "verified"}
  /\ jobs \in [Processes -> Job]
  /\ views \in [Clients -> Record] /\ truth \in [Records -> Record]
  /\ writes \in 0 .. MaxWrites /\ passes \in 0 .. MaxPasses

LEMMA TypesSplit == StorageTypeOK <=> LeaseTypeOK /\ DataTypeOK
  BY DEF StorageTypeOK, DataTypeOK, Job, ItemRow, Codes

LEMMA ClientTypes ==
  ASSUME StorageTypeOK, NEW c \in Clients, Client(c) PROVE DataTypeOK'
<1>1. DataTypeOK /\ c \in Processes /\ RecordOf[c] \in Records
  BY TypesSplit, StorageAssumption DEF Clients
<1>2. Stored(c) \in Record /\ views[c] \in Record
  BY <1>1 DEF Stored, DataTypeOK
<1>3. CASE UNCHANGED dataVars
  BY <1>1, <1>3 DEF dataVars, DataTypeOK
<1>4. ASSUME NEW job \in Job, Becomes(c, job) PROVE jobs' \in [Processes -> Job]
  BY <1>1, <1>4, Becoming
<1>5. Finished(c) => jobs' \in [Processes -> Job]
  <2>1. Doing("done") \in Job /\ NoJob \in Job
    BY Values DEF NoJob, Codes
  <2> QED
    BY <1>4, <2>1 DEF Finished
<1>6. CASE LeaveShared(c) /\ Becomes(c, NoJob)
           /\ UNCHANGED <<phase, flat, sqlite, items, run, views, truth, writes, passes>>
  BY <1>1, <1>4, <1>6, Values DEF NoJob, Codes, DataTypeOK
<1>7. CASE Route(c) \/ Resolve(c)
  <2>1. Doing("rows") \in Job /\ Doing("files") \in Job
    BY Values DEF Codes
  <2> QED
    BY <1>1, <1>4, <1>7, <2>1 DEF Route, Resolve, DataTypeOK
<1>8. CASE Read(c) \/ Refused(c)
  BY <1>1, <1>2, <1>5, <1>8 DEF Read, Refused, DataTypeOK
<1>9. ASSUME NEW r \in Record, Acknowledged(c, r)
      PROVE  /\ views' \in [Clients -> Record] /\ truth' \in [Records -> Record]
             /\ jobs' \in [Processes -> Job]
  BY <1>1, <1>5, <1>9 DEF Acknowledged, DataTypeOK
<1>10. CASE WriteFile(c)
  <2>1. Successor(Stored(c)) \in Record /\ Successor(flat[RecordOf[c]]) \in Record
    BY <1>1, <1>2, SuccessorType DEF DataTypeOK
  <2>2. flat' \in [Records -> Record] /\ writes' \in 0 .. MaxWrites
    BY <1>1, <1>10, <2>1, StorageAssumption DEF WriteFile, DataTypeOK
  <2> QED
    BY <1>1, <1>9, <1>10, <2>1, <2>2 DEF WriteFile, DataTypeOK
<1>11. CASE RemoveFile(c)
  BY <1>1, <1>9, <1>11, Values DEF RemoveFile, DataTypeOK
<1>12. CASE Fetch(c)
  <2>1. [Doing("fetched") EXCEPT !.held = Stored(c)] \in Job
    BY <1>2 DEF Doing, Job, Codes, Absent, Record
  <2> QED
    BY <1>1, <1>4, <1>12, <2>1 DEF Fetch, DataTypeOK
<1>13. CASE WriteRow(c)
  <2>1. jobs[c].held \in Record
    BY <1>1 DEF DataTypeOK, Job
  <2>2. Successor(jobs[c].held) \in Record
    BY <2>1, SuccessorType
  <2>3. sqlite' \in [Records -> Record] /\ writes' \in 0 .. MaxWrites
    BY <1>1, <1>13, <2>2, StorageAssumption DEF WriteRow, DataTypeOK
  <2> QED
    BY <1>1, <1>9, <1>13, <2>2, <2>3 DEF WriteRow, DataTypeOK
<1>14. CASE RemoveRow(c)
  BY <1>1, <1>9, <1>14, Values DEF RemoveRow, DataTypeOK
<1> QED
  BY <1>3, <1>6, <1>7, <1>8, <1>10, <1>11, <1>12, <1>13, <1>14 DEF Client, ClientLease

LEMMA OperatorTypes ==
  ASSUME StorageTypeOK, NEW m \in Operators, Operator(m) PROVE DataTypeOK'
<1>1. DataTypeOK /\ m \in Processes
  BY TypesSplit, StorageAssumption
<1>2. jobs[m] \in Job
  BY <1>1 DEF DataTypeOK
<1>3. ASSUME NEW job \in Job, Becomes(m, job) PROVE jobs' \in [Processes -> Job]
  BY <1>1, <1>3, Becoming
<1>4. ASSUME Ends(m) PROVE jobs' \in [Processes -> Job]
  <2>1. Doing("done") \in Job /\ NoJob \in Job
    BY Values DEF NoJob, Codes
  <2> QED
    BY <1>3, <1>4, <2>1 DEF Ends
<1>5. \A k \in Records, b \in BOOLEAN : Treated(m, k, b) \in Job
  BY <1>2 DEF Treated, Job, Codes, Absent, Record
<1>6. CASE OperatorLease(m)
  BY <1>1, <1>6 DEF OperatorLease, dataVars, DataTypeOK
<1>7. CASE Leave(m)
  <2>1. NoJob \in Job
    BY Values DEF NoJob, Codes
  <2> QED
    BY <1>1, <1>3, <1>7, <2>1 DEF Leave, DataTypeOK
<1>8. CASE Inventory(m)
  <2>1. [Doing("copying") EXCEPT !.todo = Present] \in Job
    BY DEF Doing, Job, Codes, Absent, Record, Present
  <2> QED
    BY <1>1, <1>3, <1>8, <2>1, StorageAssumption DEF Inventory, DataTypeOK
<1>9. ASSUME NEW k \in Records, Reuse(m, k) \/ Changed(m, k) \/ Copy(m, k) \/ RetireFile(m, k)
      PROVE  DataTypeOK'
  <2>1. flat[k] \in Record
    BY <1>1 DEF DataTypeOK
  <2>2. CASE Reuse(m, k)
    BY <1>1, <1>3, <1>5, <2>2 DEF Reuse, DataTypeOK
  <2>3. CASE Changed(m, k)
    <3>1. Item("changed", flat[k]) \in ItemRow
      BY <2>1, Values
    <3> QED
      BY <1>1, <1>3, <1>5, <2>3, <3>1 DEF Changed, DataTypeOK
  <2>4. CASE Copy(m, k)
    <3>1. [jobs[m] EXCEPT !.pc = "copied", !.item = {k}, !.held = flat[k]] \in Job
      BY <1>2, <2>1 DEF Job, Codes
    <3> QED
      BY <1>1, <1>3, <2>1, <2>4, <3>1 DEF Copy, DataTypeOK
  <2>5. CASE RetireFile(m, k)
    <3>1. [jobs[m] EXCEPT !.todo = @ \ {k}] \in Job
      BY <1>2 DEF Job
    <3> QED
      BY <1>1, <1>3, <2>5, <3>1, Values DEF RetireFile, DataTypeOK
  <2> QED
    BY <1>9, <2>2, <2>3, <2>4, <2>5
<1>10. CASE Accept(m)
  <2>1. PICK k \in jobs[m].item :
           /\ items' = [items EXCEPT ![k] = Item("accepted", jobs[m].held)]
           /\ Becomes(m, Treated(m, k, FALSE))
    BY <1>10 DEF Accept
  <2>2. k \in Records /\ Item("accepted", jobs[m].held) \in ItemRow
    BY <1>2, <2>1, Values DEF Job
  <2>3. Treated(m, k, FALSE) \in Job
    BY <1>5, <2>2
  <2>4. items' \in [Records -> ItemRow] /\ jobs' \in [Processes -> Job]
    BY <1>1, <1>3, <2>1, <2>2, <2>3 DEF DataTypeOK
  <2> QED
    BY <1>1, <1>10, <2>4 DEF Accept, DataTypeOK
<1>11. CASE EndPass(m)
  <2>1. Doing("checking") \in Job
    BY Values DEF Codes
  <2>2. jobs' \in [Processes -> Job] /\ run' \in {"failed", "verified", "copying"}
    BY <1>3, <1>4, <1>11, <2>1 DEF EndPass, RunState
  <2> QED
    BY <1>1, <1>11, <2>2 DEF EndPass, DataTypeOK
<1>12. CASE Check(m) \/ Switch(m) \/ MarkVerified(m)
  <2>1. Doing("switching") \in Job /\ Doing("switched") \in Job
    BY Values DEF Codes
  <2>2. jobs' \in [Processes -> Job]
    BY <1>3, <1>4, <1>12, <2>1 DEF Check, Switch, MarkVerified
  <2> QED
    BY <1>1, <1>12, <2>2 DEF Check, Switch, MarkVerified, DataTypeOK
<1>13. CASE BeginRetire(m)
  <2>1. [Doing("retiring") EXCEPT !.todo = Present] \in Job
    BY DEF Doing, Job, Codes, Absent, Record, Present
  <2> QED
    BY <1>1, <1>3, <1>13, <2>1 DEF BeginRetire, DataTypeOK
<1> QED
  BY <1>6, <1>7, <1>8, <1>9, <1>10, <1>11, <1>12, <1>13 DEF Operator

TypedInv == LeaseInv /\ StorageTypeOK

LEMMA TypedInit == Init => TypedInv
<1> SUFFICES ASSUME Init PROVE TypedInv
  OBVIOUS
<1>1. LeaseInv
  BY LeaseInitially DEF Init
<1>2. NoJob \in Job /\ Absent \in Record /\ NoItem \in ItemRow
  BY Values DEF NoJob, Codes, NoItem, ItemRow
<1>3. DataTypeOK
  BY <1>2, StorageAssumption DEF Init, DataTypeOK
<1> QED
  BY <1>1, <1>3, TypesSplit DEF LeaseInv, TypedInv

LEMMA TypedStep == TypedInv /\ [Next]_storageVars => TypedInv'
<1> SUFFICES ASSUME TypedInv, [Next]_storageVars PROVE TypedInv'
  OBVIOUS
<1>1. LeaseInv'
  BY StorageTakesLease, LeaseStep DEF TypedInv
<1>2. CASE UNCHANGED dataVars
  BY <1>1, <1>2 DEF TypedInv, LeaseInv, StorageTypeOK, dataVars
<1>3. ASSUME DataTypeOK' PROVE TypedInv'
  BY <1>1, <1>3 DEF TypedInv, LeaseInv, StorageTypeOK, DataTypeOK, Job, ItemRow, Codes
<1>4. ASSUME NEW p \in Processes, Dies(p) PROVE TypedInv'
  BY <1>2, <1>4 DEF Dies
<1> QED
  BY <1>2, <1>3, <1>4, ClientTypes, OperatorTypes DEF Next, storageVars, TypedInv

\* Every table, file, job and page of the storage context keeps its type, for any
\* records, processes, writes and passes.
THEOREM StorageTypes == Spec => []StorageTypeOK
<1>1. TypedInv => StorageTypeOK
  BY DEF TypedInv
<1> QED
  BY <1>1, TypedInit, TypedStep, PTL DEF Spec

---------------------------------------------------------------------------
(* The records that pages keep under the lease and never remove, when      *)
(* every operator is a task: the task that switches or retires has proved  *)
(* every one of them, and nobody wrote it since.                           *)

Kept == Records \ (Removable \cup {RecordOf[c] : c \in Services})

\* Before the switch SQLite holds no record that the files do not; after it every file
\* that is left is as its item was accepted.
RecordKept(k) ==
  /\ Authority(k) = truth[k]
  /\ phase = "flat" /\ flat[k] = Absent => sqlite[k] = Absent
  /\ phase = "sqlite" /\ flat[k] # Absent => Verified(k)

\* A page uses the backend that is the authority for as long as it holds the lease.
PageOK(c) ==
  /\ at[c] \notin {"shared", "crashed"} => jobs[c] = NoJob
  /\ at[c] = "shared" =>
       /\ jobs[c].pc = "files" => phase = "flat"
       /\ jobs[c].pc \in {"rows", "fetched"} => phase = "sqlite"

\* What a task has established of a record by the point its pass is at.
PassOK(m, k) ==
  /\ jobs[m].pc \in {"copying", "copied"} /\ flat[k] # Absent /\ k \notin jobs[m].todo
       => Verified(k) \/ items[k].outcome = "changed"
  /\ jobs[m].pc = "copied" /\ k \in jobs[m].item => jobs[m].held = flat[k]
  /\ jobs[m].pc \in {"checking", "switching"} /\ flat[k] # Absent => Verified(k)
  /\ jobs[m].pc = "switching" /\ phase = "flat" /\ flat[k] # Absent => sqlite[k] = flat[k]
  /\ jobs[m].pc = "retiring" => phase = "sqlite"

TaskOK(m) ==
  /\ at[m] \notin {"exclusive", "crashed"} => jobs[m] = NoJob
  /\ at[m] = "exclusive" => \A k \in Kept : PassOK(m, k)

KeptInv ==
  /\ \A k \in Kept : RecordKept(k)
  /\ \A c \in Pages : PageOK(c)
  /\ \A m \in Operators : TaskOK(m)

LEMMA NoJobIs == NoJob.pc = "none"
  BY DEF NoJob, Doing

LEMMA PageAtWork ==
  ASSUME NEW c \in Pages, PageOK(c), NEW b \in {"files", "rows", "fetched"}, On(c, b)
  PROVE  at[c] = "shared" /\ (b = "files" => phase = "flat") /\ (b # "files" => phase = "sqlite")
BY NoJobIs DEF PageOK, On

\* A client's step as far as a kept record is concerned: none, or a page's write to the
\* authority.
LEMMA ClientWrites ==
  ASSUME TypedInv, KeptInv, NEW c \in Clients, Client(c), NEW k \in Kept
  PROVE  /\ phase' = phase /\ items' = items
         /\ \/ flat'[k] = flat[k] /\ sqlite'[k] = sqlite[k] /\ truth'[k] = truth[k]
            \/ /\ c \in Pages /\ at[c] = "shared"
               /\ \/ /\ phase = "flat" /\ flat'[k] = truth'[k]
                     /\ flat'[k] # Absent /\ sqlite'[k] = sqlite[k]
                  \/ phase = "sqlite" /\ sqlite'[k] = truth'[k] /\ flat'[k] = flat[k]
<1>1. DataTypeOK /\ k \in Records /\ k \notin Removable /\ RecordOf[c] \in Records
  BY TypesSplit, StorageAssumption DEF TypedInv, Kept, Clients
<1>2. phase' = phase /\ items' = items
  BY DEF Client, ClientLease, Route, Resolve, Read, Refused, WriteFile, RemoveFile, Fetch,
         WriteRow, RemoveRow, dataVars
<1>3. CASE UNCHANGED <<flat, sqlite, truth>>
  BY <1>2, <1>3
<1>4. CASE k # RecordOf[c]
  <2>1. CASE WriteFile(c) \/ RemoveFile(c) \/ WriteRow(c) \/ RemoveRow(c)
    BY <1>1, <1>2, <1>4, <2>1 DEF WriteFile, RemoveFile, WriteRow, RemoveRow, Acknowledged, DataTypeOK
  <2>2. CASE ~(WriteFile(c) \/ RemoveFile(c) \/ WriteRow(c) \/ RemoveRow(c))
    BY <1>3, <2>2 DEF Client, ClientLease, Route, Resolve, Read, Refused, Fetch, dataVars
  <2> QED
    BY <2>1, <2>2
<1>5. CASE k = RecordOf[c]
  <2>1. c \in Pages /\ PageOK(c)
    BY <1>5 DEF Kept, Clients, KeptInv
  <2>2. CASE WriteFile(c)
    <3>1. at[c] = "shared" /\ phase = "flat"
      BY <2>1, <2>2, PageAtWork DEF WriteFile
    <3>2. jobs[c].pc = "files" /\ Stored(c) = flat[k] /\ flat[k] \in Record
      BY <1>1, <1>5, <2>2 DEF WriteFile, On, Stored, DataTypeOK
    <3>3. Successor(flat[k]) # Absent
      BY <3>2, SuccessorType DEF TypedInv
    <3>4. flat'[k] = Successor(flat[k]) /\ truth'[k] = Successor(flat[k]) /\ sqlite' = sqlite
      BY <1>1, <1>5, <2>2, <3>2 DEF WriteFile, Acknowledged, DataTypeOK
    <3> QED
      BY <1>2, <2>1, <3>1, <3>3, <3>4
  <2>3. CASE WriteRow(c)
    <3>1. at[c] = "shared" /\ phase = "sqlite"
      BY <2>1, <2>3, PageAtWork DEF WriteRow
    <3>2. sqlite'[k] = truth'[k] /\ flat' = flat
      BY <1>1, <1>5, <2>3 DEF WriteRow, Acknowledged, DataTypeOK
    <3> QED
      BY <1>2, <2>1, <3>1, <3>2
  <2>4. CASE ~WriteFile(c) /\ ~WriteRow(c)
    BY <1>1, <1>3, <1>5, <2>4 DEF Client, ClientLease, Route, Resolve, Read, Refused, Fetch,
        RemoveFile, RemoveRow, dataVars
  <2> QED
    BY <2>2, <2>3, <2>4
<1> QED
  BY <1>4, <1>5

\* Nobody's place or job but the client's own changes, and a page's backend follows.
LEMMA ClientMoves ==
  ASSUME TypedInv, NEW c \in Clients, Client(c)
  PROVE  /\ \A q \in Processes : q # c => at'[q] = at[q] /\ jobs'[q] = jobs[q]
         /\ c \in Pages /\ PageOK(c) => PageOK(c)'
<1>1. /\ DataTypeOK /\ at \in [Processes -> Stages] /\ c \in Processes
  BY TypesSplit, StorageAssumption DEF TypedInv, LeaseTypeOK, Clients
<1>2. /\ Doing("done").pc = "done" /\ Doing("files").pc = "files" /\ Doing("rows").pc = "rows"
      /\ \A r : [Doing("fetched") EXCEPT !.held = r].pc = "fetched"
  BY DEF Doing
<1>3. \A q \in Processes : q # c => at'[q] = at[q]
  BY <1>1 DEF Client, ClientLease, CheckShared, MakeShared, EnterShared, YieldShared, LeaveShared,
      Moves, Route, Resolve, Read, Refused, WriteFile, RemoveFile, Fetch, WriteRow, RemoveRow, leaseVars
<1>4. \A q \in Processes : q # c => jobs'[q] = jobs[q]
  BY <1>1 DEF Client, ClientLease, Route, Resolve, Read, Refused, WriteFile, RemoveFile, Fetch,
      WriteRow, RemoveRow, Acknowledged, Finished, Becomes, dataVars, DataTypeOK
<1>5. ASSUME c \in Pages, PageOK(c) PROVE PageOK(c)'
  <2>1. phase' = phase
    BY DEF Client, ClientLease, Route, Resolve, Read, Refused, WriteFile, RemoveFile, Fetch,
           WriteRow, RemoveRow, dataVars
  <2>2. ASSUME NEW job, Becomes(c, job) PROVE jobs'[c] = job
    BY <1>1, <2>2 DEF Becomes, DataTypeOK
  <2>3. CASE ClientLease(c)
    <3>1. CASE LeaveShared(c) /\ Becomes(c, NoJob)
      BY <1>1, <2>2, <3>1 DEF LeaveShared, Moves, PageOK
    <3>2. CASE ~(LeaveShared(c) /\ Becomes(c, NoJob))
      <4>1. jobs'[c] = NoJob /\ at'[c] \in {"checked", "made", "shared", "yielding"}
        BY <1>1, <1>5, <2>3, <3>2 DEF ClientLease, CheckShared, MakeShared, EnterShared,
            YieldShared, Moves, PageOK, dataVars
      <4> QED
        BY <4>1, NoJobIs DEF PageOK
    <3> QED
      BY <3>1, <3>2
  <2>4. CASE Route(c)
    <3>1. at'[c] = "shared" /\ jobs'[c] = Doing(IF phase = "sqlite" THEN "rows" ELSE "files")
      BY <2>2, <2>4 DEF Route, leaseVars
    <3>2. phase = "flat" \/ phase = "sqlite"
      BY <1>1 DEF DataTypeOK
    <3> QED
      BY <1>2, <2>1, <3>1, <3>2 DEF PageOK
  <2>5. CASE Resolve(c)
    BY <1>5, <2>5, StorageAssumption DEF Resolve
  <2>6. CASE Read(c) \/ Refused(c) \/ WriteFile(c) \/ RemoveFile(c) \/ WriteRow(c) \/ RemoveRow(c)
    <3>1. \E b \in {"files", "rows", "fetched"} : On(c, b)
      BY <2>6 DEF Read, Refused, WriteFile, RemoveFile, WriteRow, RemoveRow
    <3>2. at[c] = "shared"
      BY <1>5, <3>1, PageAtWork
    <3>3. Finished(c) /\ at' = at
      BY <2>6 DEF Read, Refused, WriteFile, RemoveFile, WriteRow, RemoveRow, Acknowledged, leaseVars
    <3>4. jobs'[c] = Doing("done")
      BY <2>2, <3>2, <3>3 DEF Finished
    <3> QED
      BY <1>2, <3>2, <3>3, <3>4 DEF PageOK
  <2>7. CASE Fetch(c)
    <3>1. at[c] = "shared" /\ phase = "sqlite" /\ at' = at
      BY <1>5, <2>7, PageAtWork DEF Fetch, leaseVars
    <3>2. jobs'[c] = [Doing("fetched") EXCEPT !.held = Stored(c)]
      BY <2>2, <2>7 DEF Fetch
    <3> QED
      BY <1>2, <2>1, <3>1, <3>2 DEF PageOK
  <2> QED
    BY <2>3, <2>4, <2>5, <2>6, <2>7 DEF Client
<1> QED
  BY <1>3, <1>4, <1>5

LEMMA ClientKeeps ==
  ASSUME TypedInv, KeptInv, NEW c \in Clients, Client(c)
  PROVE  KeptInv'
<1>1. /\ \A q \in Processes : q # c => at'[q] = at[q] /\ jobs'[q] = jobs[q]
      /\ c \in Pages /\ PageOK(c) => PageOK(c)'
  BY ClientMoves
<1>2. /\ Pages \subseteq Processes /\ Operators \subseteq Processes /\ c \notin Operators
      /\ c \in Processes
  BY StorageAssumption DEF Clients
<1>3. phase' = phase /\ items' = items
  BY DEF Client, ClientLease, Route, Resolve, Read, Refused, WriteFile, RemoveFile, Fetch,
         WriteRow, RemoveRow, dataVars
<1>4. ASSUME NEW k \in Kept PROVE RecordKept(k)'
  <2>1. RecordKept(k)
    BY DEF KeptInv
  <2> QED
    BY <1>3, <2>1, ClientWrites DEF RecordKept, Authority, Verified
<1>5. ASSUME NEW d \in Pages PROVE PageOK(d)'
  <2>1. CASE d = c
    BY <1>1, <2>1 DEF KeptInv
  <2>2. CASE d # c
    BY <1>1, <1>2, <1>3, <2>2 DEF KeptInv, PageOK
  <2> QED
    BY <2>1, <2>2
<1>6. ASSUME NEW m \in Operators PROVE TaskOK(m)'
  <2>1. at'[m] = at[m] /\ jobs'[m] = jobs[m] /\ m # c /\ TaskOK(m)
    BY <1>1, <1>2 DEF KeptInv
  <2>2. ASSUME at[m] = "exclusive", NEW k \in Kept PROVE PassOK(m, k)'
    <3>1. at[c] # "shared"
      BY <1>2, <2>1, <2>2 DEF TypedInv, LeaseInv, RunsAlone
    <3>2. flat'[k] = flat[k] /\ sqlite'[k] = sqlite[k] /\ PassOK(m, k)
      BY <2>1, <2>2, <3>1, ClientWrites DEF TaskOK
    <3> QED
      BY <1>3, <2>1, <3>2 DEF PassOK, Verified
  <2> QED
    BY <2>1, <2>2 DEF TaskOK
<1> QED
  BY <1>4, <1>5, <1>6 DEF KeptInv

\* A task at work is alone: what it leaves true of the records and of its own pass is all
\* there is to show.
LEMMA WorkKeeps ==
  ASSUME TypedInv, KeptInv, NEW m \in Operators, at[m] = "exclusive", at' = at,
         \A q \in Processes : q # m => jobs'[q] = jobs[q],
         \A k \in Kept : RecordKept(k)' /\ PassOK(m, k)'
  PROVE  KeptInv'
<1>1. /\ Pages \subseteq Processes /\ Operators \subseteq Processes /\ m \notin Pages
  BY StorageAssumption DEF Clients
<1>2. \A q \in Processes : q # m => at[q] \notin {"shared", "exclusive"}
  BY <1>1 DEF TypedInv, LeaseInv, RunsAlone
<1>3. ASSUME NEW c \in Pages PROVE PageOK(c)'
  BY <1>1, <1>2 DEF KeptInv, PageOK
<1>4. ASSUME NEW t \in Operators PROVE TaskOK(t)'
  <2>1. CASE t = m
    BY <2>1 DEF TaskOK
  <2>2. CASE t # m
    BY <1>1, <1>2, <2>2 DEF KeptInv, TaskOK
  <2> QED
    BY <2>1, <2>2
<1> QED
  BY <1>3, <1>4 DEF KeptInv

LEMMA BecomesJob ==
  ASSUME TypedInv, NEW m \in Operators, NEW job, Becomes(m, job)
  PROVE  jobs'[m] = job /\ \A q \in Processes : q # m => jobs'[q] = jobs[q]
<1>1. jobs \in [Processes -> Job] /\ m \in Processes
  BY TypesSplit, StorageAssumption DEF TypedInv, DataTypeOK
<1> QED
  BY <1>1 DEF Becomes

LEMMA TreatedIs ==
  ASSUME TypedInv, NEW m \in Operators, NEW k \in Records, NEW b \in BOOLEAN
  PROVE  Treated(m, k, b).pc = "copying" /\ Treated(m, k, b).todo = jobs[m].todo \ {k}
<1>1. jobs[m] \in Job
  BY TypesSplit, StorageAssumption DEF TypedInv, DataTypeOK
<1> QED
  BY <1>1 DEF Treated, Job

LEMMA DoingIs == \A pc : Doing(pc).pc = pc
  BY DEF Doing

\* A pass that ends, or a task that has nothing more to do.
LEMMA EndsOK ==
  ASSUME TypedInv, NEW m \in Operators, NEW k, jobs'[m].pc \in {"none", "done"}
  PROVE  PassOK(m, k)'
BY DEF PassOK

LEMMA EndsIs ==
  ASSUME TypedInv, NEW m \in Operators, Ends(m)
  PROVE  /\ jobs'[m].pc \in {"none", "done"}
         /\ \A q \in Processes : q # m => jobs'[q] = jobs[q]
BY BecomesJob, DoingIs, NoJobIs DEF Ends

LEMMA LeaseMovesKeep ==
  ASSUME TypedInv, KeptInv, NEW m \in Operators, OperatorLease(m) \/ Leave(m), Managed = Operators
  PROVE  KeptInv'
<1>1. /\ at \in [Processes -> Stages] /\ m \in Processes /\ m \notin Pages
      /\ Pages \subseteq Processes /\ Operators \subseteq Processes
  BY StorageAssumption DEF TypedInv, LeaseInv, LeaseTypeOK, Clients
<1>2. UNCHANGED <<phase, flat, sqlite, items, truth>>
  BY DEF OperatorLease, Leave, dataVars
<1>3. /\ at[m] \in {"out", "draining", "exclusive"} /\ at'[m] \in {"draining", "exclusive", "out"}
      /\ at'[m] = "exclusive" => at[m] = "draining"
      /\ \A q \in Processes : q # m => at'[q] = at[q]
  BY <1>1 DEF OperatorLease, Leave, MakeExclusive, Drained, LeaveExclusive, Moves
<1>4. jobs'[m] = NoJob /\ \A q \in Processes : q # m => jobs'[q] = jobs[q]
  <2>1. CASE OperatorLease(m)
    BY <1>3, <2>1 DEF OperatorLease, MakeExclusive, Drained, Moves, KeptInv, TaskOK, dataVars
  <2>2. CASE Leave(m)
    BY <2>2, BecomesJob DEF Leave
  <2> QED
    BY <2>1, <2>2
<1>5. ASSUME NEW k \in Kept PROVE RecordKept(k)'
  BY <1>2 DEF KeptInv, RecordKept, Authority, Verified
<1>6. ASSUME NEW c \in Pages PROVE PageOK(c)'
  BY <1>1, <1>2, <1>3, <1>4 DEF KeptInv, PageOK
<1>7. ASSUME NEW t \in Operators PROVE TaskOK(t)'
  <2>1. CASE t = m
    BY <1>4, <2>1, NoJobIs DEF TaskOK, PassOK
  <2>2. CASE t # m
    BY <1>1, <1>2, <1>3, <1>4, <2>2 DEF KeptInv, TaskOK, PassOK, Verified
  <2> QED
    BY <2>1, <2>2
<1> QED
  BY <1>5, <1>6, <1>7 DEF KeptInv

\* Copying: every record is accepted as it is, or blocks the switch.
LEMMA CopyKeeps ==
  ASSUME TypedInv, KeptInv, NEW m \in Operators, Managed = Operators, NEW i \in Records,
         Reuse(m, i) \/ Changed(m, i) \/ Copy(m, i)
  PROVE  KeptInv'
<1>1. DataTypeOK /\ jobs[m] \in Job
  BY TypesSplit, StorageAssumption DEF TypedInv, DataTypeOK
<1>2. at[m] = "exclusive" /\ at' = at /\ jobs[m].pc = "copying" /\ i \in jobs[m].todo
  BY DEF Reuse, Changed, Copy, Works, Entitled, leaseVars
<1>3. UNCHANGED <<phase, flat, truth>>
  BY DEF Reuse, Changed, Copy
<1>4. ASSUME NEW k \in Kept
      PROVE  k \in Records /\ RecordKept(k) /\ PassOK(m, k)
  BY <1>2, <1>4 DEF Kept, KeptInv, TaskOK
<1>5. CASE Reuse(m, i)
  <2>1. jobs'[m] = Treated(m, i, FALSE) /\ \A q \in Processes : q # m => jobs'[q] = jobs[q]
    BY <1>5, BecomesJob DEF Reuse
  <2>2. jobs'[m].pc = "copying" /\ jobs'[m].todo = jobs[m].todo \ {i}
    BY <2>1, TreatedIs
  <2>3. items' = items /\ sqlite' = sqlite /\ items[i] = Item("accepted", flat[i])
    BY <1>5 DEF Reuse
  <2>4. ASSUME NEW k \in Kept PROVE RecordKept(k)' /\ PassOK(m, k)'
    BY <1>2, <1>3, <1>4, <2>2, <2>3 DEF RecordKept, Authority, Verified, PassOK
  <2> QED
    BY <1>2, <2>1, <2>4, WorkKeeps
<1>6. CASE Changed(m, i)
  <2>1. jobs'[m] = Treated(m, i, TRUE) /\ \A q \in Processes : q # m => jobs'[q] = jobs[q]
    BY <1>6, BecomesJob DEF Changed
  <2>2. jobs'[m].pc = "copying" /\ jobs'[m].todo = jobs[m].todo \ {i}
    BY <2>1, TreatedIs
  <2>3. /\ sqlite' = sqlite /\ items[i].source # flat[i] /\ flat[i] # Absent
        /\ items' = [items EXCEPT ![i] = Item("changed", flat[i])]
    BY <1>6 DEF Changed, Present
  <2>4. items'[i].outcome = "changed" /\ \A k \in Records : k # i => items'[k] = items[k]
    BY <1>1, <2>3 DEF DataTypeOK, Item
  <2>5. ASSUME i \in Kept PROVE phase # "sqlite"
    <3>1. RecordKept(i)
      BY <1>4, <2>5
    <3>2. Verified(i) => items[i].outcome = "accepted" /\ items[i].source = flat[i]
      BY DEF Verified, Item
    <3> QED
      BY <2>3, <3>1, <3>2 DEF RecordKept
  <2>6. ASSUME NEW k \in Kept PROVE RecordKept(k)' /\ PassOK(m, k)'
    BY <1>2, <1>3, <1>4, <2>2, <2>3, <2>4, <2>5 DEF RecordKept, Authority, Verified, PassOK
  <2> QED
    BY <1>2, <2>1, <2>6, WorkKeeps
<1>7. CASE Copy(m, i)
  <2> DEFINE job == [jobs[m] EXCEPT !.pc = "copied", !.item = {i}, !.held = flat[i]]
  <2>1. jobs'[m] = job /\ \A q \in Processes : q # m => jobs'[q] = jobs[q]
    BY <1>7, BecomesJob DEF Copy
  <2>2. /\ jobs'[m].pc = "copied" /\ jobs'[m].todo = jobs[m].todo
        /\ jobs'[m].item = {i} /\ jobs'[m].held = flat[i]
    BY <1>1, <2>1 DEF Job
  <2>3. /\ items' = items /\ items[i].outcome # "accepted" /\ flat[i] # Absent
        /\ sqlite' = [sqlite EXCEPT ![i] = flat[i]]
    BY <1>7 DEF Copy, Present
  <2>4. sqlite'[i] = flat[i] /\ \A k \in Records : k # i => sqlite'[k] = sqlite[k]
    BY <1>1, <2>3 DEF DataTypeOK
  <2>5. ASSUME i \in Kept PROVE phase # "sqlite"
    <3>1. RecordKept(i)
      BY <1>4, <2>5
    <3>2. Verified(i) => items[i].outcome = "accepted" /\ items[i].source = flat[i]
      BY DEF Verified, Item
    <3> QED
      BY <2>3, <3>1, <3>2 DEF RecordKept
  <2>6. ASSUME NEW k \in Kept PROVE RecordKept(k)'
    BY <1>3, <1>4, <2>3, <2>4, <2>5 DEF RecordKept, Authority, Verified
  <2>7. ASSUME NEW k \in Kept PROVE PassOK(m, k)'
    BY <1>2, <1>3, <1>4, <2>2, <2>3 DEF PassOK, Verified
  <2> QED
    BY <1>2, <2>1, <2>6, <2>7, WorkKeeps
<1> QED
  BY <1>5, <1>6, <1>7

LEMMA AcceptKeeps ==
  ASSUME TypedInv, KeptInv, NEW m \in Operators, Managed = Operators, Accept(m)
  PROVE  KeptInv'
<1>1. DataTypeOK /\ jobs[m] \in Job
  BY TypesSplit, StorageAssumption DEF TypedInv, DataTypeOK
<1>2. PICK i \in jobs[m].item :
         /\ items' = [items EXCEPT ![i] = Item("accepted", jobs[m].held)]
         /\ Becomes(m, Treated(m, i, FALSE))
  BY DEF Accept
<1>3. /\ at[m] = "exclusive" /\ at' = at /\ jobs[m].pc = "copied" /\ i \in Records
      /\ UNCHANGED <<phase, flat, sqlite, truth>>
  BY <1>1, <1>2 DEF Accept, Works, Entitled, leaseVars, Job
<1>4. /\ jobs'[m].pc = "copying" /\ jobs'[m].todo = jobs[m].todo \ {i}
      /\ \A q \in Processes : q # m => jobs'[q] = jobs[q]
  <2>1. jobs'[m] = Treated(m, i, FALSE) /\ \A q \in Processes : q # m => jobs'[q] = jobs[q]
    BY <1>2, BecomesJob
  <2>2. /\ Treated(m, i, FALSE).pc = "copying"
        /\ Treated(m, i, FALSE).todo = jobs[m].todo \ {i}
    BY <1>3, TreatedIs
  <2> QED
    BY <2>1, <2>2
<1>5. /\ items'[i] = Item("accepted", jobs[m].held)
      /\ \A k \in Records : k # i => items'[k] = items[k]
  BY <1>1, <1>2, <1>3 DEF DataTypeOK
<1>6. ASSUME NEW k \in Kept PROVE RecordKept(k)' /\ PassOK(m, k)'
  <2>1. k \in Records /\ RecordKept(k) /\ PassOK(m, k)
    BY <1>3 DEF Kept, KeptInv, TaskOK
  <2>2. k = i => jobs[m].held = flat[k]
    BY <1>2, <1>3, <2>1 DEF PassOK
  <2> QED
    BY <1>3, <1>4, <1>5, <2>1, <2>2 DEF RecordKept, Authority, Verified, PassOK
<1> QED
  BY <1>3, <1>4, <1>6, WorkKeeps

\* The end of the pass, the checks and the switch: parity of every file that is there,
\* and no row of a file that is not.
LEMMA SwitchKeeps ==
  ASSUME TypedInv, KeptInv, NEW m \in Operators, Managed = Operators,
         EndPass(m) \/ Check(m) \/ Switch(m) \/ MarkVerified(m) \/ Inventory(m)
  PROVE  KeptInv'
<1>1. DataTypeOK
  BY TypesSplit DEF TypedInv
<1>2. /\ at[m] = "exclusive" /\ at' = at
      /\ UNCHANGED <<flat, sqlite, items, truth>>
  BY DEF EndPass, Check, Switch, MarkVerified, Inventory, Works, Entitled, leaseVars
<1>3. ASSUME NEW k \in Kept
      PROVE  k \in Records /\ RecordKept(k) /\ PassOK(m, k)
  BY <1>2, <1>3 DEF Kept, KeptInv, TaskOK
<1>4. ASSUME phase' = phase, NEW k \in Kept PROVE RecordKept(k)'
  BY <1>2, <1>3, <1>4 DEF RecordKept, Authority, Verified
<1>5. ASSUME Ends(m), phase' = phase PROVE KeptInv'
  BY <1>2, <1>4, <1>5, EndsIs, EndsOK, WorkKeeps
<1>6. CASE EndPass(m)
  <2>1. CASE Ends(m)
    BY <1>5, <1>6, <2>1 DEF EndPass
  <2>2. CASE ~Ends(m)
    <3>1. /\ jobs[m].pc = "copying" /\ jobs[m].todo = {} /\ ~Blocked(m)
          /\ Becomes(m, Doing("checking")) /\ phase' = phase
      BY <1>6, <2>2 DEF EndPass, Works
    <3>2. jobs'[m].pc = "checking" /\ \A q \in Processes : q # m => jobs'[q] = jobs[q]
      BY <3>1, BecomesJob, DoingIs
    <3>3. \A k \in Records : items[k].outcome # "changed"
      BY <3>1 DEF Blocked
    <3>4. ASSUME NEW k \in Kept PROVE PassOK(m, k)'
      BY <1>2, <1>3, <3>1, <3>2, <3>3 DEF PassOK, Verified
    <3> QED
      BY <1>2, <1>4, <3>1, <3>2, <3>4, WorkKeeps
  <2> QED
    BY <2>1, <2>2
<1>7. CASE Check(m)
  <2>1. CASE Ends(m)
    BY <1>5, <1>7, <2>1 DEF Check
  <2>2. CASE ~Ends(m)
    <3>1. jobs[m].pc = "checking" /\ Parity /\ Becomes(m, Doing("switching")) /\ phase' = phase
      BY <1>7, <2>2 DEF Check, Works
    <3>2. jobs'[m].pc = "switching" /\ \A q \in Processes : q # m => jobs'[q] = jobs[q]
      BY <3>1, BecomesJob, DoingIs
    <3>3. ASSUME NEW k \in Kept PROVE PassOK(m, k)'
      <4>1. phase = "flat" /\ flat[k] # Absent => sqlite[k] = flat[k]
        BY <1>3, <3>1 DEF Parity, Present
      <4> QED
        BY <1>2, <1>3, <3>1, <3>2, <4>1 DEF PassOK, Verified
    <3> QED
      BY <1>2, <1>4, <3>1, <3>2, <3>3, WorkKeeps
  <2> QED
    BY <2>1, <2>2
<1>8. CASE Switch(m)
  <2>1. jobs[m].pc = "switching" /\ phase' = "sqlite" /\ Becomes(m, Doing("switched"))
    BY <1>8 DEF Switch, Works
  <2>2. jobs'[m].pc = "switched" /\ \A q \in Processes : q # m => jobs'[q] = jobs[q]
    BY <2>1, BecomesJob, DoingIs
  <2>3. ASSUME NEW k \in Kept PROVE RecordKept(k)' /\ PassOK(m, k)'
    <3>1. phase = "flat" \/ phase = "sqlite"
      BY <1>1 DEF DataTypeOK
    <3>2. sqlite[k] = truth[k]
      BY <1>3, <2>1, <3>1 DEF RecordKept, PassOK, Authority
    <3>3. flat[k] # Absent => Verified(k)
      BY <1>3, <2>1 DEF PassOK
    <3> QED
      BY <1>2, <2>1, <2>2, <3>2, <3>3 DEF RecordKept, PassOK, Authority, Verified
  <2> QED
    BY <1>2, <2>2, <2>3, WorkKeeps
<1>9. CASE MarkVerified(m)
  BY <1>5, <1>9 DEF MarkVerified
<1>10. CASE Inventory(m)
  <2> DEFINE job == [Doing("copying") EXCEPT !.todo = Present]
  <2>1. jobs'[m] = job /\ (\A q \in Processes : q # m => jobs'[q] = jobs[q]) /\ phase' = phase
    BY <1>10, BecomesJob DEF Inventory
  <2>2. jobs'[m].pc = "copying" /\ jobs'[m].todo = Present
    BY <2>1 DEF Doing
  <2>3. ASSUME NEW k \in Kept PROVE PassOK(m, k)'
    BY <1>2, <1>3, <2>2 DEF PassOK, Present
  <2> QED
    BY <1>2, <1>4, <2>1, <2>3, WorkKeeps
<1> QED
  BY <1>6, <1>7, <1>8, <1>9, <1>10

LEMMA RetireKeeps ==
  ASSUME TypedInv, KeptInv, NEW m \in Operators, Managed = Operators,
         BeginRetire(m) \/ \E i \in Records : RetireFile(m, i)
  PROVE  KeptInv'
<1>1. DataTypeOK /\ jobs[m] \in Job
  BY TypesSplit, StorageAssumption DEF TypedInv, DataTypeOK
<1>2. /\ at[m] = "exclusive" /\ at' = at
      /\ UNCHANGED <<phase, sqlite, items, truth>>
  BY DEF BeginRetire, RetireFile, Works, Entitled, leaseVars
<1>3. ASSUME NEW k \in Kept
      PROVE  k \in Records /\ RecordKept(k) /\ PassOK(m, k)
  BY <1>2, <1>3 DEF Kept, KeptInv, TaskOK
<1>4. CASE BeginRetire(m)
  <2> DEFINE job == [Doing("retiring") EXCEPT !.todo = Present]
  <2>1. /\ jobs'[m] = job /\ \A q \in Processes : q # m => jobs'[q] = jobs[q]
        /\ flat' = flat /\ phase = "sqlite"
    BY <1>4, BecomesJob DEF BeginRetire
  <2>2. jobs'[m].pc = "retiring"
    BY <2>1 DEF Doing
  <2>3. ASSUME NEW k \in Kept PROVE RecordKept(k)' /\ PassOK(m, k)'
    BY <1>2, <1>3, <2>1, <2>2 DEF RecordKept, Authority, Verified, PassOK
  <2> QED
    BY <1>2, <2>1, <2>3, WorkKeeps
<1>5. ASSUME NEW i \in Records, RetireFile(m, i) PROVE KeptInv'
  <2> DEFINE job == [jobs[m] EXCEPT !.todo = @ \ {i}]
  <2>1. /\ jobs'[m] = job /\ \A q \in Processes : q # m => jobs'[q] = jobs[q]
        /\ jobs[m].pc = "retiring" /\ flat' = [flat EXCEPT ![i] = Absent]
    BY <1>5, BecomesJob DEF RetireFile, Works
  <2>2. jobs'[m].pc = "retiring"
    BY <1>1, <2>1 DEF Job
  <2>3. ASSUME NEW k \in Kept PROVE RecordKept(k)' /\ PassOK(m, k)'
    <3>1. phase = "sqlite" /\ flat'[k] \in {flat[k], Absent}
      BY <1>1, <1>3, <2>1 DEF PassOK, DataTypeOK
    <3> QED
      BY <1>2, <1>3, <2>2, <3>1 DEF RecordKept, Authority, Verified, PassOK
  <2> QED
    BY <1>2, <2>1, <2>3, WorkKeeps
<1> QED
  BY <1>4, <1>5

LEMMA KeptStep ==
  ASSUME Managed = Operators, TypedInv, KeptInv, [Next]_storageVars
  PROVE  KeptInv'
<1>1. ASSUME UNCHANGED <<phase, flat, sqlite, items, jobs, truth>>,
             \A p \in Processes : at'[p] = at[p] \/ at'[p] = "crashed"
      PROVE  KeptInv'
  <2>1. Pages \subseteq Processes /\ Operators \subseteq Processes
    BY StorageAssumption DEF Clients
  <2>2. ASSUME NEW k \in Kept PROVE RecordKept(k)'
    BY <1>1 DEF KeptInv, RecordKept, Authority, Verified
  <2>3. ASSUME NEW c \in Pages PROVE PageOK(c)'
    BY <1>1, <2>1 DEF KeptInv, PageOK
  <2>4. ASSUME NEW m \in Operators PROVE TaskOK(m)'
    BY <1>1, <2>1 DEF KeptInv, TaskOK, PassOK, Verified
  <2> QED
    BY <2>2, <2>3, <2>4 DEF KeptInv
<1>2. CASE UNCHANGED storageVars
  BY <1>1, <1>2 DEF storageVars, leaseVars, dataVars
<1>3. ASSUME NEW p \in Processes, Dies(p) PROVE KeptInv'
  <2>1. \A q \in Processes : at'[q] = at[q] \/ at'[q] = "crashed"
    BY <1>3 DEF Dies, Crash, TypedInv, LeaseInv, LeaseTypeOK
  <2> QED
    BY <1>1, <1>3, <2>1 DEF Dies, dataVars
<1>4. ASSUME NEW m \in Operators, Operator(m) PROVE KeptInv'
  BY <1>4, LeaseMovesKeep, CopyKeeps, AcceptKeeps, SwitchKeeps, RetireKeeps DEF Operator
<1> QED
  BY <1>2, <1>3, <1>4, ClientKeeps DEF Next

LEMMA KeptInit == Init => KeptInv
<1> SUFFICES ASSUME Init PROVE KeptInv
  OBVIOUS
<1>1. \A p \in Processes : at[p] = "out" /\ jobs[p] = NoJob
  BY DEF Init, LeaseInit
<1>2. Pages \subseteq Processes /\ Operators \subseteq Processes
  BY StorageAssumption DEF Clients
<1>3. ASSUME NEW k \in Kept PROVE RecordKept(k)
  BY DEF Init, Kept, RecordKept, Authority
<1> QED
  BY <1>1, <1>2, <1>3 DEF KeptInv, PageOK, TaskOK

\* Storage.Records: if every operator works under the exclusive lease, a record that
\* pages keep and never remove is always the one its last acknowledged write left,
\* through copies that are interrupted and repeated, the switch and the retirement.
THEOREM LeasedRecordsKept == ASSUME Managed = Operators PROVE Spec => []RoutedKept
<1>1. Init => TypedInv /\ KeptInv
  BY TypedInit, KeptInit
<1>2. (TypedInv /\ KeptInv) /\ [Next]_storageVars => (TypedInv /\ KeptInv)'
  BY TypedStep, KeptStep
<1>3. KeptInv => RoutedKept
  BY DEF KeptInv, RecordKept, RoutedKept, Kept
<1> QED
  BY <1>1, <1>2, <1>3, PTL DEF Spec
==============================================================================
